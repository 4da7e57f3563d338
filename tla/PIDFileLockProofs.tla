-------------------------- MODULE PIDFileLockProofs --------------------------
(***************************************************************************)
(* Proof that the lock of PIDFileLock excludes, for any number of          *)
(* processes and deaths, as long as its file is never removed.             *)
(***************************************************************************)
EXTENDS PIDFileLock, TLAPS

\* A process past the lock holds it, on the file that the path names unless the path
\* was removed.
LockInv ==
    /\ \A p \in Process : pc[p] \in Holding => flock[fd[p]] = p
    /\ ~removed => \A p \in Process : fd[p] # None => fd[p] = path

USE DEF vars

\* A bounded counter below its bound may be stepped.
LEMMA CountUp ==
    ASSUME NEW max \in Nat, NEW n \in 0..max, n < max
    PROVE  n + 1 \in 0..max
OBVIOUS

\* Every step keeps the types, and the descriptors in step with the labels.
LEMMA TypeStep ==
    ASSUME TypeOK, [Next]_vars
    PROVE  TypeOK'
<1> USE DEF TypeOK, Label, Holding, HasFile, Goto, End, Unlink, Free
<1>1. CASE UNCHANGED vars
  BY <1>1
<1>2. ASSUME NEW p \in Process, Start(p) PROVE TypeOK'
  BY <1>2, LockAssumption DEF Start
<1>3. ASSUME NEW p \in Process, Open(p) PROVE TypeOK'
  BY <1>3, LockAssumption DEF Open
<1>4. ASSUME NEW p \in Process, Flock(p) PROVE TypeOK'
  BY <1>4, LockAssumption DEF Flock
<1>5. ASSUME NEW p \in Process, Truncate(p) PROVE TypeOK'
  BY <1>5, LockAssumption DEF Truncate
<1>6. ASSUME NEW p \in Process, WritePid(p) PROVE TypeOK'
  BY <1>6, LockAssumption DEF WritePid
<1>7. ASSUME NEW p \in Process, OpenToRead(p) PROVE TypeOK'
  BY <1>7, LockAssumption DEF OpenToRead
<1>8. ASSUME NEW p \in Process, ReadPid(p) PROVE TypeOK'
  BY <1>8, LockAssumption DEF ReadPid
<1>9. ASSUME NEW p \in Process, ProbePid(p) PROVE TypeOK'
  BY <1>9, LockAssumption DEF ProbePid
<1>10. ASSUME NEW p \in Process, RemoveStale(p) PROVE TypeOK'
  BY <1>10, LockAssumption DEF RemoveStale
<1>11. ASSUME NEW p \in Process, Unlock(p) PROVE TypeOK'
  BY <1>11, LockAssumption DEF Unlock
<1>12. ASSUME NEW p \in Process, RemovePath(p) PROVE TypeOK'
  BY <1>12, LockAssumption DEF RemovePath
<1>13. ASSUME NEW p \in Process, LeavePath(p) PROVE TypeOK'
  BY <1>13, LockAssumption DEF LeavePath
<1>14. ASSUME NEW p \in Process, Kill(p) PROVE TypeOK'
  <2>1. crashes < MaxCrashes /\ crashes' = crashes + 1 /\ crashes \in 0..MaxCrashes
    BY <1>14 DEF Kill
  <2>2. crashes' \in 0..MaxCrashes
    BY <2>1, LockAssumption, CountUp
  <2> QED
    BY <1>14, <2>2 DEF Kill, Alive
<1> QED
  BY <1>1, <1>2, <1>3, <1>4, <1>5, <1>6, <1>7, <1>8, <1>9,
     <1>10, <1>11, <1>12, <1>13, <1>14 DEF Next

\* Every step keeps the locks with their holders.
LEMMA LockStep ==
    ASSUME TypeOK, LockInv, [Next]_vars
    PROVE  LockInv'
<1> USE DEF TypeOK, LockInv, Holding, HasFile, Goto, End, Unlink, Free
<1>1. CASE UNCHANGED vars
  BY <1>1
<1>2. ASSUME NEW p \in Process, Start(p) PROVE LockInv'
  BY <1>2, LockAssumption DEF Start
<1>3. ASSUME NEW p \in Process, Open(p) PROVE LockInv'
  BY <1>3, LockAssumption DEF Open
<1>4. ASSUME NEW p \in Process, Flock(p) PROVE LockInv'
  BY <1>4, LockAssumption DEF Flock
<1>5. ASSUME NEW p \in Process, Truncate(p) PROVE LockInv'
  BY <1>5, LockAssumption DEF Truncate
<1>6. ASSUME NEW p \in Process, WritePid(p) PROVE LockInv'
  BY <1>6, LockAssumption DEF WritePid
<1>7. ASSUME NEW p \in Process, OpenToRead(p) PROVE LockInv'
  BY <1>7, LockAssumption DEF OpenToRead
<1>8. ASSUME NEW p \in Process, ReadPid(p) PROVE LockInv'
  BY <1>8, LockAssumption DEF ReadPid
<1>9. ASSUME NEW p \in Process, ProbePid(p) PROVE LockInv'
  BY <1>9, LockAssumption DEF ProbePid
<1>10. ASSUME NEW p \in Process, RemoveStale(p) PROVE LockInv'
  <2>1. CASE path = None
    <3>1. removed
      BY <1>10, <2>1 DEF RemoveStale
    <3>2. removed'
      BY <1>10, <3>1 DEF RemoveStale
    <3> QED
      BY <1>10, <3>2, LockAssumption DEF RemoveStale
  <2>2. CASE path # None
    <3>1. removed'
      BY <1>10, <2>2 DEF RemoveStale
    <3> QED
      BY <1>10, <3>1, <2>2, LockAssumption DEF RemoveStale
  <2> QED
    BY <2>1, <2>2
<1>11. ASSUME NEW p \in Process, Unlock(p) PROVE LockInv'
  BY <1>11, LockAssumption DEF Unlock
<1>12. ASSUME NEW p \in Process, RemovePath(p) PROVE LockInv'
  BY <1>12, LockAssumption DEF RemovePath
<1>13. ASSUME NEW p \in Process, LeavePath(p) PROVE LockInv'
  BY <1>13, LockAssumption DEF LeavePath
<1>14. ASSUME NEW p \in Process, Kill(p) PROVE LockInv'
  BY <1>14, LockAssumption DEF Kill
<1> QED
  BY <1>1, <1>2, <1>3, <1>4, <1>5, <1>6, <1>7, <1>8, <1>9,
     <1>10, <1>11, <1>12, <1>13, <1>14 DEF Next

\* The types and the locks hold in every state of every behaviour.
THEOREM Invariance == Spec => [](TypeOK /\ LockInv)
<1>1. Init => TypeOK /\ LockInv
  <2>1. Init => TypeOK
    <3>1. 0 \in 0..MaxCrashes
      BY LockAssumption
    <3>2. Init => \A p \in Process : fd[p] # None <=> pc[p] \in HasFile
      BY DEF Init, Holding, HasFile
    <3> QED
      BY <3>1, <3>2 DEF Init, TypeOK, Label
  <2>2. Init => LockInv
    BY DEF Init, LockInv, Holding
  <2> QED
    BY <2>1, <2>2
<1>2. TypeOK /\ LockInv /\ [Next]_vars => TypeOK' /\ LockInv'
  BY TypeStep, LockStep
<1> QED
  BY <1>1, <1>2, PTL DEF Spec

\* Two runs of a node overlap only when the pid file was removed, by the end of a run
\* or as a stale one.
THEOREM Exclusion == Spec => []OverlapOnlyByRemoval
<1>1. TypeOK /\ LockInv => OverlapOnlyByRemoval
  BY DEF TypeOK, LockInv, OverlapOnlyByRemoval, MutualExclusion, Holding, HasFile
<1> QED
  BY <1>1, Invariance, PTL
==============================================================================
