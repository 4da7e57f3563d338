-------------------------- MODULE ResilienceProofs --------------------------
(***************************************************************************)
(* Proofs about Resilience, for any set of partitions and any bounds on    *)
(* exports, writes and faults: type correctness; that a clone without its  *)
(* slapproxy is reported; and that what an import restores is one export.  *)
(***************************************************************************)
EXTENDS Resilience, TLAPS

USE DEF vars, theia, export, server, import, aux

-----------------------------------------------------------------------------
(* Types. *)

\* A bounded counter below its bound may be stepped.
LEMMA CountUp ==
    ASSUME NEW max \in Nat, NEW n \in 0..max, n < max
    PROVE  n + 1 \in 0..max
OBVIOUS

\* A fault leaves the counter of faults within its bound.
LEMMA FaultType ==
    ASSUME TypeOK, Fault
    PROVE  faults' \in 0..MaxFaults /\ faulted' \in BOOLEAN
  BY ResilienceAssumption, CountUp DEF TypeOK, Fault

\* What an exporter copies of a part is a content.
LEMMA CurrentType ==
    ASSUME TypeOK, NEW x \in Part
    PROVE  Current(x) \in Content
<1>1. CASE x = Root
  BY <1>1, ResilienceAssumption DEF TypeOK, Current, Content
<1>2. CASE x # Root
  <2>1. x \in Partition
    BY <1>2 DEF Part
  <2>2. live[x] \in 0..MaxWrites
    BY <2>1 DEF TypeOK
  <2> QED
    BY <1>2, <2>2, ResilienceAssumption DEF Current, Content
<1> QED
  BY <1>1, <1>2

\* A copy belongs to an export that has begun.
CopyInv == exportAt \in {"copy", "sign", "check"} => exports \in 1..MaxExports

\* Every step keeps the types.
LEMMA TypeStep ==
    ASSUME TypeOK, CopyInv, [Next]_vars
    PROVE  TypeOK'
<1> USE DEF TypeOK
<1>1. CASE UNCHANGED vars
  BY <1>1
<1>2. CASE BeginExport
  <2>1. exports' \in 0..MaxExports
    BY <1>2, ResilienceAssumption, CountUp DEF BeginExport
  <2>2. backup_dir' \in Directory
    BY <1>2 DEF BeginExport, Directory, Content
  <2> QED
    BY <1>2, <2>1, <2>2 DEF BeginExport
<1>3. ASSUME NEW x \in Part, BackUp(x) PROVE TypeOK'
  <2>1. exports \in 1..MaxExports
    BY <1>3, ResilienceAssumption DEF BackUp, CopyInv
  <2>2. backup_dir' \in Directory
    BY <1>3, CurrentType DEF BackUp, Directory
  <2>3. snapshot' \in [1..MaxExports -> [Part -> Content]]
    BY <1>3, <2>1, CurrentType DEF BackUp
  <2> QED
    BY <1>3, <2>1, <2>2, <2>3 DEF BackUp
<1>4. ASSUME NEW x \in Part, Sign(x) PROVE TypeOK'
  <2>1. backup_dir' \in Directory
    BY <1>4 DEF Sign, Directory, Digest, File
  <2> QED
    BY <1>4, <2>1 DEF Sign
<1>5. CASE CheckPartitions
  <2>1. due' \subseteq {"pull", "push", "import"}
    BY <1>5 DEF CheckPartitions, Notified
  <2>2. sent' \in 0..MaxExports /\ faulted' \in BOOLEAN
    BY <1>5 DEF CheckPartitions
  <2>3. UNCHANGED <<theia, exports, toExport, backup_dir, snapshot, server, clone_dir, import,
                    halfWritten, torn, takeover_triggered, faults>> /\ exportAt' = "idle"
    BY <1>5 DEF CheckPartitions
  <2> QED
    BY <2>1, <2>2, <2>3
<1>6. CASE ExportFails
  <2>1. faults' \in 0..MaxFaults /\ faulted' \in BOOLEAN
    BY <1>6, FaultType DEF ExportFails
  <2> QED
    BY <1>6, <2>1 DEF ExportFails
<1>7. ASSUME NEW p \in Partition, Write(p) PROVE TypeOK'
  <2>1. live[p] \in 0..MaxWrites /\ live'[p] \in 0..MaxWrites
    BY <1>7, ResilienceAssumption, CountUp DEF Write
  <2> QED
    BY <1>7, <2>1 DEF Write
<1>8. ASSUME NEW j \in {"pull", "push"}, StartJob(j) PROVE TypeOK'
  BY <1>8 DEF StartJob
<1>9. ASSUME NEW f \in File, Pull(f) PROVE TypeOK'
  <2>1. repository' \in Directory
    BY <1>9 DEF Pull, Directory
  <2> QED
    BY <1>9, <2>1 DEF Pull
<1>10. ASSUME NEW f \in File, Push(f) PROVE TypeOK'
  <2>1. clone_dir' \in Directory
    BY <1>10 DEF Push, Directory
  <2> QED
    BY <1>10, <2>1 DEF Push
<1>11. CASE EndPull
  BY <1>11 DEF EndPull, Notified
<1>12. CASE EndPush
  BY <1>12 DEF EndPush, Notified
<1>13. CASE PullFails
  <2>1. faults' \in 0..MaxFaults /\ faulted' \in BOOLEAN
    BY <1>13, FaultType DEF PullFails
  <2> QED
    BY <1>13, <2>1 DEF PullFails, Notified
<1>14. CASE CleaningFails
  <2>1. faults' \in 0..MaxFaults /\ faulted' \in BOOLEAN
    BY <1>14, FaultType DEF CleaningFails
  <2> QED
    BY <1>14, <2>1 DEF CleaningFails
<1>15. CASE PushFails
  <2>1. faults' \in 0..MaxFaults /\ faulted' \in BOOLEAN
    BY <1>15, FaultType DEF PushFails
  <2> QED
    BY <1>15, <2>1 DEF PushFails
<1>16. CASE StartImport
  BY <1>16 DEF StartImport
<1>17. ASSUME NEW x \in Part, Verify(x) PROVE TypeOK'
  BY <1>17 DEF Verify, Imported
<1>18. CASE StopProxy
  BY <1>18 DEF StopProxy
<1>19. ASSUME NEW x \in Part, Restore(x) PROVE TypeOK'
  <2>1. clone' \in [Part -> Content]
    BY <1>19 DEF Restore, Directory, File
  <2> QED
    BY <1>19, <2>1 DEF Restore, Imported
<1>20. CASE StartProxy
  BY <1>20 DEF StartProxy
<1>21. CASE Build
  BY <1>21 DEF Build, Part
<1>22. ASSUME NEW x \in Part, VerifyCustom(x) PROVE TypeOK'
  BY <1>22 DEF VerifyCustom
<1>23. CASE ImportSucceeds
  BY <1>23 DEF ImportSucceeds, EndImport
<1>24. CASE ImportRefuses
  BY <1>24 DEF ImportRefuses, EndImport
<1>25. CASE ImportFails
  <2>1. faults' \in 0..MaxFaults /\ faulted' \in BOOLEAN
    BY <1>25, FaultType DEF ImportFails
  <2> QED
    BY <1>25, <2>1 DEF ImportFails, EndImport
<1>26. CASE ImportDies
  <2>1. faults' \in 0..MaxFaults /\ faulted' \in BOOLEAN
    BY <1>26, FaultType DEF ImportDies
  <2> QED
    BY <1>26, <2>1 DEF ImportDies
<1>27. CASE LeaveLockFile
  BY <1>27 DEF LeaveLockFile
<1> QED
  BY <1>1, <1>2, <1>3, <1>4, <1>5, <1>6, <1>7, <1>8, <1>9, <1>10, <1>11, <1>12, <1>13,
     <1>14, <1>15, <1>16, <1>17, <1>18, <1>19, <1>20, <1>21, <1>22, <1>23, <1>24, <1>25,
     <1>26, <1>27
  DEF Next, ExportStep, ServerStep, ImportStep

\* An export is counted before anything is copied.
LEMMA CopyStep ==
    ASSUME TypeOK, CopyInv, [Next]_vars
    PROVE  CopyInv'
<1> USE DEF CopyInv
<1>1. CASE UNCHANGED vars
  BY <1>1 DEF TypeOK
<1>2. CASE BeginExport
  BY <1>2, ResilienceAssumption DEF BeginExport, TypeOK
<1>3. ASSUME NEW x \in Part, BackUp(x) PROVE CopyInv'
  BY <1>3 DEF BackUp, TypeOK
<1>4. ASSUME NEW x \in Part, Sign(x) PROVE CopyInv'
  BY <1>4 DEF Sign, TypeOK
<1>5. CASE CheckPartitions
  BY <1>5 DEF CheckPartitions, TypeOK
<1>6. CASE ExportFails
  BY <1>6 DEF ExportFails, Fault, TypeOK
<1>7. ASSUME NEW p \in Partition, Write(p) PROVE CopyInv'
  BY <1>7 DEF Write, TypeOK
<1>8. ASSUME NEW j \in {"pull", "push"}, StartJob(j) PROVE CopyInv'
  BY <1>8 DEF StartJob, TypeOK
<1>9. ASSUME NEW f \in File, Pull(f) PROVE CopyInv'
  BY <1>9 DEF Pull, TypeOK
<1>10. ASSUME NEW f \in File, Push(f) PROVE CopyInv'
  BY <1>10 DEF Push, TypeOK
<1>11. CASE EndPull
  BY <1>11 DEF EndPull, TypeOK
<1>12. CASE EndPush
  BY <1>12 DEF EndPush, TypeOK
<1>13. CASE PullFails
  BY <1>13 DEF PullFails, Fault, TypeOK
<1>14. CASE CleaningFails
  BY <1>14 DEF CleaningFails, Fault, TypeOK
<1>15. CASE PushFails
  BY <1>15 DEF PushFails, Fault, TypeOK
<1>16. CASE StartImport
  BY <1>16 DEF StartImport, TypeOK
<1>17. ASSUME NEW x \in Part, Verify(x) PROVE CopyInv'
  BY <1>17 DEF Verify, Imported, TypeOK
<1>18. CASE StopProxy
  BY <1>18 DEF StopProxy, TypeOK
<1>19. ASSUME NEW x \in Part, Restore(x) PROVE CopyInv'
  BY <1>19 DEF Restore, Imported, TypeOK
<1>20. CASE StartProxy
  BY <1>20 DEF StartProxy, TypeOK
<1>21. CASE Build
  BY <1>21 DEF Build, TypeOK
<1>22. ASSUME NEW x \in Part, VerifyCustom(x) PROVE CopyInv'
  BY <1>22 DEF VerifyCustom, TypeOK
<1>23. CASE ImportSucceeds
  BY <1>23 DEF ImportSucceeds, EndImport, TypeOK
<1>24. CASE ImportRefuses
  BY <1>24 DEF ImportRefuses, EndImport, TypeOK
<1>25. CASE ImportFails
  BY <1>25 DEF ImportFails, EndImport, Fault, TypeOK
<1>26. CASE ImportDies
  BY <1>26 DEF ImportDies, Fault, TypeOK
<1>27. CASE LeaveLockFile
  BY <1>27 DEF LeaveLockFile, TypeOK
<1> QED
  BY <1>1, <1>2, <1>3, <1>4, <1>5, <1>6, <1>7, <1>8, <1>9, <1>10, <1>11, <1>12, <1>13,
     <1>14, <1>15, <1>16, <1>17, <1>18, <1>19, <1>20, <1>21, <1>22, <1>23, <1>24, <1>25,
     <1>26, <1>27
  DEF Next, ExportStep, ServerStep, ImportStep

\* What the invariants need of a specification: the first state and the steps, no fairness.
Safely == Init /\ [][Next]_vars

\* The types, and that a copy belongs to an export that has begun.
LEMMA Invariance == Safely => [](TypeOK /\ CopyInv)
<1>1. Init => TypeOK /\ CopyInv
  <2> SUFFICES ASSUME Init PROVE TypeOK /\ CopyInv
    OBVIOUS
  <2>1. Empty \in Directory
    BY DEF Empty, Directory, Content
  <2>2. snapshot \in [1..MaxExports -> [Part -> Content]] /\ clone \in [Part -> Content]
    BY DEF Init, Content
  <2>3. custom \subseteq Partition /\ live \in [Partition -> 0..MaxWrites]
    BY ResilienceAssumption DEF Init
  <2>4. exports \in 0..MaxExports /\ sent \in 0..MaxExports /\ faults \in 0..MaxFaults
    BY ResilienceAssumption DEF Init
  <2>5. toExport \subseteq Part /\ toImport \subseteq Part /\ toCopy \subseteq File
    BY DEF Init
  <2>6. exportAt = "idle" /\ due = {} /\ job = "idle" /\ importAt = "idle"
    BY DEF Init
  <2>7. backup_dir = Empty /\ repository = Empty /\ before = Empty /\ clone_dir = Empty
    BY DEF Init
  <2>8. /\ proxy = TRUE /\ exit_file = "none" /\ halfWritten = {} /\ torn = FALSE
        /\ killed = FALSE /\ faulted = FALSE /\ takeover_triggered = FALSE
    BY DEF Init
  <2> QED
    BY <2>1, <2>2, <2>3, <2>4, <2>5, <2>6, <2>7, <2>8 DEF TypeOK, CopyInv
<1>2. TypeOK /\ CopyInv /\ [Next]_vars => TypeOK' /\ CopyInv'
  BY TypeStep, CopyStep
<1> QED
  BY <1>1, <1>2, PTL DEF Safely

\* The variables have their types, whatever the bounds.
THEOREM TypeCorrect == Spec => []TypeOK
  BY Invariance, PTL DEF Spec, Safely

-----------------------------------------------------------------------------
(* The slapproxy of the clone. *)

\* Until an import stops the slapproxy it is as the import before left it; once it is
\* started again the import has only steps that leave it alone.
ProxyInv ==
    /\ importAt \in {"idle", "verify", "stop_proxy"} /\ ~proxy /\ ~killed => exit_file = "1"
    /\ importAt \in {"build", "verify_custom"} => proxy

\* Every end of an import between the two writes an exit code that is not 0.
LEMMA ProxyStep ==
    ASSUME TypeOK, ProxyInv, [Next]_vars
    PROVE  ProxyInv'
<1> USE DEF ProxyInv
<1>1. CASE UNCHANGED vars
  BY <1>1 DEF TypeOK
<1>2. CASE BeginExport
  BY <1>2 DEF BeginExport, TypeOK
<1>3. ASSUME NEW x \in Part, BackUp(x) PROVE ProxyInv'
  BY <1>3 DEF BackUp, TypeOK
<1>4. ASSUME NEW x \in Part, Sign(x) PROVE ProxyInv'
  BY <1>4 DEF Sign, TypeOK
<1>5. CASE CheckPartitions
  BY <1>5 DEF CheckPartitions, TypeOK
<1>6. CASE ExportFails
  BY <1>6 DEF ExportFails, Fault, TypeOK
<1>7. ASSUME NEW p \in Partition, Write(p) PROVE ProxyInv'
  BY <1>7 DEF Write, TypeOK
<1>8. ASSUME NEW j \in {"pull", "push"}, StartJob(j) PROVE ProxyInv'
  BY <1>8 DEF StartJob, TypeOK
<1>9. ASSUME NEW f \in File, Pull(f) PROVE ProxyInv'
  BY <1>9 DEF Pull, TypeOK
<1>10. ASSUME NEW f \in File, Push(f) PROVE ProxyInv'
  BY <1>10 DEF Push, TypeOK
<1>11. CASE EndPull
  BY <1>11 DEF EndPull, TypeOK
<1>12. CASE EndPush
  BY <1>12 DEF EndPush, TypeOK
<1>13. CASE PullFails
  BY <1>13 DEF PullFails, Fault, TypeOK
<1>14. CASE CleaningFails
  BY <1>14 DEF CleaningFails, Fault, TypeOK
<1>15. CASE PushFails
  BY <1>15 DEF PushFails, Fault, TypeOK
<1>16. CASE StartImport
  BY <1>16 DEF StartImport, TypeOK
<1>17. ASSUME NEW x \in Part, Verify(x) PROVE ProxyInv'
  BY <1>17 DEF Verify, Imported, TypeOK
<1>18. CASE StopProxy
  BY <1>18 DEF StopProxy, TypeOK
<1>19. ASSUME NEW x \in Part, Restore(x) PROVE ProxyInv'
  BY <1>19 DEF Restore, Imported, TypeOK
<1>20. CASE StartProxy
  BY <1>20 DEF StartProxy, TypeOK
<1>21. CASE Build
  BY <1>21 DEF Build, TypeOK
<1>22. ASSUME NEW x \in Part, VerifyCustom(x) PROVE ProxyInv'
  BY <1>22 DEF VerifyCustom, TypeOK
<1>23. CASE ImportSucceeds
  BY <1>23 DEF ImportSucceeds, EndImport, TypeOK
<1>24. CASE ImportRefuses
  BY <1>24 DEF ImportRefuses, EndImport, TypeOK
<1>25. CASE ImportFails
  BY <1>25 DEF ImportFails, EndImport, Fault, TypeOK
<1>26. CASE ImportDies
  BY <1>26 DEF ImportDies, Fault, TypeOK
<1>27. CASE LeaveLockFile
  BY <1>27 DEF LeaveLockFile, TypeOK
<1> QED
  BY <1>1, <1>2, <1>3, <1>4, <1>5, <1>6, <1>7, <1>8, <1>9, <1>10, <1>11, <1>12, <1>13,
     <1>14, <1>15, <1>16, <1>17, <1>18, <1>19, <1>20, <1>21, <1>22, <1>23, <1>24, <1>25,
     <1>26, <1>27
  DEF Next, ExportStep, ServerStep, ImportStep

\* A clone that was left without its slapproxy says so by its exit code.
LEMMA StoppedIsReported == Safely => []StoppedProxyIsReported
<1>1. Init => ProxyInv
  BY DEF Init, ProxyInv
<1>2. TypeOK /\ ProxyInv /\ [Next]_vars => ProxyInv'
  BY ProxyStep
<1>3. ProxyInv => StoppedProxyIsReported
  BY DEF ProxyInv, StoppedProxyIsReported
<1> QED
  BY <1>1, <1>2, <1>3, Invariance, PTL DEF Safely

\* A clone that was left without its slapproxy says so by its exit code, in every behaviour.
THEOREM StoppedMeansReported == Spec => []StoppedProxyIsReported
  BY StoppedIsReported, PTL DEF Spec, Safely

-----------------------------------------------------------------------------
(* The three processes. *)

Exporting ==
    \/ BeginExport \/ CheckPartitions \/ ExportFails
    \/ \E x \in Part : BackUp(x) \/ Sign(x)
    \/ \E p \in Partition : Write(p)
Serving ==
    \/ EndPull \/ EndPush \/ PullFails \/ CleaningFails \/ PushFails
    \/ \E j \in {"pull", "push"} : StartJob(j)
    \/ \E f \in File : Pull(f) \/ Push(f)
Importing == ImportStep \/ ImportFails \/ ImportDies \/ LeaveLockFile

\* Every step is of one process.
LEMMA Processes ==
    ASSUME [Next]_vars
    PROVE  Exporting \/ Serving \/ Importing \/ UNCHANGED vars
  BY DEF Next, ExportStep, ServerStep, Exporting, Serving, Importing

\* The exporter leaves the server and the clone alone.
LEMMA ExporterFrame ==
    ASSUME Exporting
    PROVE  UNCHANGED <<custom, server, clone_dir, import, halfWritten, torn>>
<1>1. CASE BeginExport
  BY <1>1 DEF BeginExport
<1>2. CASE CheckPartitions
  BY <1>2 DEF CheckPartitions
<1>3. CASE ExportFails
  BY <1>3 DEF ExportFails
<1>4. ASSUME NEW x \in Part, BackUp(x)
      PROVE UNCHANGED <<custom, server, clone_dir, import, halfWritten, torn>>
  BY <1>4 DEF BackUp
<1>5. ASSUME NEW x \in Part, Sign(x)
      PROVE UNCHANGED <<custom, server, clone_dir, import, halfWritten, torn>>
  BY <1>5 DEF Sign
<1>6. ASSUME NEW p \in Partition, Write(p)
      PROVE UNCHANGED <<custom, server, clone_dir, import, halfWritten, torn>>
  BY <1>6 DEF Write
<1> QED
  BY <1>1, <1>2, <1>3, <1>4, <1>5, <1>6 DEF Exporting

\* The server leaves the exporter alone, and of the clone all but its directory.
LEMMA ServerFrame ==
    ASSUME Serving
    PROVE  UNCHANGED <<theia, export, import>>
<1>1. CASE EndPull
  BY <1>1 DEF EndPull
<1>2. CASE EndPush
  BY <1>2 DEF EndPush
<1>3. CASE PullFails
  BY <1>3 DEF PullFails
<1>4. CASE CleaningFails
  BY <1>4 DEF CleaningFails
<1>5. CASE PushFails
  BY <1>5 DEF PushFails
<1>6. ASSUME NEW j \in {"pull", "push"}, StartJob(j) PROVE UNCHANGED <<theia, export, import>>
  BY <1>6 DEF StartJob
<1>7. ASSUME NEW f \in File, Pull(f) PROVE UNCHANGED <<theia, export, import>>
  BY <1>7 DEF Pull
<1>8. ASSUME NEW f \in File, Push(f) PROVE UNCHANGED <<theia, export, import>>
  BY <1>8 DEF Push
<1> QED
  BY <1>1, <1>2, <1>3, <1>4, <1>5, <1>6, <1>7, <1>8 DEF Serving

\* The import leaves the exporter and the server alone, and the directory it reads.
LEMMA ImporterFrame ==
    ASSUME Importing
    PROVE  UNCHANGED <<theia, export, server, clone_dir, halfWritten>>
<1> DEFINE Kept == UNCHANGED <<theia, export, server, clone_dir, halfWritten>>
<1>1. CASE StartImport
  BY <1>1 DEF StartImport
<1>2. ASSUME NEW x \in Part, Verify(x) PROVE Kept
  BY <1>2 DEF Verify
<1>3. CASE StopProxy
  BY <1>3 DEF StopProxy
<1>4. ASSUME NEW x \in Part, Restore(x) PROVE Kept
  BY <1>4 DEF Restore
<1>5. CASE StartProxy
  BY <1>5 DEF StartProxy
<1>6. CASE Build
  BY <1>6 DEF Build
<1>7. ASSUME NEW x \in Part, VerifyCustom(x) PROVE Kept
  BY <1>7 DEF VerifyCustom
<1>8. CASE ImportSucceeds
  BY <1>8 DEF ImportSucceeds
<1>9. CASE ImportRefuses
  BY <1>9 DEF ImportRefuses
<1>10. CASE ImportFails
  BY <1>10 DEF ImportFails
<1>11. CASE ImportDies
  BY <1>11 DEF ImportDies
<1>12. CASE LeaveLockFile
  BY <1>12 DEF LeaveLockFile
<1> QED
  BY <1>1, <1>2, <1>3, <1>4, <1>5, <1>6, <1>7, <1>8, <1>9, <1>10, <1>11, <1>12
  DEF Importing, ImportStep

-----------------------------------------------------------------------------
(* The exporter. *)

Signature(d, x) == d[<<"signature", x>>]
Data(d, x) == d[<<"data", x>>]

\* Export n copied every part; nothing it copied is replaced afterwards.
Whole(n) == \A x \in Part : snapshot[n][x] # NoContent

\* The backup directory holds what the current export copied.
HoldsExport ==
    /\ exports \in 1..MaxExports
    /\ \A x \in Part : /\ snapshot[exports][x] # NoContent
                       /\ snapshot[exports][x] = Data(backup_dir, x)

\* Copies grow with the exports; a signature is that of the copy of the current export, which
\* is whole by then.
ExportInv ==
    /\ \A n \in 1..MaxExports :
          /\ n > exports => \A x \in Part : snapshot[n][x] = NoContent
          /\ snapshot[n][Root] \in {NoContent, n}
          /\ \A x \in Part : snapshot[n][x] # NoContent =>
                /\ Data(backup_dir, x) # NoContent
                /\ snapshot[n][x] <= Data(backup_dir, x)
    /\ \A x \in Part : Data(backup_dir, x) # NoContent => Data(backup_dir, x) <= Current(x)
    /\ exportAt = "copy" =>
          /\ \A x \in Part : Signature(backup_dir, x) = NoContent
          /\ \A x \in toExport : snapshot[exports][x] = NoContent
          /\ \A x \in Part \ toExport : /\ snapshot[exports][x] # NoContent
                                        /\ snapshot[exports][x] = Data(backup_dir, x)
    /\ exportAt = "sign" => HoldsExport
    /\ \A x \in Part : Signature(backup_dir, x) # NoContent =>
          HoldsExport /\ Signature(backup_dir, x) = snapshot[exports][x]

\* A part has a copy and a signature.
LEMMA Keys ==
    ASSUME NEW x \in Part
    PROVE  <<"data", x>> \in File /\ <<"signature", x>> \in File
  BY DEF File

\* A part of a backup directory is copied, or signed, and the rest stays.
LEMMA DataCopied ==
    ASSUME TypeOK, NEW x \in Part, NEW c, backup_dir' = [backup_dir EXCEPT ![<<"data", x>>] = c]
    PROVE  /\ backup_dir'[<<"data", x>>] = c
           /\ \A y \in Part : y # x => backup_dir'[<<"data", y>>] = backup_dir[<<"data", y>>]
           /\ \A y \in Part : backup_dir'[<<"signature", y>>] = backup_dir[<<"signature", y>>]
<1>1. backup_dir \in [File -> Content]
  BY DEF TypeOK, Directory
<1>2. \A y \in Part : <<"signature", y>> # <<"data", x>>
  OBVIOUS
<1>3. \A y \in Part : y # x => <<"data", y>> # <<"data", x>>
  OBVIOUS
<1> QED
  BY <1>1, <1>2, <1>3, Keys

LEMMA Signed ==
    ASSUME TypeOK, NEW x \in Part, NEW c,
           backup_dir' = [backup_dir EXCEPT ![<<"signature", x>>] = c]
    PROVE  /\ backup_dir'[<<"signature", x>>] = c
           /\ \A y \in Part : y # x => backup_dir'[<<"signature", y>>] = backup_dir[<<"signature", y>>]
           /\ \A y \in Part : backup_dir'[<<"data", y>>] = backup_dir[<<"data", y>>]
<1>1. backup_dir \in [File -> Content]
  BY DEF TypeOK, Directory
<1>2. \A y \in Part : <<"data", y>> # <<"signature", x>>
  OBVIOUS
<1>3. \A y \in Part : y # x => <<"signature", y>> # <<"signature", x>>
  OBVIOUS
<1> QED
  BY <1>1, <1>2, <1>3, Keys

\* Every step of the exporter keeps the relations between its copies and signatures.
LEMMA ExportStepInv ==
    ASSUME TypeOK, CopyInv, ExportInv, [Next]_vars
    PROVE  ExportInv'
<1> USE DEF ExportInv, HoldsExport, Signature, Data
<1>1. CASE UNCHANGED <<theia, export>>
  BY <1>1 DEF Current
<1>2. CASE BeginExport
  <2>1. /\ exportAt = "idle" /\ exports' = exports + 1 /\ exportAt' = "copy"
        /\ toExport' = Part /\ UNCHANGED <<theia, snapshot>> /\ exports < MaxExports
        /\ backup_dir' = [f \in File |-> IF f[1] = "signature" THEN NoContent ELSE backup_dir[f]]
    BY <1>2 DEF BeginExport
  <2>2. \A x \in Part : /\ backup_dir'[<<"signature", x>>] = NoContent
                        /\ backup_dir'[<<"data", x>>] = backup_dir[<<"data", x>>]
    BY <2>1, Keys
  <2>3. exports \in Nat /\ exports' \in 1..MaxExports /\ exports' > exports
    BY <2>1, ResilienceAssumption DEF TypeOK
  <2>4. \A x \in Part : snapshot'[exports'][x] = NoContent
    BY <2>1, <2>3
  <2>5. \A n \in 1..MaxExports : n > exports' => n > exports
    BY <2>3
  <2>6. \A x \in Part : Data(backup_dir', x) # NoContent => Data(backup_dir', x) <= Current(x)'
    <3> SUFFICES ASSUME NEW x \in Part, backup_dir[<<"data", x>>] # NoContent
                 PROVE  backup_dir[<<"data", x>>] <= Current(x)'
      BY <2>2
    <3>1. backup_dir[<<"data", x>>] \in Nat /\ backup_dir[<<"data", x>>] <= Current(x)
      BY Keys DEF TypeOK, Directory, Content
    <3>2. CASE x = Root
      BY <3>1, <3>2, <2>3 DEF Current
    <3>3. CASE x # Root
      BY <3>1, <3>3, <2>1 DEF Current
    <3> QED
      BY <3>2, <3>3
  <2>7. \A n \in 1..MaxExports :
           /\ n > exports' => \A x \in Part : snapshot'[n][x] = NoContent
           /\ snapshot'[n][Root] \in {NoContent, n}
           /\ \A x \in Part : snapshot'[n][x] # NoContent =>
                 /\ Data(backup_dir', x) # NoContent
                 /\ snapshot'[n][x] <= Data(backup_dir', x)
    <3>1. snapshot' = snapshot
      BY <2>1
    <3> QED
      BY <3>1, <2>2, <2>5
  <2>8. /\ \A x \in Part : Signature(backup_dir', x) = NoContent
        /\ \A x \in toExport' : snapshot'[exports'][x] = NoContent
        /\ Part \ toExport' = {}
    BY <2>1, <2>2, <2>4
  <2> QED
    BY <2>1, <2>6, <2>7, <2>8
<1>3. ASSUME NEW x \in Part, BackUp(x) PROVE ExportInv'
  <2>1. /\ exportAt = "copy" /\ x \in toExport /\ (Root \in toExport => x = Root)
        /\ toExport' = IF toExport = {x} THEN Part ELSE toExport \ {x}
        /\ exportAt' = IF toExport = {x} THEN "sign" ELSE "copy"
        /\ backup_dir' = [backup_dir EXCEPT ![<<"data", x>>] = Current(x)]
        /\ snapshot' = [snapshot EXCEPT ![exports][x] = Current(x)]
        /\ UNCHANGED <<theia, exports>>
    BY <1>3 DEF BackUp
  <2>2. exports \in 1..MaxExports
    BY <2>1 DEF CopyInv
  <2>3. \A y \in Part : backup_dir'[<<"signature", y>>] = NoContent
    BY <2>1, DataCopied
  <2>4. /\ backup_dir'[<<"data", x>>] = Current(x)
        /\ \A y \in Part : y # x => backup_dir'[<<"data", y>>] = backup_dir[<<"data", y>>]
    BY <2>1, DataCopied
  <2>5. /\ snapshot'[exports][x] = Current(x)
        /\ \A n \in 1..MaxExports, y \in Part :
              n # exports \/ y # x => snapshot'[n][y] = snapshot[n][y]
    BY <2>1, <2>2 DEF TypeOK
  <2>6. Current(x) \in Nat /\ Current(x)' = Current(x)
    BY <2>1, <2>2, ResilienceAssumption DEF TypeOK, Current, Part
  <2>7. Current(x) # NoContent
    BY <2>6, ResilienceAssumption
  <2>8. ASSUME NEW n \in 1..MaxExports
        PROVE  /\ n > exports => \A y \in Part : snapshot'[n][y] = NoContent
               /\ snapshot'[n][Root] \in {NoContent, n}
    <3>1. Root \in Part
      BY DEF Part
    <3> QED
      BY <2>2, <2>5, <3>1 DEF Current
  <2>9. ASSUME NEW n \in 1..MaxExports, NEW y \in Part, snapshot'[n][y] # NoContent
        PROVE  /\ Data(backup_dir', y) # NoContent
               /\ snapshot'[n][y] <= Data(backup_dir', y)
    <3>1. CASE y # x
      BY <2>4, <2>5, <2>9, <3>1
    <3>2. CASE y = x /\ n = exports
      BY <2>4, <2>5, <2>6, <2>7, <3>2
    <3>3. CASE y = x /\ n # exports
      <4>1. snapshot[n][x] # NoContent /\ snapshot[n][x] \in Nat
        BY <2>5, <2>9, <3>3 DEF TypeOK, Content
      <4>2. Data(backup_dir, x) \in Nat
        <5>1. Data(backup_dir, x) # NoContent
          BY <4>1
        <5>2. Data(backup_dir, x) \in Content
          BY Keys DEF TypeOK, Directory
        <5> QED
          BY <5>1, <5>2 DEF Content
      <4> QED
        BY <4>1, <4>2, <2>4, <2>5, <2>6, <2>7, <3>3
    <3> QED
      BY <3>1, <3>2, <3>3
  <2>10. \A y \in Part : Data(backup_dir', y) # NoContent => Data(backup_dir', y) <= Current(y)'
    BY <2>1, <2>4, <2>6 DEF Current
  <2>11. \A y \in toExport \ {x} : y \in Part /\ snapshot'[exports][y] = NoContent
    BY <2>1, <2>2, <2>5 DEF TypeOK
  <2>12. \A y \in (Part \ toExport) \cup {x} : /\ snapshot'[exports][y] # NoContent
                                              /\ snapshot'[exports][y] = backup_dir'[<<"data", y>>]
    BY <2>1, <2>2, <2>4, <2>5, <2>7
  <2>13. CASE toExport = {x}
    BY <2>1, <2>2, <2>3, <2>8, <2>9, <2>10, <2>12, <2>13
  <2>14. CASE toExport # {x}
    BY <2>1, <2>2, <2>3, <2>8, <2>9, <2>10, <2>11, <2>12, <2>14
  <2> QED
    BY <2>13, <2>14
<1>4. ASSUME NEW x \in Part, Sign(x) PROVE ExportInv'
  <2>1. /\ exportAt = "sign" /\ exportAt' \in {"sign", "check"}
        /\ backup_dir' = [backup_dir EXCEPT ![<<"signature", x>>] = backup_dir[<<"data", x>>]]
        /\ UNCHANGED <<theia, exports, snapshot>>
    BY <1>4 DEF Sign, Digest
  <2>2. /\ backup_dir'[<<"signature", x>>] = backup_dir[<<"data", x>>]
        /\ \A y \in Part : y # x => backup_dir'[<<"signature", y>>] = backup_dir[<<"signature", y>>]
        /\ \A y \in Part : backup_dir'[<<"data", y>>] = backup_dir[<<"data", y>>]
    BY <2>1, Signed
  <2>3. HoldsExport /\ HoldsExport'
    BY <2>1, <2>2
  <2>4. \A y \in Part : Current(y)' = Current(y)
    BY <2>1 DEF Current
  <2> QED
    BY <2>1, <2>2, <2>3, <2>4
<1>5. CASE CheckPartitions
  BY <1>5 DEF CheckPartitions, Current
<1>6. CASE ExportFails
  BY <1>6 DEF ExportFails, Current
<1>7. ASSUME NEW p \in Partition, Write(p) PROVE ExportInv'
  <2>1. live' = [live EXCEPT ![p] = @ + 1] /\ UNCHANGED export
    BY <1>7 DEF Write
  <2>2. \A x \in Part : Data(backup_dir, x) # NoContent => Data(backup_dir, x) <= Current(x)'
    <3> SUFFICES ASSUME NEW x \in Part, backup_dir[<<"data", x>>] # NoContent
                 PROVE  backup_dir[<<"data", x>>] <= Current(x)'
      OBVIOUS
    <3>1. backup_dir[<<"data", x>>] \in Nat /\ backup_dir[<<"data", x>>] <= Current(x)
      BY Keys DEF TypeOK, Directory, Content
    <3>2. CASE x = Root
      BY <2>1, <3>1, <3>2 DEF Current
    <3>3. CASE x # Root
      <4>1. x \in Partition /\ live[x] \in Nat
        BY <3>3 DEF Part, TypeOK
      <4>2. live'[x] \in Nat /\ live[x] <= live'[x]
        BY <2>1, <4>1 DEF TypeOK
      <4> QED
        BY <3>1, <3>3, <4>1, <4>2 DEF Current
    <3> QED
      BY <3>2, <3>3
  <2> QED
    BY <2>1, <2>2
<1>8. CASE Serving
  BY <1>1, <1>8, ServerFrame
<1>9. CASE Importing
  BY <1>1, <1>9, ImporterFrame
<1>10. CASE UNCHANGED vars
  BY <1>1, <1>10
<1> QED
  BY <1>2, <1>3, <1>4, <1>5, <1>6, <1>7, <1>8, <1>9, <1>10, Processes DEF Exporting

\* What an export copied stays what it is.
LEMMA SnapshotStays ==
    ASSUME TypeOK, CopyInv, ExportInv, [Next]_vars,
           NEW n \in 1..MaxExports, NEW x \in Part, snapshot[n][x] # NoContent
    PROVE  snapshot'[n][x] = snapshot[n][x]
<1>1. ASSUME NEW y \in Part, BackUp(y) PROVE snapshot'[n][x] = snapshot[n][x]
  <2>1. exportAt = "copy" /\ y \in toExport /\ snapshot' = [snapshot EXCEPT ![exports][y] = Current(y)]
    BY <1>1 DEF BackUp
  <2>2. exports \in 1..MaxExports
    BY <2>1 DEF CopyInv
  <2>3. n # exports \/ x # y
    BY <2>1 DEF ExportInv
  <2> QED
    BY <2>1, <2>2, <2>3 DEF TypeOK
<1>2. CASE BeginExport \/ CheckPartitions \/ ExportFails \/ (\E y \in Part : Sign(y))
           \/ (\E p \in Partition : Write(p))
  BY <1>2 DEF BeginExport, CheckPartitions, ExportFails, Sign, Write
<1>3. CASE Serving
  BY <1>3, ServerFrame
<1>4. CASE Importing
  BY <1>4, ImporterFrame
<1>5. CASE UNCHANGED vars
  BY <1>5
<1> QED
  BY <1>1, <1>2, <1>3, <1>4, <1>5, Processes DEF Exporting

-----------------------------------------------------------------------------
(* A pull. *)

Pulled(kind, x) == <<kind, x>> \notin toCopy

\* The export the signature of the root was taken of, while that is pulled.
RootOf(d) == Signature(d, Root)

\* The signatures are pulled before the data.  When that of the root is of export k, that of
\* a part is not of a later export as long as the exporter still has the root of k, and the
\* data of a part is not older than k.
PullInv ==
    job = "pull" =>
       /\ \A x, y \in Part : Pulled("data", x) => Pulled("signature", y)
       /\ \A x \in Part : Pulled("signature", x) /\ Signature(repository, x) # NoContent =>
             /\ Data(backup_dir, x) # NoContent
             /\ Signature(repository, x) <= Data(backup_dir, x)
       /\ Pulled("signature", Root) /\ RootOf(repository) # NoContent =>
             RootOf(repository) \in 1..MaxExports /\ Whole(RootOf(repository))
       /\ \A x \in Part :
             /\ Pulled("signature", Root) /\ Pulled("signature", x)
             /\ RootOf(repository) # NoContent /\ Signature(repository, x) # NoContent
             /\ \/ Data(backup_dir, Root) = RootOf(repository)
                \/ Pulled("data", Root) /\ Data(repository, Root) = RootOf(repository)
             => Signature(repository, x) <= snapshot[RootOf(repository)][x]
       /\ \A x \in Part : Pulled("data", x) /\ RootOf(repository) # NoContent =>
             /\ Data(repository, x) # NoContent
             /\ snapshot[RootOf(repository)][x] <= Data(repository, x)

\* The types of what PullInv compares.
LEMMA PullTypes ==
    ASSUME TypeOK, NEW x \in Part
    PROVE  /\ Signature(repository, x) \in Content /\ Data(repository, x) \in Content
           /\ Signature(backup_dir, x) \in Content /\ Data(backup_dir, x) \in Content
           /\ \A n \in 1..MaxExports : snapshot[n][x] \in Content
  BY Keys DEF TypeOK, Directory, Signature, Data

\* The data of the backup directory do not get older.
LEMMA DataGrow ==
    ASSUME TypeOK, CopyInv, ExportInv, Exporting, NEW x \in Part, Data(backup_dir, x) # NoContent
    PROVE  Data(backup_dir, x)' # NoContent /\ Data(backup_dir, x) <= Data(backup_dir, x)'
<1>0. Data(backup_dir, x) \in Nat
  BY PullTypes DEF Content
<1>1. ASSUME NEW y \in Part, BackUp(y)
      PROVE  Data(backup_dir, x)' # NoContent /\ Data(backup_dir, x) <= Data(backup_dir, x)'
  <2>1. backup_dir' = [backup_dir EXCEPT ![<<"data", y>>] = Current(y)] /\ exports \in 1..MaxExports
    BY <1>1 DEF BackUp, CopyInv
  <2>2. CASE x = y
    <3>1. Data(backup_dir, x)' = Current(x)
      BY <2>1, <2>2, DataCopied DEF Data
    <3>2. Data(backup_dir, x) <= Current(x)
      BY DEF ExportInv
    <3>3. Current(x) \in Nat
      BY <2>1, ResilienceAssumption DEF TypeOK, Current, Part
    <3> QED
      BY <3>1, <3>2, <3>3, ResilienceAssumption
  <2>3. CASE x # y
    <3>1. Data(backup_dir, x)' = Data(backup_dir, x)
      BY <2>1, <2>3, DataCopied DEF Data
    <3> QED
      BY <3>1, <1>0
  <2> QED
    BY <2>2, <2>3
<1>2. CASE Data(backup_dir, x)' = Data(backup_dir, x)
  BY <1>0, <1>2
<1>3. CASE BeginExport
  <2>1. backup_dir' = [f \in File |-> IF f[1] = "signature" THEN NoContent ELSE backup_dir[f]]
    BY <1>3 DEF BeginExport
  <2>2. Data(backup_dir, x)' = Data(backup_dir, x)
    BY <2>1, Keys DEF Data
  <2> QED
    BY <1>2, <2>2
<1>4. ASSUME NEW y \in Part, Sign(y) PROVE Data(backup_dir, x)' = Data(backup_dir, x)
  <2>1. backup_dir' = [backup_dir EXCEPT ![<<"signature", y>>] = Digest(backup_dir, y)]
    BY <1>4 DEF Sign
  <2> QED
    BY <2>1, Signed DEF Data
<1>5. CASE CheckPartitions \/ ExportFails \/ \E p \in Partition : Write(p)
  <2>1. Data(backup_dir, x)' = Data(backup_dir, x)
    BY <1>5 DEF CheckPartitions, ExportFails, Write, Data
  <2> QED
    BY <1>2, <2>1
<1> QED
  BY <1>1, <1>2, <1>3, <1>4, <1>5 DEF Exporting

\* The data of the root change to the number of an export that is not whole.
LEMMA RootGrows ==
    ASSUME TypeOK, CopyInv, ExportInv, Exporting, NEW k \in 1..MaxExports, Whole(k),
           Data(backup_dir, Root)' = k
    PROVE  Data(backup_dir, Root) = k
<1>0. Root \in Part
  BY DEF Part
<1>1. ASSUME NEW y \in Part, BackUp(y) PROVE Data(backup_dir, Root) = k
  <2>1. /\ backup_dir' = [backup_dir EXCEPT ![<<"data", y>>] = Current(y)]
        /\ exportAt = "copy" /\ y \in toExport
    BY <1>1 DEF BackUp
  <2>2. CASE y = Root
    <3>1. Current(Root) = k
      BY <1>0, <2>1, <2>2, DataCopied DEF Data
    <3>2. snapshot[exports][Root] = NoContent
      BY <2>1, <2>2 DEF ExportInv
    <3> QED
      BY <3>1, <3>2, <1>0 DEF Current, Whole
  <2>3. CASE y # Root
    BY <1>0, <2>1, <2>3, DataCopied DEF Data
  <2> QED
    BY <2>2, <2>3
<1>2. CASE BeginExport
  <2>1. backup_dir' = [f \in File |-> IF f[1] = "signature" THEN NoContent ELSE backup_dir[f]]
    BY <1>2 DEF BeginExport
  <2> QED
    BY <2>1, <1>0, Keys DEF Data
<1>3. ASSUME NEW y \in Part, Sign(y) PROVE Data(backup_dir, Root) = k
  <2>1. backup_dir' = [backup_dir EXCEPT ![<<"signature", y>>] = Digest(backup_dir, y)]
    BY <1>3 DEF Sign
  <2> QED
    BY <2>1, <1>0, Signed DEF Data
<1>4. CASE CheckPartitions \/ ExportFails \/ \E p \in Partition : Write(p)
  BY <1>4 DEF CheckPartitions, ExportFails, Write, Data
<1> QED
  BY <1>1, <1>2, <1>3, <1>4 DEF Exporting

\* What a pull has read stays consistent while it and the exporter go on.
LEMMA PullStepInv ==
    ASSUME TypeOK, CopyInv, ExportInv, PullInv, [Next]_vars, TypeOK'
    PROVE  PullInv'
<1>0. Root \in Part
  BY DEF Part
<1>1. CASE UNCHANGED <<export, job, toCopy, repository>>
  BY <1>1 DEF PullInv, Pulled, RootOf, Whole, Signature, Data
<1>2. CASE job' # "pull"
  BY <1>2 DEF PullInv
<1>3. CASE Exporting
  <2>1. UNCHANGED <<job, toCopy, repository>>
    BY <1>3, ExporterFrame
  <2> SUFFICES ASSUME job = "pull" PROVE PullInv'
    BY <1>2, <2>1
  <2>2. \A n \in 1..MaxExports : Whole(n) => Whole(n)' /\ snapshot'[n] = snapshot[n]
    <3> SUFFICES ASSUME NEW n \in 1..MaxExports, Whole(n)
                 PROVE  Whole(n)' /\ snapshot'[n] = snapshot[n]
      OBVIOUS
    <3>1. \A x \in Part : snapshot'[n][x] = snapshot[n][x]
      BY SnapshotStays DEF Whole
    <3>2. snapshot[n] \in [Part -> Content] /\ snapshot'[n] \in [Part -> Content]
      BY DEF TypeOK
    <3> QED
      BY <3>1, <3>2 DEF Whole
  <2>3. \A x, y \in Part : Pulled("data", x)' => Pulled("signature", y)'
    BY <2>1 DEF PullInv, Pulled
  <2>4. ASSUME NEW x \in Part, Pulled("signature", x)', Signature(repository, x)' # NoContent
        PROVE  Data(backup_dir, x)' # NoContent
               /\ Signature(repository, x)' <= Data(backup_dir, x)'
    <3>1. Data(backup_dir, x) # NoContent /\ Signature(repository, x) <= Data(backup_dir, x)
      BY <2>1, <2>4 DEF PullInv, Pulled, Signature
    <3>2. /\ Data(backup_dir, x)' # NoContent /\ Data(backup_dir, x) <= Data(backup_dir, x)'
      BY <3>1, <1>3, DataGrow
    <3>3. Signature(repository, x)' = Signature(repository, x)
      BY <2>1 DEF Signature
    <3>4. Signature(repository, x) \in Nat /\ Data(backup_dir, x) \in Nat /\ Data(backup_dir, x)' \in Nat
      BY <3>1, <3>2, <3>3, <2>4, PullTypes, Keys DEF Content, TypeOK, Directory, Data
    <3> QED
      BY <3>1, <3>2, <3>3, <3>4
  <2>5. Pulled("signature", Root)' /\ RootOf(repository)' # NoContent =>
            /\ RootOf(repository)' \in 1..MaxExports /\ Whole(RootOf(repository))'
            /\ RootOf(repository)' = RootOf(repository) /\ Whole(RootOf(repository))
            /\ snapshot'[RootOf(repository)] = snapshot[RootOf(repository)]
    BY <2>1, <2>2 DEF PullInv, Pulled, RootOf, Signature, Whole
  <2>6. ASSUME NEW x \in Part, Pulled("signature", Root)', Pulled("signature", x)',
               RootOf(repository)' # NoContent, Signature(repository, x)' # NoContent,
               \/ Data(backup_dir, Root)' = RootOf(repository)'
               \/ Pulled("data", Root)' /\ Data(repository, Root)' = RootOf(repository)'
        PROVE  Signature(repository, x)' <= snapshot'[RootOf(repository)'][x]
    <3>1. /\ Pulled("signature", Root) /\ Pulled("signature", x)
          /\ RootOf(repository)' = RootOf(repository)
          /\ Signature(repository, x)' = Signature(repository, x)
          /\ Pulled("data", Root)' = Pulled("data", Root)
          /\ Data(repository, Root)' = Data(repository, Root)
      BY <2>1, <2>6 DEF Pulled, RootOf, Signature, Data
    <3>2. RootOf(repository) \in 1..MaxExports /\ Whole(RootOf(repository))
      BY <2>5, <2>6, <3>1
    <3>3. \/ Data(backup_dir, Root) = RootOf(repository)
          \/ Pulled("data", Root) /\ Data(repository, Root) = RootOf(repository)
      BY <2>6, <3>1, <3>2, <1>3, RootGrows
    <3>4. Signature(repository, x) <= snapshot[RootOf(repository)][x]
      BY <2>6, <3>1, <3>3 DEF PullInv
    <3> QED
      BY <2>5, <2>6, <3>1, <3>4
  <2>7. ASSUME NEW x \in Part, Pulled("data", x)', RootOf(repository)' # NoContent
        PROVE  /\ Data(repository, x)' # NoContent
               /\ snapshot'[RootOf(repository)'][x] <= Data(repository, x)'
    <3>1. /\ Pulled("data", x) /\ RootOf(repository)' = RootOf(repository)
          /\ Data(repository, x)' = Data(repository, x) /\ Pulled("signature", Root)'
      BY <1>0, <2>1, <2>3, <2>7 DEF Pulled, RootOf, Signature, Data
    <3>2. Data(repository, x) # NoContent /\ snapshot[RootOf(repository)][x] <= Data(repository, x)
      BY <2>7, <3>1 DEF PullInv
    <3> QED
      BY <2>5, <2>7, <3>1, <3>2
  <2> QED
    BY <2>3, <2>4, <2>5, <2>6, <2>7 DEF PullInv
<1>4. ASSUME NEW j \in {"pull", "push"}, StartJob(j) PROVE PullInv'
  <2>1. toCopy' = File
    BY <1>4 DEF StartJob
  <2>2. \A x \in Part : ~Pulled("data", x)' /\ ~Pulled("signature", x)'
    BY <2>1, Keys DEF Pulled
  <2> QED
    BY <1>0, <2>2 DEF PullInv
<1>5. ASSUME NEW f \in File, Pull(f) PROVE PullInv'
  <2>1. /\ job = "pull" /\ f \in toCopy /\ toCopy' = toCopy \ {f}
        /\ (f[1] = "data" => \A g \in toCopy : g[1] = "data")
        /\ repository' = [repository EXCEPT ![f] = backup_dir[f]]
        /\ UNCHANGED <<export, job>>
    BY <1>5 DEF Pull, NextToCopy
  <2>2. /\ repository'[f] = backup_dir[f]
        /\ \A g \in File : g # f => repository'[g] = repository[g]
    BY <2>1 DEF TypeOK, Directory
  <2>3. ASSUME NEW x \in Part, f = <<"signature", x>> PROVE PullInv'
    <3>1. \A y \in Part : ~Pulled("data", y) /\ ~Pulled("data", y)'
      BY <2>1, <2>3, Keys DEF PullInv, Pulled
    <3>2. /\ Signature(repository, x)' = Signature(backup_dir, x)
          /\ \A y \in Part : y # x => /\ Signature(repository, y)' = Signature(repository, y)
                                      /\ Pulled("signature", y)' = Pulled("signature", y)
      BY <2>1, <2>2, <2>3, Keys DEF Signature, Pulled
    <3>3. Signature(backup_dir, x) # NoContent =>
             /\ exports \in 1..MaxExports /\ Whole(exports)
             /\ Signature(backup_dir, x) = snapshot[exports][x]
             /\ \A y \in Part : snapshot[exports][y] = Data(backup_dir, y)
             /\ snapshot[exports][Root] = exports
      BY <1>0 DEF ExportInv, HoldsExport, Whole
    <3>4. ASSUME NEW y \in Part, Pulled("signature", y)', Signature(repository, y)' # NoContent
          PROVE  Data(backup_dir, y) # NoContent /\ Signature(repository, y)' <= Data(backup_dir, y)
      <4>1. CASE y = x
        BY <3>2, <3>3, <3>4, <4>1, PullTypes DEF Whole, Content
      <4>2. CASE y # x
        BY <2>1, <3>2, <3>4, <4>2 DEF PullInv
      <4> QED
        BY <4>1, <4>2
    <3>5. Pulled("signature", Root)' /\ RootOf(repository)' # NoContent =>
             RootOf(repository)' \in 1..MaxExports /\ Whole(RootOf(repository)')
      <4>1. CASE x = Root
        BY <3>2, <3>3, <4>1 DEF RootOf
      <4>2. CASE x # Root
        BY <1>0, <2>1, <3>2, <4>2 DEF RootOf, PullInv
      <4> QED
        BY <4>1, <4>2
    <3>6. ASSUME NEW y \in Part, Pulled("signature", Root)', Pulled("signature", y)',
                 RootOf(repository)' # NoContent, Signature(repository, y)' # NoContent,
                 Data(backup_dir, Root) = RootOf(repository)'
          PROVE  Signature(repository, y)' <= snapshot[RootOf(repository)'][y]
      <4>1. CASE x = Root
        <5>1. RootOf(repository)' = exports /\ snapshot[exports][y] = Data(backup_dir, y)
          BY <3>2, <3>3, <3>6, <4>1 DEF RootOf
        <5> QED
          BY <5>1, <3>4, <3>6
      <4>2. CASE x # Root /\ y = x
        <5>1. /\ exports = RootOf(repository)' /\ Signature(repository, y)' = snapshot[exports][x]
              /\ exports \in 1..MaxExports /\ snapshot[exports][x] # NoContent
          BY <1>0, <3>2, <3>3, <3>6, <4>2 DEF Whole
        <5> QED
          BY <5>1, <4>2, PullTypes DEF Content
      <4>3. CASE x # Root /\ y # x
        BY <1>0, <2>1, <3>2, <3>6, <4>3 DEF RootOf, PullInv
      <4> QED
        BY <4>1, <4>2, <4>3
    <3>7. snapshot' = snapshot /\ backup_dir' = backup_dir
      BY <2>1
    <3> QED
      BY <1>0, <3>1, <3>4, <3>5, <3>6, <3>7 DEF PullInv, Whole, Data
  <2>4. ASSUME NEW x \in Part, f = <<"data", x>> PROVE PullInv'
    <3>1. \A y \in Part : Pulled("signature", y) /\ Pulled("signature", y)'
      BY <2>1, <2>4, Keys DEF Pulled
    <3>2. /\ Data(repository, x)' = Data(backup_dir, x)
          /\ \A y \in Part : Signature(repository, y)' = Signature(repository, y)
          /\ \A y \in Part : y # x => /\ Data(repository, y)' = Data(repository, y)
                                      /\ Pulled("data", y)' = Pulled("data", y)
      BY <2>1, <2>2, <2>4, Keys DEF Signature, Data, Pulled
    <3>3. RootOf(repository)' = RootOf(repository) /\ snapshot' = snapshot /\ backup_dir' = backup_dir
      BY <1>0, <2>1, <3>2 DEF RootOf
    <3>4. RootOf(repository) # NoContent =>
             RootOf(repository) \in 1..MaxExports /\ Whole(RootOf(repository))
      BY <1>0, <2>1, <3>1 DEF PullInv
    <3>5. ASSUME NEW y \in Part, RootOf(repository) # NoContent, Signature(repository, y) # NoContent,
                 \/ Data(backup_dir, Root) = RootOf(repository)
                 \/ Pulled("data", Root)' /\ Data(repository, Root)' = RootOf(repository)
          PROVE  Signature(repository, y) <= snapshot[RootOf(repository)][y]
      BY <1>0, <2>1, <3>1, <3>2, <3>5 DEF PullInv
    <3>6. ASSUME NEW y \in Part, Pulled("data", y)', RootOf(repository) # NoContent
          PROVE  /\ Data(repository, y)' # NoContent
                 /\ snapshot[RootOf(repository)][y] <= Data(repository, y)'
      <4>1. CASE y = x
        BY <3>2, <3>4, <3>6, <4>1 DEF ExportInv, Whole
      <4>2. CASE y # x
        BY <2>1, <3>2, <3>6, <4>2 DEF PullInv
      <4> QED
        BY <4>1, <4>2
    <3>7. \A y \in Part : Signature(repository, y) # NoContent =>
             Data(backup_dir, y) # NoContent /\ Signature(repository, y) <= Data(backup_dir, y)
      BY <2>1, <3>1 DEF PullInv
    <3>8. \A y \in Part : Data(backup_dir, y)' = Data(backup_dir, y)
      BY <3>3 DEF Data
    <3> QED
      BY <1>0, <3>1, <3>2, <3>3, <3>4, <3>5, <3>6, <3>7, <3>8 DEF PullInv, Whole
  <2> QED
    BY <2>3, <2>4 DEF File
<1>6. CASE EndPull \/ EndPush \/ PullFails \/ CleaningFails \/ PushFails \/ (\E f \in File : Push(f))
  <2>1. job' # "pull"
    BY <1>6 DEF EndPull, EndPush, PullFails, CleaningFails, PushFails, Push
  <2> QED
    BY <1>2, <2>1
<1>7. CASE Importing
  BY <1>1, <1>7, ImporterFrame
<1>8. CASE UNCHANGED vars
  BY <1>1, <1>8
<1> QED
  BY <1>3, <1>4, <1>5, <1>6, <1>7, <1>8, Processes DEF Serving

-----------------------------------------------------------------------------
(* Repository and clone. *)

Restorable(d) ==
    \A x \in Part : Signature(d, x) # NoContent /\ Signature(d, x) = Data(d, x)

\* What export of s the parts c are.
Exported(s, c) ==
    \E n \in 1..MaxExports : \A x \in Part : s[n][x] # NoContent /\ c[x] = s[n][x]

\* A backup whose signatures match is that of one export.
Sound(s, d) == Restorable(d) => Exported(s, [x \in Part |-> Data(d, x)])

\* What a pull or a push leaves is sound, unless it was left half written.
StoreInv ==
    /\ Sound(snapshot, before)
    /\ job # "pull" /\ "repository" \notin halfWritten => Sound(snapshot, repository)
    /\ job = "push" => \A f \in File \ toCopy : clone_dir[f] = repository[f]
    /\ job # "push" /\ "clone" \notin halfWritten => Sound(snapshot, clone_dir)

\* What one export copied stays what that export copied.
LEMMA ExportedStays ==
    ASSUME TypeOK, CopyInv, ExportInv, [Next]_vars, NEW c, Exported(snapshot, c)
    PROVE  Exported(snapshot', c)
<1>1. PICK n \in 1..MaxExports : \A x \in Part : snapshot[n][x] # NoContent /\ c[x] = snapshot[n][x]
  BY DEF Exported
<1>2. \A x \in Part : snapshot'[n][x] = snapshot[n][x]
  BY <1>1, SnapshotStays
<1> QED
  BY <1>1, <1>2 DEF Exported

LEMMA SoundStays ==
    ASSUME TypeOK, CopyInv, ExportInv, [Next]_vars, NEW d, Sound(snapshot, d)
    PROVE  Sound(snapshot', d)
  BY ExportedStays DEF Sound

\* What a pull that read every file leaves is sound.
LEMMA PulledIsSound ==
    ASSUME TypeOK, ExportInv, PullInv, job = "pull", toCopy = {}
    PROVE  Sound(snapshot, repository)
<1> SUFFICES ASSUME Restorable(repository)
             PROVE  Exported(snapshot, [x \in Part |-> Data(repository, x)])
  BY DEF Sound
<1> DEFINE k == RootOf(repository)
<1>1. Root \in Part /\ \A x \in Part : Pulled("data", x) /\ Pulled("signature", x)
  BY DEF Part, Pulled
<1>2. k # NoContent /\ Data(repository, Root) = k
  BY <1>1 DEF Restorable, RootOf
<1>3. k \in 1..MaxExports /\ Whole(k)
  BY <1>1, <1>2 DEF PullInv
<1>4. ASSUME NEW x \in Part
      PROVE  snapshot[k][x] # NoContent /\ Data(repository, x) = snapshot[k][x]
  <2>1. snapshot[k][x] # NoContent
    BY <1>3 DEF Whole
  <2>2. Signature(repository, x) # NoContent /\ Signature(repository, x) = Data(repository, x)
    BY DEF Restorable
  <2>3. Signature(repository, x) <= snapshot[k][x] /\ snapshot[k][x] <= Data(repository, x)
    BY <1>1, <1>2, <2>2 DEF PullInv
  <2>4. snapshot[k][x] \in Nat /\ Data(repository, x) \in Nat
    BY <1>3, <2>1, <2>2, PullTypes DEF Content
  <2> QED
    BY <2>1, <2>2, <2>3, <2>4
<1> QED
  BY <1>3, <1>4 DEF Exported

\* Pulls and pushes leave what is sound, or what they left half written.
LEMMA StoreStepInv ==
    ASSUME TypeOK, CopyInv, ExportInv, PullInv, StoreInv, [Next]_vars
    PROVE  StoreInv'
<1>1. CASE Exporting
  <2>1. UNCHANGED <<server, clone_dir, halfWritten>>
    BY <1>1, ExporterFrame
  <2> QED
    BY <2>1, SoundStays DEF StoreInv
<1>2. CASE UNCHANGED <<snapshot, server, clone_dir, halfWritten>>
  BY <1>2 DEF StoreInv
<1>3. ASSUME NEW j \in {"pull", "push"}, StartJob(j) PROVE StoreInv'
  <2>1. /\ job = "idle" /\ toCopy' = File
        /\ UNCHANGED <<export, repository, before, clone_dir, halfWritten>>
    BY <1>3 DEF StartJob
  <2> QED
    BY <2>1 DEF StoreInv
<1>4. ASSUME NEW f \in File, Pull(f) PROVE StoreInv'
  <2>1. job = "pull" /\ UNCHANGED <<export, job, before, clone_dir, halfWritten>>
    BY <1>4 DEF Pull
  <2> QED
    BY <2>1 DEF StoreInv
<1>5. CASE EndPull \/ CleaningFails
  <2>1. /\ job = "pull" /\ toCopy = {} /\ job' = "idle" /\ before' = repository
        /\ halfWritten' = halfWritten \ {"repository"}
        /\ UNCHANGED <<export, repository, clone_dir>>
    BY <1>5 DEF EndPull, CleaningFails
  <2>2. Sound(snapshot, repository)
    BY <2>1, PulledIsSound
  <2> QED
    BY <2>1, <2>2 DEF StoreInv
<1>6. CASE PullFails
  <2>1. /\ job = "pull" /\ job' = "idle" /\ UNCHANGED <<export, before, clone_dir>>
        /\ \/ repository' = before /\ UNCHANGED halfWritten
           \/ repository' = repository /\ halfWritten' = halfWritten \cup {"repository"}
    BY <1>6 DEF PullFails
  <2> QED
    BY <2>1 DEF StoreInv
<1>7. ASSUME NEW f \in File, Push(f) PROVE StoreInv'
  <2>1. /\ job = "push" /\ toCopy' = toCopy \ {f}
        /\ clone_dir' = [clone_dir EXCEPT ![f] = repository[f]]
        /\ UNCHANGED <<export, job, repository, before, halfWritten>>
    BY <1>7 DEF Push
  <2>2. \A g \in File : clone_dir'[g] = IF g = f THEN repository[f] ELSE clone_dir[g]
    BY <2>1 DEF TypeOK, Directory
  <2>3. \A g \in File \ toCopy' : clone_dir'[g] = repository'[g]
    BY <2>1, <2>2 DEF StoreInv
  <2> QED
    BY <2>1, <2>3 DEF StoreInv
<1>8. CASE EndPush
  <2>1. /\ job = "push" /\ toCopy = {} /\ job' = "idle"
        /\ halfWritten' = IF "repository" \in halfWritten THEN halfWritten \cup {"clone"}
                          ELSE halfWritten \ {"clone"}
        /\ UNCHANGED <<export, repository, before, clone_dir>>
    BY <1>8 DEF EndPush
  <2>2. clone_dir = repository
    BY <2>1 DEF StoreInv, TypeOK, Directory
  <2> QED
    BY <2>1, <2>2 DEF StoreInv
<1>9. CASE PushFails
  <2>1. /\ job = "push" /\ job' = "idle" /\ halfWritten' = halfWritten \cup {"clone"}
        /\ UNCHANGED <<export, repository, before, clone_dir>>
    BY <1>9 DEF PushFails
  <2> QED
    BY <2>1 DEF StoreInv
<1>10. CASE Importing
  BY <1>2, <1>10, ImporterFrame
<1>11. CASE UNCHANGED vars
  BY <1>2, <1>11
<1> QED
  BY <1>1, <1>3, <1>4, <1>5, <1>6, <1>7, <1>8, <1>9, <1>10, <1>11, Processes DEF Serving

-----------------------------------------------------------------------------
(* The import. *)

Stopped == {"stop_proxy", "restore", "start_proxy", "build", "verify_custom"}
Restored == {"start_proxy", "build", "verify_custom"}

\* What an import that nothing crossed knows of the directory it reads, and what it leaves.
ImportInv ==
    ~torn =>
       /\ importAt # "idle" => Sound(snapshot, clone_dir)
       /\ importAt = "verify" => \A x \in (Part \ toImport) \ custom : Matches(x)
       /\ importAt \in Stopped => \A x \in Part \ custom : Matches(x)
       /\ importAt = "restore" =>
             \A x \in Part \ toImport : clone[x] = Data(clone_dir, x)
       /\ importAt \in Restored => \A x \in Part : clone[x] = Data(clone_dir, x)
       /\ importAt = "verify_custom" => \A x \in custom \ toImport : Matches(x)
       /\ importAt = "idle" /\ exit_file = "0" /\ ~killed => Exported(snapshot, clone)

\* Every step keeps what an import nothing crossed knows.
LEMMA ImportStepInv ==
    ASSUME TypeOK, CopyInv, ExportInv, StoreInv, ImportInv, [Next]_vars
    PROVE  ImportInv'
<1> USE DEF Stopped, Restored
<1>0. Root \in Part /\ custom \subseteq Part
  BY DEF Part, TypeOK
<1>1. CASE Exporting
  <2>1. UNCHANGED <<custom, clone_dir, import, torn>>
    BY <1>1, ExporterFrame
  <2> QED
    BY <2>1, SoundStays, ExportedStays DEF ImportInv, Matches, Digest, Data
<1>2. CASE UNCHANGED <<custom, snapshot, clone_dir, import, torn>>
  BY <1>2 DEF ImportInv, Matches, Digest, Data
<1>3. ASSUME NEW f \in File, Push(f) PROVE ImportInv'
  <2>1. torn' = (torn \/ importAt # "idle") /\ UNCHANGED <<theia, export, import>>
    BY <1>3 DEF Push
  <2> QED
    BY <2>1 DEF ImportInv
<1>4. CASE Serving /\ ~ \E f \in File : Push(f)
  <2>1. UNCHANGED <<theia, export, import>>
    BY <1>4, ServerFrame
  <2>2. UNCHANGED <<clone_dir, torn>>
    BY <1>4 DEF Serving, EndPull, EndPush, PullFails, CleaningFails, PushFails, StartJob, Pull
  <2> QED
    BY <1>2, <2>1, <2>2
<1>5. CASE StartImport
  <2>1. /\ importAt' = "verify" /\ toImport' = Part
        /\ torn' = (job = "push" \/ "clone" \in halfWritten)
        /\ UNCHANGED <<theia, export, clone_dir, clone>>
    BY <1>5 DEF StartImport
  <2>2. ~torn' => Sound(snapshot, clone_dir)
    BY <2>1 DEF StoreInv
  <2> QED
    BY <2>1, <2>2 DEF ImportInv
<1>6. ASSUME NEW x \in Part, Verify(x) PROVE ImportInv'
  <2>1. /\ importAt = "verify" /\ (x \in custom \/ Matches(x))
        /\ toImport' = IF toImport = {x} THEN {} ELSE toImport \ {x}
        /\ importAt' = IF toImport = {x} THEN "stop_proxy" ELSE importAt
        /\ UNCHANGED <<theia, export, clone_dir, clone, torn>>
    BY <1>6 DEF Verify, Imported
  <2>2. \A y \in Part : Matches(y)' = Matches(y)
    BY <2>1 DEF Matches, Digest
  <2>3. ~torn => \A y \in (Part \ toImport') \ custom : Matches(y)
    BY <2>1 DEF ImportInv
  <2>4. CASE toImport = {x}
    BY <2>1, <2>2, <2>3, <2>4 DEF ImportInv
  <2>5. CASE toImport # {x}
    BY <2>1, <2>2, <2>3, <2>5 DEF ImportInv
  <2> QED
    BY <2>4, <2>5
<1>7. CASE StopProxy
  <2>1. /\ importAt = "stop_proxy" /\ importAt' = "restore" /\ toImport' = Part
        /\ UNCHANGED <<theia, export, clone_dir, clone, torn>>
    BY <1>7 DEF StopProxy
  <2>2. \A y \in Part : Matches(y)' = Matches(y)
    BY <2>1 DEF Matches, Digest
  <2> QED
    BY <2>1, <2>2 DEF ImportInv
<1>8. ASSUME NEW x \in Part, Restore(x) PROVE ImportInv'
  <2>1. /\ importAt = "restore" /\ clone' = [clone EXCEPT ![x] = Data(clone_dir, x)]
        /\ toImport' = IF toImport = {x} THEN {} ELSE toImport \ {x}
        /\ importAt' = IF toImport = {x} THEN "start_proxy" ELSE importAt
        /\ UNCHANGED <<theia, export, clone_dir, torn>>
    BY <1>8 DEF Restore, Imported, Data
  <2>2. \A y \in Part : Matches(y)' = Matches(y) /\ Data(clone_dir, y)' = Data(clone_dir, y)
    BY <2>1 DEF Matches, Digest, Data
  <2>3. \A y \in Part : clone'[y] = IF y = x THEN Data(clone_dir, x) ELSE clone[y]
    BY <2>1 DEF TypeOK
  <2>4. ~torn => \A y \in Part \ toImport' : clone'[y] = Data(clone_dir, y)
    BY <2>1, <2>3 DEF ImportInv
  <2>5. CASE toImport = {x}
    BY <2>1, <2>2, <2>4, <2>5 DEF ImportInv
  <2>6. CASE toImport # {x}
    BY <2>1, <2>2, <2>4, <2>6 DEF ImportInv
  <2> QED
    BY <2>5, <2>6
<1>9. CASE StartProxy \/ Build
  <2>1. /\ importAt \in {"start_proxy", "build"} /\ importAt' \in {"build", "verify_custom"}
        /\ importAt' = "verify_custom" => toImport' = custom
        /\ UNCHANGED <<theia, export, clone_dir, clone, torn>>
    BY <1>9 DEF StartProxy, Build
  <2>2. \A y \in Part : Matches(y)' = Matches(y) /\ Data(clone_dir, y)' = Data(clone_dir, y)
    BY <2>1 DEF Matches, Digest, Data
  <2> QED
    BY <2>1, <2>2 DEF ImportInv
<1>10. ASSUME NEW x \in Part, VerifyCustom(x) PROVE ImportInv'
  <2>1. /\ importAt = "verify_custom" /\ Matches(x) /\ toImport' = toImport \ {x}
        /\ UNCHANGED <<theia, export, clone_dir, importAt, clone, torn>>
    BY <1>10 DEF VerifyCustom
  <2>2. \A y \in Part : Matches(y)' = Matches(y) /\ Data(clone_dir, y)' = Data(clone_dir, y)
    BY <2>1 DEF Matches, Digest, Data
  <2> QED
    BY <1>0, <2>1, <2>2 DEF ImportInv
<1>11. CASE ImportSucceeds
  <2>1. /\ importAt = "verify_custom" /\ toImport = {} /\ importAt' = "idle"
        /\ UNCHANGED <<theia, export, clone_dir, clone, torn>>
    BY <1>11 DEF ImportSucceeds, EndImport
  <2> SUFFICES ASSUME ~torn PROVE Exported(snapshot, clone)
    BY <2>1 DEF ImportInv
  <2>2. Restorable(clone_dir)
    BY <2>1 DEF ImportInv, Restorable, Matches, Digest, Signature, Data
  <2>3. Exported(snapshot, [x \in Part |-> Data(clone_dir, x)])
    BY <2>1, <2>2 DEF ImportInv, Sound
  <2>4. \A x \in Part : clone[x] = Data(clone_dir, x)
    BY <2>1 DEF ImportInv
  <2> QED
    BY <2>3, <2>4 DEF Exported
<1>12. CASE ImportRefuses \/ ImportFails
  <2>1. importAt' = "idle" /\ exit_file' = "1"
    BY <1>12 DEF ImportRefuses, ImportFails, EndImport
  <2> QED
    BY <2>1 DEF ImportInv
<1>13. CASE ImportDies
  <2>1. importAt' = "idle" /\ killed' = TRUE
    BY <1>13 DEF ImportDies
  <2> QED
    BY <2>1 DEF ImportInv
<1>14. CASE LeaveLockFile
  BY <1>2, <1>14 DEF LeaveLockFile
<1>15. CASE UNCHANGED vars
  BY <1>2, <1>15
<1> QED
  BY <1>1, <1>3, <1>4, <1>5, <1>6, <1>7, <1>8, <1>9, <1>10, <1>11, <1>12, <1>13, <1>14, <1>15,
     Processes DEF Importing, ImportStep

-----------------------------------------------------------------------------
RestoreInv == ExportInv /\ PullInv /\ StoreInv /\ ImportInv

\* Before the first export there is nothing a signature could match.
LEMMA InitRestoreInv ==
    ASSUME Init
    PROVE  RestoreInv
<1>1. Root \in Part /\ \A x \in Part : /\ Signature(Empty, x) = NoContent
                                       /\ Data(Empty, x) = NoContent
  BY Keys DEF Part, Empty, Signature, Data
<1>2. \A n \in 1..MaxExports, x \in Part : snapshot[n][x] = NoContent
  BY DEF Init
<1>3. backup_dir = Empty /\ exportAt = "idle"
  BY DEF Init
<1>4. ExportInv
  BY <1>1, <1>2, <1>3 DEF ExportInv
<1>5. PullInv
  BY DEF Init, PullInv
<1>6. Sound(snapshot, Empty)
  BY <1>1 DEF Sound, Restorable
<1>7. StoreInv
  BY <1>6 DEF Init, StoreInv
<1>8. ImportInv
  BY DEF Init, ImportInv, Stopped, Restored
<1> QED
  BY <1>4, <1>5, <1>7, <1>8 DEF RestoreInv

\* What was restored is one export.
LEMMA RestoredIsExported == Safely => []RestoredIsOneExport
<1>1. Init => RestoreInv
  BY InitRestoreInv
<1>2. TypeOK /\ CopyInv /\ RestoreInv /\ [Next]_vars /\ TypeOK' => RestoreInv'
  BY ExportStepInv, PullStepInv, StoreStepInv, ImportStepInv DEF RestoreInv
<1>3. TypeOK /\ RestoreInv => RestoredIsOneExport
  <2> SUFFICES ASSUME TypeOK, ImportInv, importAt = "idle", exit_file = "0", ~killed, ~torn
               PROVE  \E n \in 1..MaxExports : clone = snapshot[n]
    BY DEF RestoreInv, RestoredIsOneExport
  <2>1. PICK n \in 1..MaxExports : \A x \in Part : clone[x] = snapshot[n][x]
    BY DEF ImportInv, Exported
  <2>2. clone \in [Part -> Content] /\ snapshot[n] \in [Part -> Content]
    BY DEF TypeOK
  <2> QED
    BY <2>1, <2>2
<1> QED
  BY <1>1, <1>2, <1>3, Invariance, PTL DEF Safely

\* RestoredIsOneExport: what theia_import.py restored is what one run of theia_export.py
\* copied, although neither the exporter nor the backup server locks anything.
THEOREM RestoredMeansOneExport == Spec => []RestoredIsOneExport
  BY RestoredIsExported, PTL DEF Spec, Safely

=============================================================================
