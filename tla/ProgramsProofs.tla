--------------------------- MODULE ProgramsProofs ---------------------------
(***************************************************************************)
(* What the run of the programs checks, proved for every value of the      *)
(* constants: a section for each program, with its invariant, the step     *)
(* that keeps it and the theorem.  The theorems are about ProgramsSpec:    *)
(* only the program of the behaviour runs (ProgramsStep), and the          *)
(* invariants say nothing while another one does.                          *)
(*                                                                         *)
(* The bounds are natural numbers in every theorem that counts with them;  *)
(* what else a theorem assumes of the constants stands in its statement.   *)
(***************************************************************************)
EXTENDS Programs, ResilienceProofs, Re6stTokensProofs, FiniteSetTheorems, WellFoundedInduction, TLAPS

\* The program stays, and a step of the programs is one of its own.
LEMMA ProgramsStep ==
    ASSUME [ProgramsNext]_all
    PROVE  /\ program' = program
           /\ program = "takeover" => [T!Next]_T!vars
           /\ program = "notebook" => [N!Next]_N!vars
           /\ program = "exec" => [X!Next]_X!vars
           /\ program = "wait" => [W!Next]_W!vars
           /\ program = "keys" => [K!Next]_K!vars
           /\ program = "machine" => [M!Next]_M!vars
           /\ program = "publish" => [P!Next]_P!vars
           /\ program = "request" => [Q!Next]_Q!vars
           /\ program = "validation" => [V!Next]_V!vars
           /\ program = "error pages" => [E!Next]_E!vars
<1>1. CASE ProgramsNext
  BY <1>1 DEF ProgramsNext
<1>2. CASE UNCHANGED all
  <2>1. UNCHANGED T!vars
    BY <1>2 DEF all, T!vars
  <2>2. UNCHANGED N!vars
    BY <1>2 DEF all, N!vars
  <2>3. UNCHANGED X!vars
    BY <1>2 DEF all, X!vars, X!wrapper, X!program, X!rotation, X!lines
  <2>4. UNCHANGED W!vars
    BY <1>2 DEF all, W!vars
  <2>5. UNCHANGED K!vars
    BY <1>2 DEF all, K!vars
  <2>6. UNCHANGED M!vars
    BY <1>2 DEF all, M!vars, M!disks, M!config
  <2>7. UNCHANGED P!vars
    BY <1>2 DEF all, P!vars, P!run, P!slave
  <2>8. UNCHANGED Q!vars
    BY <1>2 DEF all, Q!vars, Q!run
  <2>9. UNCHANGED V!vars
    BY <1>2 DEF all, V!vars
  <2>10. UNCHANGED E!vars
    BY <1>2 DEF all, E!vars, E!manager, E!updater, E!frontend
  <2> QED
    BY <1>2, <2>1, <2>2, <2>3, <2>4, <2>5, <2>6, <2>7, <2>8, <2>9, <2>10 DEF all
<1> QED
  BY <1>1, <1>2

\* The programs begin as they do by themselves.
LEMMA ProgramsBegin ==
    ASSUME ProgramsInit
    PROVE  /\ program = "takeover" => T!Init
           /\ program = "notebook" => N!Init
           /\ program = "exec" => X!Init
           /\ program = "wait" => W!Init
           /\ program = "keys" => K!Init
           /\ program = "machine" => M!Init
           /\ program = "publish" => P!Init
           /\ program = "request" => Q!Init
           /\ program = "validation" => V!Init
           /\ program = "error pages" => E!Init
BY DEF ProgramsInit

-----------------------------------------------------------------------------
(* Takeover. *)

\* Between the change of the name and the end the clone is the only exporter.
TInv ==
    /\ T!TypeOK
    /\ at = "lock" => T!Exporter = {"clone"}
    /\ T!LockedCloneIsExporter


\* Every step of a takeover, a death among them, keeps it.
LEMMA TakeoverStep ==
    ASSUME MaxDeaths \in Nat, TInv, [T!Next]_T!vars
    PROVE  TInv'
<1> USE DEF TInv, T!TypeOK, T!Partitions, T!Exporter, T!LockedCloneIsExporter
<1>1. CASE UNCHANGED T!vars
  BY <1>1 DEF T!vars
<1>2. CASE T!Begin
  BY <1>2 DEF T!Begin, T!Requested
<1>3. CASE T!RenameBroken
  BY <1>3 DEF T!RenameBroken
<1>4. CASE T!RenameWinner
  BY <1>4 DEF T!RenameWinner
<1>5. CASE T!LeaveLockFile
  BY <1>5 DEF T!LeaveLockFile
<1>6. CASE T!Die
  <2>1. deaths' \in 0..MaxDeaths
    BY <1>6, CountUp DEF T!Die
  <2> QED
    BY <1>6, <2>1 DEF T!Die
<1>7. CASE T!RequestExporter
  BY <1>7 DEF T!RequestExporter, T!Requested, T!CanRequest
<1> QED
  BY <1>1, <1>2, <1>3, <1>4, <1>5, <1>6, <1>7 DEF T!Next

\* It holds of the program from its first state on.
LEMMA TakeoverKept ==
    ASSUME MaxDeaths \in Nat
    PROVE  ProgramsSpec => [](program = "takeover" => TInv)
<1> DEFINE IInv == program = "takeover" => TInv
<1>1. ProgramsInit => IInv
  <2> SUFFICES ASSUME T!Init PROVE TInv
    BY ProgramsBegin
  <2>1. name \in [T!Partitions -> {"0", "1", "broken", "none"}]
    <3>1. \A c \in T!Partitions : (CASE c = "exporter" -> "0" [] c = "clone" -> "1" [] OTHER -> "none") \in {"0", "1", "broken", "none"}
       OBVIOUS
    <3> QED
       BY <3>1 DEF T!Init
  <2>2. at = "idle" /\ broken = "exporter" /\ locked = FALSE /\ frozen = {} /\ reopened = FALSE /\ deaths = 0
    BY DEF T!Init
  <2>3. deaths \in 0..MaxDeaths
    BY <2>2
  <2>4. T!TypeOK
    BY <2>1, <2>2, <2>3 DEF T!TypeOK, T!Partitions
  <2>5. T!LockedCloneIsExporter
    BY <2>2 DEF T!LockedCloneIsExporter
  <2> QED
    BY <2>2, <2>4, <2>5 DEF TInv
<1>2. IInv /\ [ProgramsNext]_all => IInv'
  BY ProgramsStep, TakeoverStep
<1> QED
  BY <1>1, <1>2, PTL DEF ProgramsSpec

\* The lock file that stops imports (addresiliency) is there only once the clone is the exporter
\* and nobody else is, whatever deaths and repeated takeovers came before; except where a
\* takeover was run again on the new exporter, and killed.
THEOREM OneExporterAfterTakeover ==
    ASSUME MaxDeaths \in Nat
    PROVE  ProgramsSpec => []LockedCloneIsExporter
<1> DEFINE IInv == program = "takeover" => TInv
<1>1. IInv => LockedCloneIsExporter
  BY DEF TInv, LockedCloneIsExporter
<1> QED
  BY <1>1, TakeoverKept, PTL

-----------------------------------------------------------------------------
(* NotebookKernel. *)

\* An answer came only once the magics were all entered.
NotebookInv ==
    /\ N!TypeOK
    /\ status_code # "none" => entered = N!Required
    /\ N!ResultIsOfTheCell

\* The answers, and the statuses, a cell may be left with.
NotebookResponse == [cell : 0..MaxCells, kind : {"content", "error code", "exception", "message"}]
NotebookStatus == {"200", "500", "401", "none"}

\* What a post leaves has the types of the status and of the response, and the response is of
\* the cell; what does not reach ERP5 ends in an exception.
LEMMA NotebookAnswer ==
    ASSUME NEW o \in N!Outcome, cell' \in 0..MaxCells, NEW code \in NotebookStatus
    PROVE  /\ N!StatusAfter(code, o) \in NotebookStatus
           /\ N!ResponseAfter(o) \in NotebookResponse
           /\ N!ResponseAfter(o).cell = cell'
           /\ N!Received(o) \in {0, 1}
           /\ N!Received(o) = 1 \/ N!ResponseAfter(o).kind = "exception"
<1>1. N!StatusAfter(code, o) \in NotebookStatus
  BY DEF N!StatusAfter, NotebookStatus
<1>2. N!ResponseAfter(o) \in NotebookResponse /\ N!ResponseAfter(o).cell = cell'
  <2> DEFINE what == IF o \in N!Allowed THEN "content"
                     ELSE IF o = "401" THEN "error code" ELSE "exception"
  <2>1. what \in {"content", "error code", "exception", "message"}
    OBVIOUS
  <2>2. N!ResponseAfter(o) = [cell |-> cell', kind |-> what]
    BY DEF N!ResponseAfter
  <2> HIDE DEF what
  <2>3. [cell |-> cell', kind |-> what] \in NotebookResponse
    BY <2>1 DEF NotebookResponse
  <2> QED
    BY <2>2, <2>3
<1>3. N!Received(o) \in {0, 1} /\ (N!Received(o) = 1 \/ o = "lost before")
  BY DEF N!Received
<1>4. o = "lost before" => N!ResponseAfter(o).kind = "exception"
  BY DEF N!ResponseAfter, N!Allowed
<1> QED
  BY <1>1, <1>2, <1>3, <1>4

\* What a cell that is a magic, or is refused, leaves.
LEMMA NotebookQuietCell ==
    ASSUME cell' \in 0..MaxCells, posted' = 0, shown' \in {"message", "unauthorized"},
           entered' \subseteq N!Required, status_code' \in NotebookStatus,
           response' \in NotebookResponse, status_code' # "none" => entered' = N!Required
    PROVE  NotebookInv'
<1>1. N!TypeOK'
  <2>1. posted' \in 0..2
    OBVIOUS
  <2> QED
    BY <2>1 DEF N!TypeOK, NotebookStatus, NotebookResponse
<1>2. N!ResultIsOfTheCell'
  BY DEF N!ResultIsOfTheCell
<1> QED
  BY <1>1, <1>2 DEF NotebookInv

\* Every cell keeps it.
LEMMA NotebookStep ==
    ASSUME MaxCells \in Nat, NotebookInv, [N!Next]_N!vars
    PROVE  NotebookInv'
<1>0. /\ entered \subseteq N!Required /\ status_code \in NotebookStatus
      /\ response \in NotebookResponse /\ cell \in 0..MaxCells
      /\ status_code # "none" => entered = N!Required
  BY DEF NotebookInv, N!TypeOK, NotebookStatus, NotebookResponse
<1>1. CASE UNCHANGED N!vars
  BY <1>1 DEF N!vars, N!TypeOK, NotebookInv, N!ResultIsOfTheCell
<1>2. ASSUME N!NextCell
      PROVE  /\ cell' \in 0..MaxCells
             /\ [cell |-> cell', kind |-> "message"] \in NotebookResponse
  <2>1. cell' \in 0..MaxCells
    BY <1>0, <1>2, CountUp DEF N!NextCell
  <2> QED
    BY <2>1 DEF NotebookResponse
<1>3. CASE N!Execute
  <2>1. cell' \in 0..MaxCells /\ UNCHANGED entered /\ entered = N!Required
    BY <1>0, <1>2, <1>3 DEF N!Execute, N!Allowed
  <2>2. PICK o \in N!Outcome :
          LET code == N!StatusAfter(status_code, o)
          IN  IF code = "200"
              THEN /\ posted' = N!Received(o) /\ shown' = "result"
                   /\ status_code' = code /\ response' = N!ResponseAfter(o)
              ELSE \E again \in N!Outcome :
                      /\ posted' = N!Received(o) + N!Received(again)
                      /\ shown' = "server error"
                      /\ status_code' = N!StatusAfter(code, again)
                      /\ response' = N!ResponseAfter(again)
    BY <1>3 DEF N!Execute
  <2>3. CASE N!StatusAfter(status_code, o) = "200"
    <3>1. /\ posted' \in {0, 1} /\ shown' = "result" /\ status_code' = "200"
          /\ response' \in NotebookResponse /\ response'.cell = cell'
          /\ posted' = 1 \/ response'.kind = "exception"
      BY <1>0, <2>1, <2>2, <2>3, NotebookAnswer
    <3>2. N!TypeOK'
      <4>1. posted' \in 0..2
        BY <3>1
      <4>2. entered' \subseteq N!Required
        BY <1>0, <2>1
      <4> QED
        BY <2>1, <3>1, <4>1, <4>2 DEF N!TypeOK, NotebookResponse
    <3>3. N!ResultIsOfTheCell'
      BY <2>1, <3>1 DEF N!ResultIsOfTheCell
    <3> QED
      BY <2>1, <3>2, <3>3 DEF NotebookInv
  <2>4. CASE N!StatusAfter(status_code, o) # "200"
    <3>1. PICK again \in N!Outcome :
                      /\ posted' = N!Received(o) + N!Received(again)
                      /\ shown' = "server error"
                      /\ status_code' = N!StatusAfter(N!StatusAfter(status_code, o), again)
                      /\ response' = N!ResponseAfter(again)
      BY <2>2, <2>4
    <3>2. N!StatusAfter(status_code, o) \in NotebookStatus /\ N!Received(o) \in {0, 1}
      BY <1>0, <2>1, NotebookAnswer
    <3>3. /\ status_code' \in NotebookStatus /\ N!Received(again) \in {0, 1}
          /\ response' \in NotebookResponse
      BY <2>1, <3>1, <3>2, NotebookAnswer
    <3>4. posted' \in 0..2
      <4>1. \A m, n \in {0, 1} : m + n \in 0..2
        OBVIOUS
      <4> QED
        BY <3>1, <3>2, <3>3, <4>1
    <3>5. N!TypeOK'
      <4>1. entered' \subseteq N!Required
        BY <1>0, <2>1
      <4> QED
        BY <2>1, <3>1, <3>3, <3>4, <4>1 DEF N!TypeOK, NotebookResponse, NotebookStatus
    <3>6. N!ResultIsOfTheCell'
      BY <2>1, <3>1 DEF N!ResultIsOfTheCell
    <3> QED
      BY <2>1, <3>5, <3>6 DEF NotebookInv
  <2> QED
    BY <2>3, <2>4
<1>4. CASE N!Unauthorized
  <2>1. cell' \in 0..MaxCells /\ posted' = 0 /\ shown' = "unauthorized"
        /\ UNCHANGED <<entered, status_code, response>>
    BY <1>2, <1>4 DEF N!Unauthorized
  <2> QED
    BY <1>0, <2>1, NotebookQuietCell
<1>5. ASSUME NEW magic \in N!Required, NEW given \in BOOLEAN, N!Magic(magic, given)
      PROVE  NotebookInv'
  <2>1. cell' \in 0..MaxCells /\ posted' = 0 /\ shown' = "message"
        /\ [cell |-> cell', kind |-> "message"] \in NotebookResponse
    BY <1>2, <1>5 DEF N!Magic
  <2>2. entered' \subseteq N!Required /\ (entered = N!Required => entered' = N!Required)
    BY <1>0, <1>5 DEF N!Magic, N!SetBy
  <2>3. CASE entered' = N!Required
    <3>1. PICK o \in N!Outcome :
               /\ status_code' = N!StatusAfter(status_code, o)
               /\ response' = IF o \in N!Allowed THEN [cell |-> cell', kind |-> "message"]
                              ELSE N!ResponseAfter(o)
      BY <1>5, <2>3 DEF N!Magic
    <3>2. status_code' \in NotebookStatus /\ response' \in NotebookResponse
      BY <1>0, <2>1, <3>1, NotebookAnswer
    <3> QED
      BY <2>1, <2>3, <3>2, NotebookQuietCell
  <2>4. CASE entered' # N!Required
    <3>1. UNCHANGED status_code /\ response' = [cell |-> cell', kind |-> "message"]
      BY <1>5, <2>4 DEF N!Magic
    <3> QED
      BY <1>0, <2>1, <2>2, <2>4, <3>1, NotebookQuietCell
  <2> QED
    BY <2>3, <2>4
<1>6. CASE N!MyNotebooks
  <2>1. cell' \in 0..MaxCells /\ posted' = 0 /\ shown' = "message" /\ UNCHANGED entered
        /\ [cell |-> cell', kind |-> "message"] \in NotebookResponse
    BY <1>2, <1>6 DEF N!MyNotebooks
  <2>2. CASE entered = N!Required
    <3>1. PICK o \in N!Outcome : status_code' = N!StatusAfter(status_code, o)
                                 /\ response' = N!ResponseAfter(o)
      BY <1>6, <2>2 DEF N!MyNotebooks
    <3>2. status_code' \in NotebookStatus /\ response' \in NotebookResponse
      BY <1>0, <2>1, <3>1, NotebookAnswer
    <3> QED
      BY <2>1, <2>2, <3>2, NotebookQuietCell
  <2>3. CASE entered # N!Required
    <3>1. UNCHANGED status_code /\ response' = [cell |-> cell', kind |-> "message"]
      BY <1>6, <2>3 DEF N!MyNotebooks
    <3> QED
      BY <1>0, <2>1, <2>3, <3>1, NotebookQuietCell
  <2> QED
    BY <2>2, <2>3
<1>7. CASE N!OtherMagic
  <2>1. cell' \in 0..MaxCells /\ posted' = 0 /\ shown' = "message"
        /\ UNCHANGED <<entered, status_code>> /\ response' \in NotebookResponse
    BY <1>2, <1>7 DEF N!OtherMagic
  <2> QED
    BY <1>0, <2>1, NotebookQuietCell
<1> QED
  BY <1>1, <1>3, <1>4, <1>5, <1>6, <1>7 DEF N!Next

\* It holds of the program from its first state on.
LEMMA NotebookKept ==
    ASSUME MaxCells \in Nat
    PROVE  ProgramsSpec => [](program = "notebook" => NotebookInv)
<1> DEFINE IInv == program = "notebook" => NotebookInv
<1>1. ProgramsInit => IInv
  <2> SUFFICES ASSUME N!Init PROVE NotebookInv
    BY ProgramsBegin
  <2>1. N!TypeOK
    BY DEF N!Init, N!TypeOK, N!Required
  <2> QED
    BY <2>1 DEF N!Init, NotebookInv, N!ResultIsOfTheCell
<1>2. IInv /\ [ProgramsNext]_all => IInv'
  BY ProgramsStep, NotebookStep
<1> QED
  BY <1>1, <1>2, PTL DEF ProgramsSpec

\* The result a cell of the notebook shows is what became of its own post, and no code was
\* posted before all the magics were entered, for any number of cells (ERP5kernel.py).
THEOREM CellShowsItsResult ==
    ASSUME MaxCells \in Nat
    PROVE  ProgramsSpec => []ResultIsOfTheCell
<1> DEFINE IInv == program = "notebook" => NotebookInv
<1>1. IInv => ResultIsOfTheCell
  BY DEF NotebookInv, ResultIsOfTheCell
<1> QED
  BY <1>1, NotebookKept, PTL

-----------------------------------------------------------------------------
(* GenericExec. *)

\* A generation is more than that of no file.
LEMMA ExecGeneration ==
    ASSUME NEW max \in Nat, NEW n \in 0..max
    PROVE  n \in -1..max
OBVIOUS

\* A line goes from the pipe to the log, or from the program to the pipe.
LEMMA ExecCount ==
    ASSUME NEW max \in Nat, NEW log \in 0..max, NEW pipe \in 0..max, NEW made \in 0..max,
           log + pipe = made
    PROVE  /\ \A n \in 1..pipe : pipe - n \in 0..max /\ log + n \in 0..max
           /\ made < max => made + 1 \in 0..max /\ pipe + 1 \in 0..max
OBVIOUS

\* The signal is at its default only before logrotate can know the pid, and so it is for the
\* program; a stream is closed when the program has ended and its pipe is empty.
ExecSignals ==
    /\ on_signal = "default" => pc = "start"
    /\ pc = "start" => pidfile # "wrapper" /\ ~signalled
    /\ pc \in {"start", "check", "write pid", "popen"} => child = "none"
    /\ child # "none" => on_child_signal = "ignore"
    /\ pc # "killed" /\ child # "killed"

\* Every line that was written is in the pipe or in a log; the wrapper ends with no pipe open.
ExecLines ==
    /\ \A s \in Stream \ DOMAIN logs : pipes[s] = 0 /\ child = "ended"
    /\ \A s \in DOMAIN logs : logs[s] + pipes[s] = written[s]
    /\ pc \in {"wait", "ended"} => DOMAIN logs = {}

\* The files of the logs, one type for any set of open ones.
LEMMA ExecLogsType ==
    ASSUME NEW f
    PROVE  f \in UNION {[open -> 0..MaxLines] : open \in SUBSET Stream}
             <=> DOMAIN f \subseteq Stream /\ f \in [DOMAIN f -> 0..MaxLines]
OBVIOUS

\* The types, with those of the logs in one piece each.
ExecTypes ==
    /\ pc \in {"start", "check", "write pid", "popen", "handle", "reopen", "select", "wait",
               "ended", "refused", "killed"}
    /\ on_signal \in {"default", "ignore", "handler"}
    /\ pidfile \in {"none", "other", "wrapper"}
    /\ trigger \in BOOLEAN /\ postrotate \in BOOLEAN /\ signalled \in BOOLEAN
    /\ rotated \in 0..MaxRotations /\ opened \in [Stream -> -1..MaxRotations]
    /\ left \subseteq Stream
    /\ child \in {"none", "starting", "ready", "ended", "killed"}
    /\ on_child_signal \in {"default", "ignore"}
    /\ pipes \in [Stream -> 0..MaxLines] /\ written \in [Stream -> 0..MaxLines]
    /\ DOMAIN logs \subseteq Stream /\ logs \in [DOMAIN logs -> 0..MaxLines]

\* They are the types of the module.
LEMMA ExecTypesMean == X!TypeOK <=> ExecTypes
BY ExecLogsType DEF ExecTypes, X!TypeOK

\* Every step keeps the types.
LEMMA ExecTypeStep ==
    ASSUME MaxLines \in Nat, MaxRotations \in Nat, ExecTypes, ExecSignals, ExecLines,
           [X!Next]_X!vars
    PROVE  ExecTypes'
<1> USE DEF ExecTypes, X!wrapper, X!program, X!rotation, X!lines
<1>1. CASE UNCHANGED X!vars
  <2>1. UNCHANGED <<pc, on_signal, pidfile, trigger, rotated, opened, left, postrotate, signalled, child,
                    on_child_signal, pipes, written, logs>>
    BY <1>1 DEF X!vars
  <2> QED
    BY <2>1, ZenonT(60)
<1>2. CASE X!IgnoreSignal \/ X!CheckPid \/ X!WritePid \/ X!InstallHandler \/ X!Exit
  BY <1>2 DEF X!IgnoreSignal, X!CheckPid, X!WritePid, X!InstallHandler, X!Exit
<1>3. CASE X!Popen
  BY <1>3 DEF X!Popen, X!ChildDisposition
<1>4. CASE X!ReadTrigger
  BY <1>4 DEF X!ReadTrigger
<1>5. ASSUME NEW s \in Stream, X!Reopen(s) PROVE ExecTypes'
  <2>1. rotated \in -1..MaxRotations
    BY ExecGeneration
  <2>2. opened' \in [Stream -> -1..MaxRotations]
    BY <1>5, <2>1 DEF X!Reopen
  <2> QED
    BY <1>5, <2>2 DEF X!Reopen, X!TriggerAfterOpening
<1>6. ASSUME NEW s \in Stream, X!Copy(s) PROVE ExecTypes'
  <2>1. PICK n \in 1..pipes[s] : /\ pipes' = [pipes EXCEPT ![s] = @ - n]
                                 /\ logs' = [logs EXCEPT ![s] = @ + n]
    BY <1>6 DEF X!Copy
  <2>2. s \in DOMAIN logs /\ pipes[s] \in 0..MaxLines /\ logs[s] \in 0..MaxLines
        /\ written[s] \in 0..MaxLines /\ logs[s] + pipes[s] = written[s]
    BY <1>6 DEF X!Copy, ExecLines
  <2>3. pipes[s] - n \in 0..MaxLines /\ logs[s] + n \in 0..MaxLines
    BY <2>1, <2>2, ExecCount
  <2>4. pipes' \in [Stream -> 0..MaxLines]
    BY <2>1, <2>3
  <2>5. DOMAIN logs' = DOMAIN logs /\ logs' \in [DOMAIN logs -> 0..MaxLines]
    BY <2>1, <2>3
  <2> QED
    BY <1>6, <2>4, <2>5 DEF X!Copy
<1>7. ASSUME NEW s \in Stream, X!EndOfStream(s) PROVE ExecTypes'
  <2>1. logs' = [t \in DOMAIN logs \ {s} |-> logs[t]]
    BY <1>7 DEF X!EndOfStream
  <2>2. DOMAIN logs' \subseteq Stream /\ logs' \in [DOMAIN logs' -> 0..MaxLines]
    BY <2>1
  <2> QED
    BY <1>7, <2>2 DEF X!EndOfStream
<1>8. CASE X!Deliver
  BY <1>8 DEF X!Deliver
<1>9. CASE X!ChildReady \/ X!ChildEnds
  BY <1>9 DEF X!ChildReady, X!ChildEnds
<1>10. ASSUME NEW s \in Stream, X!Write(s) PROVE ExecTypes'
  <2>1. written[s] \in 0..MaxLines /\ pipes[s] \in 0..MaxLines /\ written[s] < MaxLines
    BY <1>10 DEF X!Write
  <2>2. s \in DOMAIN logs
    BY <1>10 DEF X!Write, ExecLines
  <2>3. logs[s] + pipes[s] = written[s] /\ logs[s] \in 0..MaxLines
    BY <2>2 DEF ExecLines
  <2>4. written[s] + 1 \in 0..MaxLines /\ pipes[s] + 1 \in 0..MaxLines
    BY <2>1, <2>3, ExecCount
  <2> QED
    BY <1>10, <2>4 DEF X!Write
<1>11. CASE X!Rotate
  <2>1. rotated' \in 0..MaxRotations
    BY <1>11, CountUp DEF X!Rotate
  <2> QED
    BY <1>11, <2>1 DEF X!Rotate
<1>12. CASE X!SendSignal
  BY <1>12 DEF X!SendSignal
<1> QED
  BY <1>1, <1>2, <1>3, <1>4, <1>5, <1>6, <1>7, <1>8, <1>9, <1>10, <1>11, <1>12
  DEF X!Next, X!Wrapper

\* No step leaves a pid to logrotate before the signal is handled.
LEMMA ExecSignalStep ==
    ASSUME ExecTypes, ExecSignals, [X!Next]_X!vars
    PROVE  ExecSignals'
<1> USE DEF ExecSignals, ExecTypes, X!wrapper, X!program, X!rotation, X!lines
<1>1. CASE UNCHANGED X!vars
  BY <1>1 DEF X!vars
<1>2. CASE X!IgnoreSignal \/ X!CheckPid \/ X!WritePid \/ X!InstallHandler \/ X!Exit
  BY <1>2 DEF X!IgnoreSignal, X!CheckPid, X!WritePid, X!InstallHandler, X!Exit
<1>3. CASE X!Popen
  BY <1>3 DEF X!Popen, X!ChildDisposition
<1>4. CASE X!ReadTrigger
  BY <1>4 DEF X!ReadTrigger
<1>5. ASSUME NEW s \in Stream, X!Reopen(s) PROVE ExecSignals'
  BY <1>5 DEF X!Reopen
<1>6. ASSUME NEW s \in Stream, X!Copy(s) PROVE ExecSignals'
  BY <1>6 DEF X!Copy
<1>7. ASSUME NEW s \in Stream, X!EndOfStream(s) PROVE ExecSignals'
  BY <1>7 DEF X!EndOfStream
<1>8. CASE X!Deliver
  BY <1>8 DEF X!Deliver
<1>9. CASE X!ChildReady \/ X!ChildEnds
  BY <1>9 DEF X!ChildReady, X!ChildEnds
<1>10. ASSUME NEW s \in Stream, X!Write(s) PROVE ExecSignals'
  BY <1>10 DEF X!Write
<1>11. CASE X!Rotate
  BY <1>11 DEF X!Rotate
<1>12. CASE X!SendSignal
  BY <1>12 DEF X!SendSignal
<1> QED
  BY <1>1, <1>2, <1>3, <1>4, <1>5, <1>6, <1>7, <1>8, <1>9, <1>10, <1>11, <1>12
  DEF X!Next, X!Wrapper

\* No step loses a line.
LEMMA ExecLineStep ==
    ASSUME ExecTypes, ExecSignals, ExecLines, [X!Next]_X!vars
    PROVE  ExecLines'
<1> USE DEF ExecLines, X!wrapper, X!program, X!rotation, X!lines
<1>1. CASE UNCHANGED X!vars
  BY <1>1 DEF X!vars
<1>2. CASE X!IgnoreSignal \/ X!CheckPid \/ X!WritePid \/ X!InstallHandler \/ X!Exit
  BY <1>2 DEF X!IgnoreSignal, X!CheckPid, X!WritePid, X!InstallHandler, X!Exit
<1>3. CASE X!Popen
  BY <1>3 DEF X!Popen, ExecSignals
<1>4. CASE X!ReadTrigger
  BY <1>4 DEF X!ReadTrigger
<1>5. ASSUME NEW s \in Stream, X!Reopen(s) PROVE ExecLines'
  BY <1>5 DEF X!Reopen
<1>6. ASSUME NEW s \in Stream, X!Copy(s) PROVE ExecLines'
  <2>1. PICK n \in 1..pipes[s] : /\ pipes' = [pipes EXCEPT ![s] = @ - n]
                                 /\ logs' = [logs EXCEPT ![s] = @ + n]
    BY <1>6 DEF X!Copy
  <2>2. s \in DOMAIN logs /\ pipes[s] \in 0..MaxLines /\ logs[s] \in 0..MaxLines
    BY <1>6 DEF X!Copy, ExecTypes
  <2>3. DOMAIN logs' = DOMAIN logs /\ UNCHANGED <<written, child, pc>>
    BY <1>6, <2>1 DEF X!Copy
  <2>4. (logs[s] + n) + (pipes[s] - n) = logs[s] + pipes[s]
    BY <2>1, <2>2
  <2>5. \A t \in DOMAIN logs' : logs'[t] + pipes'[t] = written'[t]
    BY <2>1, <2>2, <2>3, <2>4 DEF ExecTypes
  <2>6. \A t \in Stream \ DOMAIN logs' : pipes'[t] = 0 /\ child' = "ended"
    BY <2>1, <2>2, <2>3 DEF ExecTypes
  <2> QED
    BY <2>3, <2>5, <2>6
<1>7. ASSUME NEW s \in Stream, X!EndOfStream(s) PROVE ExecLines'
  <2>1. /\ logs' = [t \in DOMAIN logs \ {s} |-> logs[t]]
        /\ UNCHANGED <<pipes, written, child>> /\ pipes[s] = 0 /\ child = "ended"
    BY <1>7 DEF X!EndOfStream, ExecSignals
  <2>2. pc' \in {"wait", "ended"} => DOMAIN logs' = {}
    BY <1>7 DEF X!EndOfStream, X!Waits
  <2> QED
    BY <2>1, <2>2 DEF ExecTypes
<1>8. CASE X!Deliver
  BY <1>8 DEF X!Deliver, ExecSignals
<1>9. CASE X!ChildReady \/ X!ChildEnds
  BY <1>9 DEF X!ChildReady, X!ChildEnds
<1>10. ASSUME NEW s \in Stream, X!Write(s) PROVE ExecLines'
  <2>1. /\ written' = [written EXCEPT ![s] = @ + 1] /\ pipes' = [pipes EXCEPT ![s] = @ + 1]
        /\ UNCHANGED <<logs, child, pc>> /\ child # "ended"
    BY <1>10 DEF X!Write
  <2>2. s \in DOMAIN logs
    BY <2>1
  <2>3. written[s] + 1 = logs[s] + (pipes[s] + 1)
    <3>1. written[s] = logs[s] + pipes[s] /\ logs[s] \in 0..MaxLines /\ pipes[s] \in 0..MaxLines
      BY <2>2 DEF ExecTypes
    <3> QED
      BY <3>1
  <2>4. \A t \in DOMAIN logs' : logs'[t] + pipes'[t] = written'[t]
    BY <2>1, <2>2, <2>3 DEF ExecTypes
  <2>5. \A t \in Stream \ DOMAIN logs' : pipes'[t] = 0 /\ child' = "ended"
    BY <2>1, <2>2 DEF ExecTypes
  <2> QED
    BY <2>1, <2>4, <2>5
<1>11. CASE X!Rotate
  BY <1>11 DEF X!Rotate
<1>12. CASE X!SendSignal
  BY <1>12 DEF X!SendSignal
<1> QED
  BY <1>1, <1>2, <1>3, <1>4, <1>5, <1>6, <1>7, <1>8, <1>9, <1>10, <1>11, <1>12
  DEF X!Next, X!Wrapper

\* It holds of the program from its first state on.
LEMMA ExecKept ==
    ASSUME MaxLines \in Nat, MaxRotations \in Nat
    PROVE  ProgramsSpec => [](program = "exec" => ExecTypes /\ ExecSignals /\ ExecLines)
<1> DEFINE IInv == program = "exec" => ExecTypes /\ ExecSignals /\ ExecLines
<1>1. ProgramsInit => IInv
  <2> SUFFICES ASSUME X!Init PROVE ExecTypes /\ ExecSignals /\ ExecLines
    BY ProgramsBegin
  <2>1. rotated \in 0..MaxRotations /\ -1 \in -1..MaxRotations /\ 0 \in 0..MaxLines
    BY DEF X!Init
  <2>2. ExecTypes
    BY <2>1 DEF X!Init, ExecTypes
  <2>3. ExecSignals
    BY DEF X!Init, ExecSignals
  <2>4. ExecLines
    BY DEF X!Init, ExecLines
  <2> QED
    BY <2>2, <2>3, <2>4
<1>2. IInv /\ [ProgramsNext]_all => IInv'
  BY ProgramsStep, ExecTypeStep, ExecSignalStep, ExecLineStep
<1> QED
  BY <1>1, <1>2, PTL DEF ProgramsSpec

\* The signal of logrotate kills neither the wrapper nor its program, and no line the program
\* wrote is lost at its end: for any streams, lines and rotations (execute.py, wrapper.py).
THEOREM SignalsKillNothing ==
    ASSUME MaxLines \in Nat, MaxRotations \in Nat
    PROVE  ProgramsSpec => []NothingIsKilledOrLost
<1> DEFINE IInv == program = "exec" => ExecTypes /\ ExecSignals /\ ExecLines
<1>1. IInv => NothingIsKilledOrLost
  BY ExecTypesMean DEF ExecTypes, ExecSignals, ExecLines, X!NothingIsKilledOrLost,
     NothingIsKilledOrLost
<1> QED
  BY <1>1, ExecKept, PTL

-----------------------------------------------------------------------------
(* FileWait. *)

\* What the directory tells of a file.
Event == [file : Awaited, created : BOOLEAN]


\* Following an event more: it decides for its file, and for no other.
LEMMA FollowedOne ==
    ASSUME NEW queue \in Seq(Event), NEW e \in Event, NEW seen, NEW f \in Awaited
    PROVE  f \in W!Followed(seen, Append(queue, e)) <=>
              IF e.file = f THEN e.created ELSE f \in W!Followed(seen, queue)
<1> DEFINE longer == Append(queue, e)
           last == Len(queue) + 1
<1>1. /\ Len(queue) \in Nat /\ DOMAIN queue = 1..Len(queue) /\ DOMAIN longer = 1..last
      /\ longer[last] = e /\ \A n \in DOMAIN queue : longer[n] = queue[n]
  OBVIOUS
<1>2. DOMAIN longer = DOMAIN queue \cup {last} /\ last \notin DOMAIN queue
      /\ \A n \in DOMAIN longer : n <= last /\ n \in Nat
  BY <1>1
<1>3. CASE e.file = f
  <2>1. last \in W!EventsOf(f, longer)
    BY <1>1, <1>2, <1>3 DEF W!EventsOf
  <2>2. \A n \in W!EventsOf(f, longer) : n \in DOMAIN longer
    BY DEF W!EventsOf
  <2>3. \A n \in W!EventsOf(f, longer) : last <= n => n = last
    BY <1>1, <1>2, <2>2
  <2>4. f \in W!Followed(seen, longer) <=> longer[last].created
    BY <1>2, <2>1, <2>2, <2>3 DEF W!Followed
  <2> QED
    BY <1>1, <1>3, <2>4
<1>4. CASE e.file # f
  <2>1. W!EventsOf(f, longer) = W!EventsOf(f, queue)
    BY <1>1, <1>2, <1>4 DEF W!EventsOf
  <2>2. \A n \in W!EventsOf(f, queue) : longer[n] = queue[n]
    BY <1>1 DEF W!EventsOf
  <2>3. f \in W!Followed(seen, longer) <=> f \in W!Followed(seen, queue)
    BY <2>1, <2>2 DEF W!Followed
  <2> QED
    BY <1>4, <2>3
<1> QED
  BY <1>3, <1>4

\* Without events, what was seen stays.
LEMMA FollowedNone ==
    ASSUME NEW queue, NEW seen, NEW f \in Awaited, \A n \in DOMAIN queue : queue[n].file # f
    PROVE  f \in W!Followed(seen, queue) <=> f \in seen
BY DEF W!Followed, W!EventsOf

\* What the wait knows of the files it has looked at, as long as it follows events.
WaitKnows ==
    at \in {"check", "watch", "read"} =>
        /\ \A f \in checked \ missed : f \in W!Followed(found, events) <=> f \in present
        /\ \A n \in DOMAIN events : events[n].file \in watched
        /\ watched \subseteq checked
        /\ at # "check" => checked = Awaited

\* The inductive invariant.
WaitInv == W!TypeOK /\ WaitKnows

\* Every step keeps the types ...
LEMMA WaitTypeStep ==
    ASSUME MaxChanges \in Nat, W!TypeOK, [W!Next]_W!vars
    PROVE  W!TypeOK'
<1> USE DEF W!TypeOK
<1>1. CASE UNCHANGED W!vars
  BY <1>1 DEF W!vars
<1>2. ASSUME NEW f \in Awaited, W!Check(f) PROVE W!TypeOK'
  BY <1>2 DEF W!Check
<1>3. ASSUME NEW f \in Awaited, W!Watch(f) PROVE W!TypeOK'
  BY <1>3 DEF W!Watch
<1>4. CASE W!CannotWatch
  BY <1>4 DEF W!CannotWatch
<1>5. CASE W!Read
  BY <1>5 DEF W!Read, W!Followed
<1>6. CASE W!Poll
  BY <1>6 DEF W!Poll
<1>7. ASSUME NEW f \in Awaited, W!Change(f) PROVE W!TypeOK'
  <2>1. changes' \in 0..MaxChanges
    BY <1>7, CountUp DEF W!Change
  <2> DEFINE e == [file |-> f, created |-> f \notin present]
  <2>2. e \in Event /\ events \in Seq(Event)
    BY DEF Event
  <2>3. events' = IF W!Noticed(f, f \notin present) THEN Append(events, e) ELSE events
    BY <1>7 DEF W!Change
  <2> HIDE DEF e
  <2>4. events' \in Seq(Event)
    <3>1. Append(events, e) \in Seq(Event)
      BY <2>2
    <3> QED
      BY <2>2, <2>3, <3>1
  <2> QED
    BY <1>7, <2>1, <2>4 DEF W!Change, Event
<1> QED
  BY <1>1, <1>2, <1>3, <1>4, <1>5, <1>6, <1>7 DEF W!Next, W!Wait

\* ... and what is known.
LEMMA WaitStep ==
    ASSUME W!TypeOK, WaitKnows, [W!Next]_W!vars
    PROVE  WaitKnows'
<1> USE DEF WaitKnows
<1>1. CASE UNCHANGED W!vars
  BY <1>1 DEF W!vars, W!Followed, W!EventsOf
<1>2. ASSUME NEW f \in Awaited, W!Check(f) PROVE WaitKnows'
  <2>1. /\ at = "check" /\ checked' = checked \cup {f} /\ f \notin checked
        /\ UNCHANGED <<present, watched, events, missed>>
        /\ at' # "check" => checked' = Awaited
        /\ found' = IF f \in present THEN found \cup {f} ELSE found \ {f}
    BY <1>2 DEF W!Check
  <2>2. \A n \in DOMAIN events : events[n].file # f
    BY <2>1
  <2>3. f \in W!Followed(found', events) <=> f \in present
    BY <2>1, <2>2, FollowedNone
  <2>4. \A g \in Awaited \ {f} : g \in found' <=> g \in found
    BY <2>1
  <2>5. \A g \in Awaited \ {f} : g \in W!Followed(found', events) <=> g \in W!Followed(found, events)
    BY <2>4 DEF W!Followed
  <2>6. W!Followed(found, events)' = W!Followed(found', events)
    BY <2>1 DEF W!Followed, W!EventsOf
  <2> QED
    BY <2>1, <2>3, <2>5, <2>6 DEF W!TypeOK
<1>3. ASSUME NEW f \in Awaited, W!Watch(f) PROVE WaitKnows'
  <2>1. /\ at = "watch" /\ watched' = watched \cup {f}
        /\ UNCHANGED <<present, found, checked, events, missed>>
        /\ W!Followed(found, events)' = W!Followed(found, events)
    BY <1>3 DEF W!Watch, W!Followed, W!EventsOf
  <2> QED
    BY <2>1
<1>4. CASE W!CannotWatch
  BY <1>4 DEF W!CannotWatch
<1>5. CASE W!Read
  <2>1. /\ at = "read" /\ found' = W!Followed(found, events) /\ events' = <<>>
        /\ UNCHANGED <<present, checked, watched, missed>>
    BY <1>5 DEF W!Read
  <2>2. \A f \in Awaited : f \in W!Followed(found', events') <=> f \in found'
    BY <2>1, FollowedNone
  <2>3. W!Followed(found, events)' = W!Followed(found', events')
    BY DEF W!Followed, W!EventsOf
  <2> QED
    BY <2>1, <2>2, <2>3 DEF W!TypeOK
<1>6. CASE W!Poll
  BY <1>6 DEF W!Poll
<1>7. ASSUME NEW f \in Awaited, W!Change(f) PROVE WaitKnows'
  <2> DEFINE e == [file |-> f, created |-> f \notin present]
  <2>1. /\ events' = IF f \in watched THEN Append(events, e) ELSE events
        /\ UNCHANGED <<at, found, checked, watched>>
        /\ missed' = IF f \in checked \ watched THEN missed \cup {f} ELSE missed
    BY <1>7 DEF W!Change, W!Noticed
  <2>2. f \in present' <=> f \notin present
    BY <1>7 DEF W!Change
  <2>3. \A g \in Awaited \ {f} : g \in present' <=> g \in present
    BY <1>7 DEF W!Change
  <2>4. e \in Event /\ events \in Seq(Event)
    BY DEF Event, W!TypeOK
  <2>5. W!Followed(found, events)' = W!Followed(found, events')
    BY <2>1 DEF W!Followed, W!EventsOf
  <2>6. CASE at \in {"check", "watch", "read"}
    <3>1. \A n \in DOMAIN events' : events'[n].file \in watched
      BY <2>1, <2>4, <2>6
    <3>2. ASSUME NEW g \in checked' \ missed'
          PROVE  g \in W!Followed(found, events') <=> g \in present'
      <4>1. g \in Awaited /\ g \in checked \ missed
        BY <2>1, <3>2 DEF W!TypeOK
      <4>2. CASE g = f
        <5>1. f \in watched
          BY <2>1, <3>2, <4>1, <4>2
        <5> QED
          BY <2>1, <2>2, <2>4, <4>2, <5>1, FollowedOne
      <4>3. CASE g # f
        <5>1. g \in W!Followed(found, events') <=> g \in W!Followed(found, events)
          BY <2>1, <2>4, <4>1, <4>3, FollowedOne
        <5> QED
          BY <2>3, <2>6, <4>1, <4>3, <5>1
      <4> QED
        BY <4>2, <4>3
    <3> QED
      BY <2>1, <2>5, <2>6, <3>1, <3>2
  <2>7. CASE at \notin {"check", "watch", "read"}
    BY <2>1, <2>7
  <2> QED
    BY <2>6, <2>7
<1> QED
  BY <1>1, <1>2, <1>3, <1>4, <1>5, <1>6, <1>7 DEF W!Next, W!Wait

\* It holds of the program from its first state on.
LEMMA WaitKept ==
    ASSUME MaxChanges \in Nat
    PROVE  ProgramsSpec => [](program = "wait" => WaitInv)
<1> DEFINE IInv == program = "wait" => WaitInv
<1>1. ProgramsInit => IInv
  <2> SUFFICES ASSUME W!Init PROVE WaitInv
    BY ProgramsBegin
  <2>1. W!TypeOK
    BY DEF W!Init, W!TypeOK
  <2>2. WaitKnows
    BY DEF W!Init, WaitKnows
  <2> QED
    BY <2>1, <2>2 DEF WaitInv
<1>2. IInv /\ [ProgramsNext]_all => IInv'
  BY ProgramsStep, WaitTypeStep, WaitStep DEF WaitInv
<1> QED
  BY <1>1, <1>2, PTL DEF ProgramsSpec

\* Once the wait has read its events it knows which files are there, but for those that changed
\* between the test of their existence and the watch of their directory: for any set of files
\* and any changes (_wait_files_creation in execute.py).
THEOREM WaitKnowsItsFiles ==
    ASSUME MaxChanges \in Nat
    PROVE  ProgramsSpec => []NothingIsMissed
<1> DEFINE IInv == program = "wait" => WaitInv
<1>1. IInv => NothingIsMissed
  BY DEF WaitInv, WaitKnows, W!NothingIsMissed, W!TypeOK, NothingIsMissed
<1> QED
  BY <1>1, WaitKept, PTL

-----------------------------------------------------------------------------
(* KeyAuthorities. *)

\* While a pair is made that no provided one crosses, its key is that of the signing request
\* and its certificate is not there, or is created without content; then they match.
KeysInv ==
    \A r \in Request \ crossed :
       /\ at[r] = "make key" => certificate[r] = None
       /\ at[r] = "sign" => key[r] = csr[r] /\ certificate[r] = None
       /\ at[r] = "write" => key[r] = csr[r] /\ certificate[r] = K!Blank
       /\ at[r] = "idle" /\ writing[r] = None /\ key[r] # None /\ certificate[r] # None =>
             certificate[r] = key[r] \/ (r \in emptied /\ certificate[r] = K!Blank)

\* Every step keeps the types ...
LEMMA KeysTypeStep ==
    ASSUME MaxKeys \in Nat, MaxDeaths \in Nat, K!TypeOK, [K!Next]_K!vars
    PROVE  K!TypeOK'
<1> USE DEF K!TypeOK
<1>0. K!Blank \in K!File /\ None \in K!File /\ \A k \in 0..MaxKeys : k \in K!File
  BY DEF K!Blank, K!File
<1>a. \A e \in {"idle", "make key", "sign", "write"} : e \in K!Step
  BY DEF K!Step
<1>1. CASE UNCHANGED K!vars
  BY <1>1 DEF K!vars
<1>2. ASSUME NEW r \in Request, K!TakeUp(r) PROVE K!TypeOK'
  BY <1>0, <1>a, <1>2 DEF K!TakeUp, K!Left
<1>3. ASSUME keys < MaxKeys, keys' = keys + 1 PROVE keys' \in 0..MaxKeys /\ keys' \in K!File
  BY <1>0, <1>3, CountUp
<1>4. ASSUME deaths < MaxDeaths, deaths' = deaths + 1 PROVE deaths' \in 0..MaxDeaths
  BY <1>4, CountUp
<1>5. ASSUME NEW r \in Request, K!MakeKey(r) PROVE K!TypeOK'
  <2>1. keys' \in 0..MaxKeys /\ keys' \in K!File
    BY <1>3, <1>5 DEF K!MakeKey
  <2> QED
    BY <1>a, <1>5, <2>1 DEF K!MakeKey
<1>6. ASSUME NEW r \in Request, K!CreateCertificate(r) PROVE K!TypeOK'
  BY <1>0, <1>a, <1>6 DEF K!CreateCertificate
<1>7. ASSUME NEW r \in Request, K!WriteCertificate(r) PROVE K!TypeOK'
  BY <1>a, <1>7 DEF K!WriteCertificate
<1>8. ASSUME NEW r \in Request, K!Fails(r) PROVE K!TypeOK'
  <2>1. deaths' \in 0..MaxDeaths
    BY <1>4, <1>8 DEF K!Fails
  <2> QED
    BY <1>0, <1>a, <1>8, <2>1 DEF K!Fails
<1>9. ASSUME NEW r \in Request, K!Dies(r) PROVE K!TypeOK'
  <2>1. deaths' \in 0..MaxDeaths
    BY <1>4, <1>9 DEF K!Dies
  <2> QED
    BY <1>a, <1>9, <2>1 DEF K!Dies
<1>10. ASSUME NEW r \in Request, K!Remove(r) PROVE K!TypeOK'
  <2>1. deaths' \in 0..MaxDeaths
    BY <1>4, <1>10 DEF K!Remove
  <2> QED
    BY <1>0, <1>10, <2>1 DEF K!Remove
<1>11. ASSUME NEW r \in Request, K!ProvideKey(r) PROVE K!TypeOK'
  <2>1. keys' \in 0..MaxKeys /\ keys' \in K!File
    BY <1>3, <1>11 DEF K!ProvideKey
  <2> QED
    BY <1>11, <2>1 DEF K!ProvideKey
<1>12. ASSUME NEW r \in Request, K!ProvideCertificate(r) PROVE K!TypeOK'
  BY <1>0, <1>12 DEF K!ProvideCertificate
<1>13. ASSUME NEW r \in Request, K!StartService(r) PROVE K!TypeOK'
  BY <1>13 DEF K!StartService
<1> QED
  BY <1>1, <1>2, <1>5, <1>6, <1>7, <1>8, <1>9, <1>10, <1>11, <1>12, <1>13
  DEF K!Next, K!Authority

\* ... and the pairs.
LEMMA KeysStep ==
    ASSUME K!TypeOK, KeysInv, [K!Next]_K!vars
    PROVE  KeysInv'
<1> USE DEF K!TypeOK, KeysInv
<1>1. CASE UNCHANGED K!vars
  BY <1>1 DEF K!vars
<1>2. ASSUME NEW r \in Request, K!TakeUp(r) PROVE KeysInv'
  BY <1>2 DEF K!TakeUp, K!Left
<1>3. ASSUME NEW r \in Request, K!MakeKey(r) PROVE KeysInv'
  BY <1>3 DEF K!MakeKey
<1>4. ASSUME NEW r \in Request, K!CreateCertificate(r) PROVE KeysInv'
  BY <1>4 DEF K!CreateCertificate
<1>5. ASSUME NEW r \in Request, K!WriteCertificate(r) PROVE KeysInv'
  BY <1>5 DEF K!WriteCertificate
<1>6. ASSUME NEW r \in Request, K!Fails(r) PROVE KeysInv'
  BY <1>6 DEF K!Fails
<1>7. ASSUME NEW r \in Request, K!Dies(r) PROVE KeysInv'
  BY <1>7 DEF K!Dies, K!Step
<1>8. ASSUME NEW r \in Request, K!Remove(r) PROVE KeysInv'
  BY <1>8 DEF K!Remove
<1>9. ASSUME NEW r \in Request, K!ProvideKey(r) PROVE KeysInv'
  BY <1>9 DEF K!ProvideKey
<1>10. ASSUME NEW r \in Request, K!ProvideCertificate(r) PROVE KeysInv'
  BY <1>10 DEF K!ProvideCertificate
<1>11. ASSUME NEW r \in Request, K!StartService(r) PROVE KeysInv'
  BY <1>11 DEF K!StartService
<1> QED
  BY <1>1, <1>2, <1>3, <1>4, <1>5, <1>6, <1>7, <1>8, <1>9, <1>10, <1>11 DEF K!Next, K!Authority

\* It holds of the program from its first state on.
LEMMA KeysKept ==
    ASSUME MaxKeys \in Nat, MaxDeaths \in Nat
    PROVE  ProgramsSpec => [](program = "keys" => K!TypeOK /\ KeysInv)
<1> DEFINE IInv == program = "keys" => K!TypeOK /\ KeysInv
<1>1. ProgramsInit => IInv
  <2> SUFFICES ASSUME K!Init PROVE K!TypeOK /\ KeysInv
    BY ProgramsBegin
  <2>1. K!TypeOK
    BY DEF K!Init, K!TypeOK, K!File, K!Step
  <2>2. KeysInv
    BY DEF K!Init, KeysInv
  <2> QED
    BY <2>1, <2>2
<1>2. IInv /\ [ProgramsNext]_all => IInv'
  BY ProgramsStep, KeysTypeStep, KeysStep
<1> QED
  BY <1>1, <1>2, PTL DEF ProgramsSpec

\* A key and a certificate that are both there belong together once their makers are done,
\* through deaths of the authorities and removals, for any requests; except where a provided
\* pair crossed one that was being made, or the certificate was left without content.
THEOREM PairsBelongTogether ==
    ASSUME MaxKeys \in Nat, MaxDeaths \in Nat
    PROVE  ProgramsSpec => []PairsMatch
<1> DEFINE IInv == program = "keys" => K!TypeOK /\ KeysInv
<1>1. IInv => PairsMatch
  BY DEF KeysInv, K!PairsMatch, PairsMatch
<1> QED
  BY <1>1, KeysKept, PTL

-----------------------------------------------------------------------------
(* VirtualMachine. *)

\* A disk is what was asked for; only the one that is being made, or whose making was cut, is
\* not whole; a disk is made on a path that no guest has used; the program that is about to
\* start a guest has its disk; and no disk of a guest goes away.
MachineInv ==
    /\ \A p \in Path : disk[p] # None =>
          /\ disk[p].of = disk[p].asked
          /\ disk[p].whole \/ p \in cut \/ (at \in {"copying", "creating"} /\ read.path = p)
    /\ at \in {"copying", "creating"} =>
                         /\ disk[read.path] # None /\ read.path \notin used
                         /\ guest # None => guest.path # read.path
    /\ at \in {"arguments", "ignoring"} => disk[read.path] # None
    /\ guest # None => disk[guest.path] # None
    /\ \A p \in used : disk[p] # None /\ disk[p].written

\* The types of the fields that the steps read.
LEMMA MachineFields ==
    ASSUME M!TypeOK
    PROVE  /\ read.path \in Path /\ read.image \in BOOLEAN
           /\ guest # None => guest.path \in Path /\ guest.answers \in BOOLEAN
           /\ \A p \in Path : disk[p] # None => disk[p] \in M!Content
BY DEF M!TypeOK, M!Parameters

\* What becomes of a disk: a copy begins, or an empty one; it is whole.
LEMMA MachineContents ==
    ASSUME None \notin Image, None \notin M!Content
    PROVE  /\ M!Empty \in M!Content
           /\ LET c == [M!Empty EXCEPT !.asked = None, !.whole = FALSE]
              IN  c \in M!Content /\ c # None /\ c.asked = None /\ c.of = None
           /\ \A i \in Image :
                 LET c == [of |-> i, asked |-> i, whole |-> FALSE, written |-> FALSE]
                 IN  c \in M!Content /\ c # None /\ c.asked = i /\ c.of = i
           /\ \A d \in M!Content :
                 LET c == [d EXCEPT !.whole = TRUE]
                 IN  /\ c \in M!Content /\ c # None /\ c.whole
                     /\ c.asked = d.asked /\ c.of = d.of /\ c.written = d.written
<1>1. M!Empty \in M!Content
  BY DEF M!Content, M!Empty
<1>2. LET c == [M!Empty EXCEPT !.asked = None, !.whole = FALSE]
      IN  c \in M!Content /\ c # None /\ c.asked = None /\ c.of = None
  BY DEF M!Content, M!Empty
<1>3. ASSUME NEW i \in Image
      PROVE  LET c == [of |-> i, asked |-> i, whole |-> FALSE, written |-> FALSE]
             IN  c \in M!Content /\ c # None /\ c.asked = i /\ c.of = i
  <2> DEFINE c == [of |-> i, asked |-> i, whole |-> FALSE, written |-> FALSE]
  <2>1. c \in M!Content
    BY DEF M!Content
  <2>2. c.asked = i /\ c.of = i
    OBVIOUS
  <2> QED
    BY <2>1, <2>2
<1>4. ASSUME NEW d \in M!Content
      PROVE  LET c == [d EXCEPT !.whole = TRUE]
             IN  /\ c \in M!Content /\ c # None /\ c.whole
                 /\ c.asked = d.asked /\ c.of = d.of /\ c.written = d.written
  BY DEF M!Content
<1> QED
  BY <1>1, <1>2, <1>3, <1>4

\* A guest writes to its disk.
LEMMA MachineWritten ==
    ASSUME None \notin M!Content, M!TypeOK, NEW p \in Path, disk[p] # None,
           disk' = [disk EXCEPT ![p].written = TRUE]
    PROVE  /\ disk' \in [Path -> M!Content \cup {None}]
           /\ \A q \in Path \ {p} : disk'[q] = disk[q]
           /\ disk'[p] # None /\ disk'[p].written
           /\ disk'[p].whole = disk[p].whole /\ disk'[p].asked = disk[p].asked
           /\ disk'[p].of = disk[p].of
<1> DEFINE w == [disk[p] EXCEPT !.written = TRUE]
<1>1. disk[p] \in M!Content
  BY DEF M!TypeOK
<1>2. w \in M!Content
  BY <1>1 DEF M!Content
<1>3. w.written /\ w.whole = disk[p].whole /\ w.asked = disk[p].asked /\ w.of = disk[p].of
  BY <1>1 DEF M!Content
<1>4. disk' = [disk EXCEPT ![p] = w]
  OBVIOUS
<1> HIDE DEF w
<1>5. disk'[p] = w /\ \A q \in Path \ {p} : disk'[q] = disk[q]
  BY <1>4 DEF M!TypeOK
<1>6. disk' \in [Path -> M!Content \cup {None}]
  BY <1>2, <1>4 DEF M!TypeOK
<1> QED
  BY <1>2, <1>3, <1>5, <1>6

\* Every step keeps the types.
LEMMA MachineTypeStep ==
    ASSUME MaxMachineChanges \in Nat, MaxStarts \in Nat, None \notin Image, None \notin M!Content,
           M!TypeOK, MachineInv, [M!Next]_M!vars
    PROVE  M!TypeOK'
<1> USE DEF M!disks, M!config, M!Goes, M!Raises
<1>0. ASSUME M!Change PROVE changes' \in 0..MaxMachineChanges
  BY <1>0, CountUp DEF M!Change, M!TypeOK
<1>1. CASE UNCHANGED M!vars
  BY <1>1 DEF M!vars, M!TypeOK
<1>2. CASE M!WriteImageConfig
  BY <1>0, <1>2 DEF M!WriteImageConfig, M!TypeOK
<1>3. CASE M!WriteParameters
  BY <1>0, <1>3 DEF M!WriteParameters, M!TypeOK
<1>4. CASE M!Download
  <2>1. M!Wanted \subseteq Image
    BY DEF M!Wanted, M!TypeOK
  <2> QED
    BY <1>4, <2>1 DEF M!Download, M!TypeOK
<1>5. CASE M!Start
  <2>1. starts' \in 0..MaxStarts
    BY <1>5, CountUp DEF M!Start, M!TypeOK
  <2> QED
    BY <1>5, <2>1 DEF M!Start, M!TypeOK
<1>6. CASE M!BeginCopy
  <2>1. /\ image_config \in Image
        /\ disk' = [disk EXCEPT ![read.path] = [of |-> image_config, asked |-> image_config,
                                                whole |-> FALSE, written |-> FALSE]]
    BY <1>6 DEF M!BeginCopy, M!ImageReady, M!UsesImage, M!Asked
  <2> QED
    BY <1>6, <2>1, MachineContents, MachineFields DEF M!BeginCopy, M!TypeOK
<1>7. CASE M!NotReady
  BY <1>7 DEF M!NotReady, M!TypeOK
<1>8. CASE M!Copied
  <2>1. disk[read.path] \in M!Content /\ read.path \in Path
    BY <1>8, MachineFields DEF M!Copied, MachineInv
  <2>2. disk' = [disk EXCEPT ![read.path] = [disk[read.path] EXCEPT !.whole = TRUE]]
    BY <1>8 DEF M!Copied
  <2> QED
    BY <1>8, <2>1, <2>2, MachineContents DEF M!Copied, M!TypeOK
<1>9. CASE M!CopyFails
  BY <1>0, <1>9 DEF M!CopyFails, M!TypeOK
<1>10. CASE M!BeginCreate \/ M!Created \/ M!CreateFails
  <2>1. CASE M!BeginCreate
    <3>1. disk' = [disk EXCEPT ![read.path] = [M!Empty EXCEPT !.asked = None, !.whole = FALSE]]
      BY <2>1 DEF M!BeginCreate, M!UsesImage, M!Asked
    <3> QED
      BY <2>1, <3>1, MachineContents, MachineFields DEF M!BeginCreate, M!TypeOK
  <2>2. CASE M!Created
    <3>1. disk[read.path] \in M!Content /\ read.path \in Path
      BY <2>2, MachineFields DEF M!Created, MachineInv
    <3>2. disk' = [disk EXCEPT ![read.path] = [disk[read.path] EXCEPT !.whole = TRUE]]
      BY <2>2 DEF M!Created
    <3> QED
      BY <2>2, <3>1, <3>2, MachineContents DEF M!Created, M!TypeOK
  <2>3. CASE M!CreateFails
    BY <1>0, <2>3, MachineFields DEF M!CreateFails, M!TypeOK
  <2> QED
    BY <1>10, <2>1, <2>2, <2>3
<1>11. CASE M!CheckDisk
  BY <1>11 DEF M!CheckDisk, M!TypeOK
<1>12. CASE M!BuildArguments
  BY <1>12 DEF M!BuildArguments, M!TypeOK
<1>13. CASE M!Popen
  <2>1. [path |-> read.path, answers |-> FALSE] \in [path : Path, answers : BOOLEAN]
    BY MachineFields
  <2> QED
    BY <1>13, <2>1 DEF M!Popen, M!TypeOK
<1>14. CASE M!RegisterSignals
  BY <1>14 DEF M!RegisterSignals, M!TypeOK
<1>15. CASE M!Wait
  BY <1>15 DEF M!Wait, M!TypeOK
<1>16. CASE M!GuestAnswers
  BY <1>16 DEF M!GuestAnswers, M!TypeOK
<1>17. CASE M!GuestWrites
  <2>1. guest.path \in Path /\ disk[guest.path] # None
        /\ disk' = [disk EXCEPT ![guest.path].written = TRUE]
    BY <1>17, MachineFields DEF M!GuestWrites, MachineInv
  <2>2. disk' \in [Path -> M!Content \cup {None}]
    BY <2>1, MachineWritten
  <2> QED
    BY <1>17, <2>1, <2>2 DEF M!GuestWrites, M!TypeOK
<1>18. CASE M!GuestEnds
  BY <1>0, <1>18 DEF M!GuestEnds, M!TypeOK
<1>19. CASE M!Terminated \/ M!CleanShutdown \/ M!KilledHard
  BY <1>0, <1>19, MachineFields DEF M!Terminated, M!CleanShutdown, M!KilledHard, M!Killed, M!TypeOK
<1> QED
  BY <1>1, <1>2, <1>3, <1>4, <1>5, <1>6, <1>7, <1>8, <1>9, <1>10, <1>11, <1>12, <1>13, <1>14,
     <1>15, <1>16, <1>17, <1>18, <1>19 DEF M!Next, M!Program

\* Every step keeps the disks.
LEMMA MachineStep ==
    ASSUME None \notin Image, None \notin M!Content, M!TypeOK, MachineInv, [M!Next]_M!vars
    PROVE  MachineInv'
<1> USE DEF MachineInv, M!disks, M!config, M!Goes, M!Raises
<1>1. CASE UNCHANGED M!vars
  BY <1>1 DEF M!vars
<1>2. CASE M!WriteImageConfig \/ M!WriteParameters \/ M!Download
  BY <1>2 DEF M!WriteImageConfig, M!WriteParameters, M!Download
<1>3. CASE M!Start
  BY <1>3 DEF M!Start
<1>4. CASE M!BeginCopy
  <2>1. /\ at' = "copying" /\ UNCHANGED <<read, used, cut, guest>> /\ read.path \in Path
        /\ disk[read.path] = None /\ image_config \in Image
    BY <1>4, MachineFields DEF M!BeginCopy, M!Missing, M!ImageReady
  <2>2. disk' = [disk EXCEPT ![read.path] = [of |-> image_config, asked |-> image_config,
                                             whole |-> FALSE, written |-> FALSE]]
    BY <1>4 DEF M!BeginCopy, M!UsesImage, M!Asked
  <2>3. /\ \A p \in Path \ {read.path} : disk'[p] = disk[p]
        /\ disk'[read.path] # None /\ disk'[read.path].of = disk'[read.path].asked
    BY <2>1, <2>2, MachineContents DEF M!TypeOK
  <2> QED
    BY <2>1, <2>3, MachineFields DEF M!TypeOK
<1>5. CASE M!NotReady
  BY <1>5 DEF M!NotReady, M!Missing
<1>6. CASE M!Copied
  <2>1. /\ at = "copying" /\ at' = "disk" /\ UNCHANGED <<read, used, cut, guest>>
        /\ read.path \in Path /\ disk[read.path] \in M!Content
    BY <1>6, MachineFields DEF M!Copied
  <2>2. disk' = [disk EXCEPT ![read.path] = [disk[read.path] EXCEPT !.whole = TRUE]]
    BY <1>6 DEF M!Copied
  <2>3. /\ \A p \in Path \ {read.path} : disk'[p] = disk[p]
        /\ disk'[read.path] # None /\ disk'[read.path].whole
        /\ disk'[read.path].asked = disk[read.path].asked
        /\ disk'[read.path].of = disk[read.path].of
    BY <2>1, <2>2, MachineContents DEF M!TypeOK
  <2> QED
    BY <2>1, <2>3, MachineFields DEF M!TypeOK
<1>7. CASE M!CopyFails
  <2>1. /\ at = "copying" /\ at' = "ended" /\ UNCHANGED <<read, used, cut, guest>>
        /\ read.path \in Path /\ disk'[read.path] = None
        /\ \A p \in Path \ {read.path} : disk'[p] = disk[p]
    BY <1>7, MachineFields DEF M!CopyFails, M!TypeOK
  <2> QED
    BY <2>1, MachineFields DEF M!TypeOK
<1>8. CASE M!BeginCreate \/ M!Created \/ M!CreateFails
  <2>1. CASE M!BeginCreate
    <3>1. /\ at' = "creating" /\ UNCHANGED <<read, used, cut, guest>>
          /\ read.path \in Path /\ disk[read.path] = None
      BY <2>1, MachineFields DEF M!BeginCreate, M!Missing
    <3>2. disk' = [disk EXCEPT ![read.path] = [M!Empty EXCEPT !.asked = None, !.whole = FALSE]]
      BY <2>1 DEF M!BeginCreate, M!UsesImage, M!Asked
    <3>3. /\ \A p \in Path \ {read.path} : disk'[p] = disk[p]
          /\ disk'[read.path] # None /\ disk'[read.path].of = disk'[read.path].asked
      BY <3>1, <3>2, MachineContents DEF M!TypeOK
    <3> QED
      BY <3>1, <3>3, MachineFields DEF M!TypeOK
  <2>2. CASE M!Created
    <3>1. /\ at = "creating" /\ at' = "arguments" /\ UNCHANGED <<read, used, cut, guest>>
          /\ read.path \in Path /\ disk[read.path] \in M!Content
      BY <2>2, MachineFields DEF M!Created
    <3>2. disk' = [disk EXCEPT ![read.path] = [disk[read.path] EXCEPT !.whole = TRUE]]
      BY <2>2 DEF M!Created
    <3>3. /\ \A p \in Path \ {read.path} : disk'[p] = disk[p]
          /\ disk'[read.path] # None /\ disk'[read.path].whole
          /\ disk'[read.path].asked = disk[read.path].asked
          /\ disk'[read.path].of = disk[read.path].of
      BY <3>1, <3>2, MachineContents DEF M!TypeOK
    <3> QED
      BY <3>1, <3>3, MachineFields DEF M!TypeOK
  <2>3. CASE M!CreateFails
    <3>1. /\ at = "creating" /\ at' = "ended" /\ UNCHANGED <<read, used, guest>>
          /\ read.path \in Path
      BY <2>3, MachineFields DEF M!CreateFails
    <3>2. CASE disk' = [disk EXCEPT ![read.path] = None] /\ UNCHANGED cut
      <4>1. disk'[read.path] = None /\ \A p \in Path \ {read.path} : disk'[p] = disk[p]
        BY <3>1, <3>2 DEF M!TypeOK
      <4> QED
        BY <3>1, <3>2, <4>1, MachineFields DEF M!TypeOK
    <3>3. CASE cut' = cut \cup {read.path} /\ UNCHANGED disk
      BY <3>1, <3>3
    <3> QED
      BY <2>3, <3>2, <3>3 DEF M!CreateFails
  <2> QED
    BY <1>8, <2>1, <2>2, <2>3
<1>9. CASE M!CheckDisk
  BY <1>9 DEF M!CheckDisk
<1>10. CASE M!BuildArguments
  BY <1>10 DEF M!BuildArguments
<1>11. CASE M!Popen
  BY <1>11 DEF M!Popen
<1>12. CASE M!RegisterSignals
  BY <1>12 DEF M!RegisterSignals
<1>13. CASE M!Wait
  BY <1>13 DEF M!Wait
<1>14. CASE M!GuestAnswers
  <2>1. guest # None /\ guest'.path = guest.path /\ UNCHANGED <<at, read, disk, used, cut>>
    BY <1>14 DEF M!GuestAnswers, M!TypeOK
  <2> QED
    BY <2>1
<1>15. CASE M!GuestWrites
  <2>1. /\ guest # None /\ UNCHANGED <<at, read, cut, guest>> /\ used' = used \cup {guest.path}
        /\ guest.path \in Path /\ disk[guest.path] # None
        /\ disk' = [disk EXCEPT ![guest.path].written = TRUE]
    BY <1>15, MachineFields DEF M!GuestWrites
  <2>2. /\ \A p \in Path \ {guest.path} : disk'[p] = disk[p]
        /\ disk'[guest.path] # None /\ disk'[guest.path].written
        /\ disk'[guest.path].whole = disk[guest.path].whole
        /\ disk'[guest.path].asked = disk[guest.path].asked
        /\ disk'[guest.path].of = disk[guest.path].of
    BY <2>1, MachineWritten
  <2> QED
    BY <2>1, <2>2, MachineFields DEF M!TypeOK
<1>16. CASE M!GuestEnds
  BY <1>16 DEF M!GuestEnds
<1>17. CASE M!Terminated \/ M!CleanShutdown \/ M!KilledHard
  BY <1>17 DEF M!Terminated, M!CleanShutdown, M!KilledHard, M!Killed
<1> QED
  BY <1>1, <1>2, <1>3, <1>4, <1>5, <1>6, <1>7, <1>8, <1>9, <1>10, <1>11, <1>12, <1>13, <1>14,
     <1>15, <1>16, <1>17 DEF M!Next, M!Program

\* It holds of the program from its first state on.
LEMMA MachineKept ==
    ASSUME MaxMachineChanges \in Nat, MaxStarts \in Nat, None \notin Image, None \notin M!Content
    PROVE  ProgramsSpec => [](program = "machine" => M!TypeOK /\ MachineInv)
<1> DEFINE IInv == program = "machine" => M!TypeOK /\ MachineInv
<1>1. ProgramsInit => IInv
  <2> SUFFICES ASSUME M!Init PROVE M!TypeOK /\ MachineInv
    BY ProgramsBegin
  <2>1. \A p \in Path : disk[p] = IF p \in Device THEN M!Empty ELSE None
    BY DEF M!Init
  <2>2. disk \in [Path -> M!Content \cup {None}]
    BY MachineContents DEF M!Init
  <2>3. M!TypeOK
    <3>1. changes \in 0..MaxMachineChanges /\ starts \in 0..MaxStarts
      BY DEF M!Init
    <3> QED
      BY <2>2, <3>1 DEF M!Init, M!TypeOK
  <2>4. M!Empty.whole /\ M!Empty.asked = None /\ M!Empty.of = None
    BY DEF M!Empty
  <2>5. MachineInv
    BY <2>1, <2>4 DEF M!Init, MachineInv
  <2> QED
    BY <2>3, <2>5
<1>2. IInv /\ [ProgramsNext]_all => IInv'
  BY ProgramsStep, MachineTypeStep, MachineStep
<1> QED
  BY <1>1, <1>2, PTL DEF ProgramsSpec

\* A guest runs from a copy of the image that was asked for when its disk was made, or from an
\* empty disk if none was, and what it has written stays, however the parameters and the images
\* change between its starts.  The disk is whole unless its copying or creation was stopped, or
\* qemu-img failed, before the end.
THEOREM GuestRunsFromItsDisk ==
    ASSUME MaxMachineChanges \in Nat, MaxStarts \in Nat, None \notin Image, None \notin M!Content
    PROVE  ProgramsSpec => []GuestHasItsDisk
<1> DEFINE IInv == program = "machine" => M!TypeOK /\ MachineInv
<1>1. IInv => GuestHasItsDisk
  <2> SUFFICES ASSUME M!TypeOK, MachineInv PROVE M!GuestHasItsDisk
    BY DEF GuestHasItsDisk
  <2> QED
    BY MachineFields DEF MachineInv, M!GuestHasItsDisk
<1> QED
  BY <1>1, MachineKept, PTL

-----------------------------------------------------------------------------
(* PublishedParameters. *)

\* A generated value that a service has is published, unless it was lost, or was forced since;
\* the value a run has for a parameter is what is published, or was never published, or is
\* forced; and once the parts are installed it is published.
PublishInv ==
    /\ options \in [Key -> P!Value \cup {None}] /\ used \in [Key -> P!Value \cup {None}]
    /\ next \in 1..MaxValues + 1
    /\ at \in {"idle", "init", "early", "parts"}
    /\ pending \subseteq Key \cup {P!PublishPart, P!SlavePart}
    /\ \A k \in Key \cap DOMAIN published : published[k] \in P!Value
    /\ \A k \in Key \ lost : used[k] \in {None, P!Forced}
          \/ (k \in DOMAIN published /\ published[k] \in {used[k], P!Forced})
    /\ at \in {"init", "early"} => was_published = published
    /\ at \in {"init", "early"} => \A k \in Key :
          /\ k \in config.forced => options[k] = P!Forced
          /\ k \notin config.forced /\ k \in DOMAIN published => options[k] \in {None, published[k]}
    /\ at \in {"early", "parts"} => \A k \in Key : options[k] \in P!Value
    /\ at = "parts" => \A k \in Key : options[k] = P!Forced
                                      \/ (k \in DOMAIN published /\ published[k] = options[k])

\* Every step of a run, of a service or of a death keeps it.
LEMMA PublishStep ==
    ASSUME Key \subseteq Nat \ {0}, MaxValues \in Nat, None \notin Nat, PublishInv, [P!Next]_P!vars
    PROVE  PublishInv'
<1> USE DEF PublishInv, P!run, P!slave
<1>0. P!Forced \in P!Value /\ None \notin P!Value
  BY DEF P!Forced, P!Value
<1>1. CASE UNCHANGED P!vars
  BY <1>1 DEF P!vars
<1>2. CASE P!Start
  <2>1. \A k \in Key : options'[k] = IF k \in config.forced THEN P!Forced ELSE None
    BY <1>2 DEF P!Start
  <2>2. options' \in [Key -> P!Value \cup {None}]
    BY <1>0, <1>2 DEF P!Start
  <2> QED
    BY <1>2, <2>1, <2>2 DEF P!Start
<1>3. ASSUME NEW k \in Key, P!InitSection(k) PROVE PublishInv'
  <2> DEFINE v == IF k \in DOMAIN was_published THEN was_published[k] ELSE next
  <2>1. /\ at = "init" /\ options[k] = None /\ at' = IF P!ToDo = {k} THEN "early" ELSE "init"
        /\ options' = [options EXCEPT ![k] = v]
        /\ UNCHANGED <<published, config, was_published, pending, used, lost>>
    BY <1>3 DEF P!InitSection, P!ToDo
  <2>2. v \in P!Value /\ next' \in 1..MaxValues + 1
    <3>1. CASE k \in DOMAIN was_published
      <4>1. next' = next
        BY <1>3, <3>1 DEF P!InitSection
      <4>2. v \in P!Value
        BY <2>1, <3>1
      <4> QED
        BY <4>1, <4>2
    <3>2. CASE k \notin DOMAIN was_published
      <4>1. next <= MaxValues /\ next' = next + 1
        BY <1>3, <3>2 DEF P!InitSection
      <4>2. next \in P!Value
        BY <4>1 DEF P!Value
      <4>3. next' \in 1..MaxValues + 1
        BY <4>1
      <4> QED
        BY <3>2, <4>2, <4>3
    <3> QED
      BY <3>1, <3>2
  <2>3. k \notin config.forced
    BY <1>0, <2>1
  <2>4. k \in DOMAIN published => v = published[k]
    BY <2>1
  <2> HIDE DEF v
  <2>5. options'[k] = v /\ \A l \in Key \ {k} : options'[l] = options[l]
    BY <2>1
  <2>6. options' \in [Key -> P!Value \cup {None}]
    BY <2>1, <2>2
  <2>7. at' = "early" => \A l \in Key : options'[l] \in P!Value
    <3>1. P!ToDo = {k} => \A l \in Key \ {k} : options[l] \in P!Value
      BY DEF P!ToDo
    <3> QED
      BY <2>1, <2>2, <2>5, <3>1
  <2>8. \A l \in Key :
          /\ l \in config.forced => options'[l] = P!Forced
          /\ l \notin config.forced /\ l \in DOMAIN published => options'[l] \in {None, published[l]}
    BY <2>1, <2>3, <2>4, <2>5
  <2> QED
    BY <2>1, <2>2, <2>6, <2>7, <2>8
<1>4. CASE P!NothingToInit
  <2>1. \A k \in Key : options[k] \in P!Value
    BY <1>4 DEF P!NothingToInit, P!ToDo
  <2> QED
    BY <1>4, <2>1 DEF P!NothingToInit
<1>5. CASE P!PublishEarly
  <2> DEFINE mine == Key \ config.forced
             new == \E k \in mine : k \notin DOMAIN was_published \/ was_published[k] # options[k]
  <2>1. /\ at = "early" /\ at' = "parts" /\ was_published = published
        /\ UNCHANGED <<config, was_published, options, used, next>>
        /\ pending' = Key \cup {P!PublishPart, P!SlavePart}
        /\ lost' = lost \cup ((Key \cap DOMAIN published) \ DOMAIN published')
        /\ published' = IF new THEN [k \in mine |-> options[k]] ELSE published
    BY <1>5 DEF P!PublishEarly, P!EarlyParameters
  <2>2. \A k \in Key \cap DOMAIN published' : published'[k] \in P!Value
    BY <2>1
  <2>3. \A k \in Key : options[k] = P!Forced \/ (k \in DOMAIN published' /\ published'[k] = options[k])
    BY <2>1
  <2>4. ASSUME NEW k \in Key \ lost'
        PROVE  \/ used[k] \in {None, P!Forced}
               \/ k \in DOMAIN published' /\ published'[k] \in {used[k], P!Forced}
    <3>1. SUFFICES ASSUME used[k] \notin {None, P!Forced}
                   PROVE  k \in DOMAIN published' /\ published'[k] \in {used[k], P!Forced}
      OBVIOUS
    <3>2. k \in DOMAIN published /\ published[k] \in {used[k], P!Forced} /\ k \in DOMAIN published'
      BY <2>1, <2>4, <3>1
    <3>3. CASE new
      <4>1. published' = [l \in mine |-> options[l]]
        BY <2>1, <3>3
      <4>2. k \in mine /\ published'[k] = options[k]
        BY <3>2, <4>1
      <4>3. options[k] \in {None, published[k]} /\ options[k] \in P!Value
        BY <2>1, <3>2, <4>2
      <4> QED
        BY <1>0, <3>2, <4>2, <4>3
    <3>4. CASE ~new
      BY <2>1, <3>2, <3>4
    <3> QED
      BY <3>3, <3>4
  <2> QED
    BY <2>1, <2>2, <2>3, <2>4
<1>6. ASSUME NEW k \in Key, P!InstallService(k) PROVE PublishInv'
  <2>1. /\ at = "parts" /\ at' \in {"idle", "parts"} /\ pending' = pending \ {k}
        /\ used' = [used EXCEPT ![k] = options[k]]
        /\ UNCHANGED <<published, config, was_published, options, lost, next>>
    BY <1>6 DEF P!InstallService, P!Done
  <2>2. used' \in [Key -> P!Value \cup {None}]
    BY <2>1
  <2>3. used'[k] = options[k] /\ \A l \in Key \ {k} : used'[l] = used[l]
    BY <2>1
  <2> QED
    BY <2>1, <2>2, <2>3
<1>7. CASE P!Publish
  <2>1. /\ at = "parts" /\ at' \in {"idle", "parts"} /\ pending' = pending \ {P!PublishPart}
        /\ UNCHANGED <<config, was_published, options, used, lost, next>>
    BY <1>7 DEF P!Publish, P!Done
  <2>2. \A k \in Key : k # P!Rest
    BY DEF P!Rest
  <2>3. \A k \in Key : k \in DOMAIN published' /\ published'[k] = options[k]
    BY <1>7, <2>2 DEF P!Publish, P!Content
  <2>4. \A k \in Key \cap DOMAIN published' : published'[k] \in P!Value
    BY <2>1, <2>3
  <2>5. ASSUME NEW k \in Key \ lost
        PROVE  used[k] \in {None, P!Forced} \/ published'[k] \in {used[k], P!Forced}
    BY <2>1, <2>3
  <2> QED
    BY <2>1, <2>3, <2>4, <2>5
<1>8. CASE P!PublishSlave \/ P!PublishSlaveFails
  BY <1>8 DEF P!PublishSlave, P!PublishSlaveFails, P!Done
<1>9. CASE P!Die
  BY <1>9 DEF P!Die
<1>10. CASE P!ChangeConfig
  BY <1>10 DEF P!ChangeConfig
<1> QED
  BY <1>1, <1>2, <1>3, <1>4, <1>5, <1>6, <1>7, <1>8, <1>9, <1>10 DEF P!Next, P!Run

\* Every step keeps the types; the other parameters have values too.
LEMMA PublishTypeStep ==
    ASSUME MaxValues \in Nat \ {0}, MaxFailures \in Nat, MaxConfigChanges \in Nat,
           P!TypeOK, PublishInv, [P!Next]_P!vars
    PROVE  P!TypeOK'
<1> USE DEF P!TypeOK, P!run, P!slave, P!Value
<1>0. 0 \in P!Value /\ 1 \in P!Value
  OBVIOUS
<1>1. CASE UNCHANGED P!vars
  BY <1>1 DEF P!vars
<1>2. CASE P!Start
  BY <1>2 DEF P!Start, P!Forced
<1>3. ASSUME NEW k \in Key, P!InitSection(k) PROVE P!TypeOK'
  <2>1. k \in DOMAIN was_published \/ next <= MaxValues
    BY <1>3 DEF P!InitSection
  <2>2. was_published = published
    BY <1>3 DEF P!InitSection, PublishInv
  <2>3. options' \in [Key -> P!Value \cup {None}]
    BY <1>3, <2>1, <2>2 DEF P!InitSection
  <2>4. next' \in 1..MaxValues + 1 /\ at' \in {"early", "init"}
    BY <1>3, <2>1 DEF P!InitSection
  <2> QED
    BY <1>3, <2>3, <2>4 DEF P!InitSection
<1>4. CASE P!NothingToInit
  BY <1>4 DEF P!NothingToInit
<1>5. CASE P!PublishEarly
  <2>1. \A k \in Key : options[k] \in P!Value
    BY <1>5 DEF P!PublishEarly, PublishInv
  <2>2. /\ DOMAIN published' \subseteq Key \cup {P!Rest}
        /\ \A k \in DOMAIN published' : published'[k] \in P!Value
    BY <1>5, <2>1 DEF P!PublishEarly, P!EarlyParameters
  <2>3. lost' \subseteq Key /\ pending' \subseteq Key \cup {P!PublishPart, P!SlavePart}
    BY <1>5 DEF P!PublishEarly
  <2>4. installed' \in P!Config \cup {None} /\ error_file' \in BOOLEAN
    BY <1>5 DEF P!PublishEarly
  <2> QED
    BY <1>5, <2>2, <2>3, <2>4 DEF P!PublishEarly
<1>6. CASE P!Publish
  <2>1. at = "parts" /\ at' \in {"idle", "parts"} /\ pending' \subseteq pending
    BY <1>6 DEF P!Publish, P!Done
  <2>2. \A k \in Key : options[k] \in P!Value
    BY <2>1 DEF PublishInv
  <2>3. config.rest \in {0, 1}
    BY DEF P!Config
  <2>4. /\ DOMAIN published' = Key \cup {P!Rest}
        /\ \A k \in DOMAIN published' : published'[k] \in P!Value
    BY <1>0, <1>6, <2>2, <2>3 DEF P!Publish, P!Content
  <2> QED
    BY <1>6, <2>1, <2>4 DEF P!Publish
<1>7. ASSUME NEW k \in Key, P!InstallService(k) PROVE P!TypeOK'
  BY <1>7 DEF P!InstallService, P!Done
<1>8. CASE P!PublishSlave
  <2>1. config.rest \in {0, 1}
    BY DEF P!Config
  <2> QED
    BY <1>8, <2>1 DEF P!PublishSlave, P!Done
<1>9. CASE P!PublishSlaveFails
  <2>1. failures' \in 0..MaxFailures
    BY <1>9, CountUp DEF P!PublishSlaveFails
  <2> QED
    BY <1>9, <2>1 DEF P!PublishSlaveFails, P!Done
<1>10. CASE P!Die
  <2>1. failures' \in 0..MaxFailures
    BY <1>10, CountUp DEF P!Die
  <2> QED
    BY <1>10, <2>1 DEF P!Die
<1>11. CASE P!ChangeConfig
  <2>1. changes' \in 0..MaxConfigChanges
    BY <1>11, CountUp DEF P!ChangeConfig
  <2> QED
    BY <1>11, <2>1 DEF P!ChangeConfig
<1> QED
  BY <1>1, <1>2, <1>3, <1>4, <1>5, <1>6, <1>7, <1>8, <1>9, <1>10, <1>11 DEF P!Next, P!Run

\* The types the publication begins with.
LEMMA PublishTypes ==
    ASSUME MaxValues \in Nat \ {0}, MaxFailures \in Nat, MaxConfigChanges \in Nat, P!Init
    PROVE  P!TypeOK
<1>1. next \in 1..MaxValues + 1 /\ failures \in 0..MaxFailures /\ changes \in 0..MaxConfigChanges
  BY DEF P!Init
<1> QED
  BY <1>1 DEF P!Init, P!TypeOK

\* It holds of the program from its first state on.
LEMMA PublishKept ==
    ASSUME Key \subseteq Nat \ {0}, MaxValues \in Nat, None \notin Nat
    PROVE  ProgramsSpec => [](program = "publish" => PublishInv)
<1> DEFINE IInv == program = "publish" => PublishInv
<1>1. ProgramsInit => IInv
  <2> SUFFICES ASSUME P!Init PROVE PublishInv
    BY ProgramsBegin
  <2>1. /\ options = [k \in Key |-> None] /\ used = [k \in Key |-> None] /\ next = 1
        /\ at = "idle" /\ pending = {} /\ DOMAIN published = {}
    BY DEF P!Init
  <2>2. next \in 1..MaxValues + 1
    BY <2>1
  <2>3. options \in [Key -> P!Value \cup {None}] /\ used \in [Key -> P!Value \cup {None}]
    BY <2>1
  <2> QED
    BY <2>1, <2>2, <2>3 DEF PublishInv
<1>2. IInv /\ [ProgramsNext]_all => IInv'
  BY ProgramsStep, PublishStep
<1> QED
  BY <1>1, <1>2, PTL DEF ProgramsSpec

\* A service that was installed with a generated value is never given another one, whatever runs
\* die and however the parameters change; except where its published value was lost.  (The
\* keys are numbers above that of the rest of the parameters.)
THEOREM ValuesStay ==
    ASSUME Key \subseteq Nat \ {0}, MaxValues \in Nat, None \notin Nat
    PROVE  ProgramsSpec => ServicesKeepTheirValue
<1> DEFINE IInv == program = "publish" => PublishInv
<1>1. IInv /\ [ProgramsNext]_all => [program = "publish" => P!GivesNoOther]_all
  <2> SUFFICES ASSUME PublishInv, [P!Next]_P!vars, NEW k \in Key \ lost
               PROVE  used[k] \in {None, P!Forced} \/ used'[k] \in {used[k], P!Forced}
    BY ProgramsStep DEF P!GivesNoOther
  <2>1. CASE \E l \in Key : P!InstallService(l)
    <3>1. PICK l \in Key : P!InstallService(l)
      BY <2>1
    <3>2. at = "parts" /\ used' = [used EXCEPT ![l] = options[l]]
      BY <3>1 DEF P!InstallService, P!Done
    <3>3. options[l] = P!Forced \/ (l \in DOMAIN published /\ published[l] = options[l])
      BY <3>2 DEF PublishInv
    <3>4. l = k => used'[k] = options[k]
      BY <3>2 DEF PublishInv
    <3>5. l # k => used'[k] = used[k]
      BY <3>2 DEF PublishInv
    <3> QED
      BY <3>3, <3>4, <3>5 DEF PublishInv
  <2>2. CASE ~\E l \in Key : P!InstallService(l)
    <3>1. used' = used
      BY <2>2 DEF P!Next, P!Run, P!Start, P!InitSection, P!NothingToInit, P!PublishEarly, P!Publish,
             P!PublishSlave, P!PublishSlaveFails, P!Die, P!ChangeConfig, P!vars
    <3> QED
      BY <3>1
  <2> QED
    BY <2>1, <2>2
<1> QED
  BY <1>1, PublishKept, PTL DEF ProgramsSpec, ServicesKeepTheirValue

-----------------------------------------------------------------------------
(* Requests. *)

\* The values of a child whose request was answered in full have no gap.
WithoutGap(c) == raises[c] = "none" => \A p \in Param : connection[c][p] # Q!Empty

\* Once the parts are installed, every child was answered in full.
RequestsInv ==
    /\ changes \in Nat /\ todo \subseteq Child /\ at \in {"idle", "init", "install"}
    /\ published \in [Child -> [Param -> Nat]] /\ connection \in [Child -> [Param -> Nat]]
    /\ raises \in [Child -> {"none", "request", "missing"}]
    /\ used \in [Child -> [Param -> Nat] \cup {None}]
    /\ at = "init" => \A c \in Child \ todo : WithoutGap(c)
    /\ at = "install" => \A c \in Child : WithoutGap(c)

\* The request of one child, whatever its answer, leaves the others.
LEMMA RequestsPart ==
    ASSUME RequestsInv, NEW c \in Child, at = "init", Q!NextPart(c, "install"), WithoutGap(c)',
           connection' \in [Child -> [Param -> Nat]],
           raises' \in [Child -> {"none", "request", "missing"}],
           \A d \in Child \ {c} : raises'[d] = raises[d] /\ connection'[d] = connection[d],
           UNCHANGED <<published, used, changes>>
    PROVE  RequestsInv'
<1>1. todo' \subseteq Child /\ at' \in {"init", "install"}
  BY DEF RequestsInv, Q!NextPart
<1>2. at' = "init" => \A d \in Child \ todo' : WithoutGap(d)'
  BY DEF RequestsInv, Q!NextPart, WithoutGap
<1>3. at' = "install" => \A d \in Child : WithoutGap(d)'
  BY DEF RequestsInv, Q!NextPart, WithoutGap
<1> QED
  BY <1>1, <1>2, <1>3 DEF RequestsInv

\* Every step keeps it.
LEMMA RequestsStep == RequestsInv /\ [Q!Next]_Q!vars => RequestsInv'
<1> SUFFICES ASSUME RequestsInv, [Q!Next]_Q!vars PROVE RequestsInv'
  OBVIOUS
<1>1. CASE UNCHANGED Q!vars
  BY <1>1 DEF RequestsInv, WithoutGap, Q!vars, Q!run
<1>2. CASE Q!Start
  BY <1>2 DEF RequestsInv, WithoutGap, Q!Start
<1>3. ASSUME NEW c \in Child, Q!RequestAnswered(c) PROVE RequestsInv'
  <2>1. /\ connection' = [connection EXCEPT ![c] = published[c]]
        /\ raises' = [raises EXCEPT ![c] = IF \E p \in Param : published[c][p] = Q!Empty
                                           THEN "missing" ELSE "none"]
        /\ UNCHANGED <<published, used, changes>> /\ at = "init" /\ Q!NextPart(c, "install")
    BY <1>3 DEF Q!RequestAnswered
  <2>2. connection'[c] = published[c]
    BY <2>1 DEF RequestsInv
  <2>3. raises'[c] = IF \E p \in Param : published[c][p] = Q!Empty THEN "missing" ELSE "none"
    BY <2>1 DEF RequestsInv
  <2>4. WithoutGap(c)'
    BY <2>2, <2>3 DEF WithoutGap
  <2>5. connection' \in [Child -> [Param -> Nat]]
    BY <2>1 DEF RequestsInv
  <2>6. raises' \in [Child -> {"none", "request", "missing"}]
    BY <2>1 DEF RequestsInv
  <2>7. \A d \in Child \ {c} : raises'[d] = raises[d] /\ connection'[d] = connection[d]
    BY <2>1 DEF RequestsInv
  <2> QED
    BY <2>1, <2>4, <2>5, <2>6, <2>7, RequestsPart
<1>4. ASSUME NEW c \in Child, Q!RequestFails(c) PROVE RequestsInv'
  <2>1. /\ connection' = [connection EXCEPT ![c] = Q!NoValues]
        /\ raises' = [raises EXCEPT ![c] = "request"]
        /\ UNCHANGED <<published, used, changes>> /\ at = "init" /\ Q!NextPart(c, "install")
    BY <1>4 DEF Q!RequestFails
  <2>2. Q!NoValues \in [Param -> Nat]
    BY DEF Q!NoValues, Q!Empty
  <2>3. connection' \in [Child -> [Param -> Nat]]
    BY <2>1, <2>2 DEF RequestsInv
  <2>4. raises' \in [Child -> {"none", "request", "missing"}] /\ raises'[c] = "request"
    BY <2>1 DEF RequestsInv
  <2>5. \A d \in Child \ {c} : raises'[d] = raises[d] /\ connection'[d] = connection[d]
    BY <2>1 DEF RequestsInv
  <2>6. WithoutGap(c)'
    BY <2>4 DEF WithoutGap
  <2> QED
    BY <2>1, <2>3, <2>4, <2>5, <2>6, RequestsPart
<1>5. CASE Q!RunFails
  BY <1>5 DEF RequestsInv, Q!RunFails
<1>6. ASSUME NEW c \in Child, Q!InstallUser(c) PROVE RequestsInv'
  <2>1. /\ used' = [used EXCEPT ![c] = connection[c]] /\ at = "install"
        /\ UNCHANGED <<published, connection, raises, changes>> /\ Q!NextPart(c, "idle")
    BY <1>6 DEF Q!InstallUser
  <2>2. used' \in [Child -> [Param -> Nat] \cup {None}]
    BY <2>1 DEF RequestsInv
  <2>3. at' \in {"idle", "install"} /\ todo' \subseteq Child
    BY <2>1 DEF RequestsInv, Q!NextPart
  <2> QED
    BY <2>1, <2>2, <2>3 DEF RequestsInv, WithoutGap
<1>7. ASSUME NEW c \in Child, Q!InstallRaises(c) PROVE RequestsInv'
  BY <1>7 DEF RequestsInv, Q!InstallRaises
<1>8. ASSUME NEW c \in Child, Q!PublishChild(c) PROVE RequestsInv'
  <2>1. PICK p \in Param : published' = [published EXCEPT ![c][p] = changes']
    BY <1>8 DEF Q!PublishChild
  <2>2. changes' \in Nat
    BY <1>8 DEF Q!PublishChild, RequestsInv
  <2>3. published' \in [Child -> [Param -> Nat]]
    BY <2>1, <2>2 DEF RequestsInv
  <2> QED
    BY <1>8, <2>2, <2>3 DEF Q!PublishChild, Q!run, RequestsInv, WithoutGap
<1>9. CASE Q!ChangeState
  BY <1>9 DEF RequestsInv, WithoutGap, Q!ChangeState, Q!run
<1> QED
  BY <1>1, <1>2, <1>3, <1>4, <1>5, <1>6, <1>7, <1>8, <1>9 DEF Q!Next, Q!Run

\* Every step keeps the types.
LEMMA RequestsTypeStep ==
    ASSUME MaxChanges \in Nat, MaxFaults \in Nat, Q!TypeOK, [Q!Next]_Q!vars
    PROVE  Q!TypeOK'
<1> USE DEF Q!TypeOK, Q!run
<1>0. Q!DefaultState \in Q!State \ {"destroyed"} /\ Q!NoValues \in [Param -> Q!Value]
  BY DEF Q!DefaultState, Q!State, Q!NoValues, Q!Value, Q!Empty
<1>1. CASE UNCHANGED Q!vars
  BY <1>1 DEF Q!vars
<1>2. CASE Q!Start
  BY <1>2 DEF Q!Start
<1>3. ASSUME NEW c \in Child, Q!RequestAnswered(c) PROVE Q!TypeOK'
  BY <1>0, <1>3 DEF Q!RequestAnswered, Q!NextPart
<1>4. ASSUME NEW c \in Child, Q!RequestFails(c) PROVE Q!TypeOK'
  <2>1. failures' \in 0..MaxFaults
    BY <1>4, CountUp DEF Q!RequestFails
  <2> QED
    BY <1>0, <1>4, <2>1 DEF Q!RequestFails, Q!NextPart
<1>5. CASE Q!RunFails
  <2>1. failures' \in 0..MaxFaults
    BY <1>5, CountUp DEF Q!RunFails
  <2> QED
    BY <1>5, <2>1 DEF Q!RunFails
<1>6. ASSUME NEW c \in Child, Q!InstallUser(c) PROVE Q!TypeOK'
  BY <1>6 DEF Q!InstallUser, Q!NextPart
<1>7. ASSUME NEW c \in Child, Q!InstallRaises(c) PROVE Q!TypeOK'
  BY <1>7 DEF Q!InstallRaises
<1>8. ASSUME NEW c \in Child, Q!PublishChild(c) PROVE Q!TypeOK'
  <2>1. changes' \in 0..MaxChanges
    BY <1>8, CountUp DEF Q!PublishChild
  <2>2. PICK p \in Param : published' = [published EXCEPT ![c][p] = changes']
    BY <1>8 DEF Q!PublishChild
  <2>3. published' \in [Child -> [Param -> Q!Value]]
    BY <2>1, <2>2 DEF Q!Value
  <2> QED
    BY <1>8, <2>1, <2>3 DEF Q!PublishChild
<1>9. CASE Q!ChangeState
  <2>1. changes' \in 0..MaxChanges
    BY <1>9, CountUp DEF Q!ChangeState
  <2> QED
    BY <1>9, <2>1 DEF Q!ChangeState
<1> QED
  BY <1>1, <1>2, <1>3, <1>4, <1>5, <1>6, <1>7, <1>8, <1>9 DEF Q!Next, Q!Run

\* The types the requests begin with.
LEMMA RequestsTypes ==
    ASSUME MaxChanges \in Nat, MaxFaults \in Nat, Q!Init
    PROVE  Q!TypeOK
<1>1. changes \in 0..MaxChanges /\ failures \in 0..MaxFaults /\ Q!NoValues \in [Param -> Q!Value]
  BY DEF Q!Init, Q!NoValues, Q!Value, Q!Empty
<1> QED
  BY <1>1 DEF Q!Init, Q!TypeOK, Q!State

\* Values are numbered as they are published: what a run was told is not newer than what is
\* published, and a part is not newer than what the last full answer told.
Order(c) ==
    /\ \A p \in Param : connection[c][p] <= published[c][p] /\ published[c][p] <= changes
    /\ used[c] # None => \A p \in Param :
          used[c][p] <= published[c][p] /\ (raises[c] = "none" => used[c][p] <= connection[c][p])
RequestsOrder == \A c \in Child : Order(c)

\* Every step keeps the order.
LEMMA RequestsOrderStep ==
    ASSUME RequestsInv, RequestsOrder, [Q!Next]_Q!vars
    PROVE  RequestsOrder'
<1> SUFFICES ASSUME NEW d \in Child PROVE Order(d)'
  BY DEF RequestsOrder
<1>0. /\ Order(d) /\ changes \in Nat
      /\ \A p \in Param : connection[d][p] \in Nat /\ published[d][p] \in Nat
      /\ used[d] # None => \A p \in Param : used[d][p] \in Nat
  <2>1. connection[d] \in [Param -> Nat] /\ published[d] \in [Param -> Nat]
    BY DEF RequestsInv
  <2>2. used[d] \in [Param -> Nat] \cup {None}
    BY DEF RequestsInv
  <2> QED
    BY <2>1, <2>2 DEF RequestsInv, RequestsOrder
<1>1. CASE UNCHANGED <<published, connection, raises, used>> /\ changes' \in {changes, changes + 1}
  <2>1. \A p \in Param : published'[d][p] <= changes'
    BY <1>0, <1>1 DEF Order
  <2> QED
    BY <1>0, <1>1, <2>1 DEF Order
<1>2. ASSUME NEW c \in Child, Q!RequestAnswered(c) PROVE Order(d)'
  <2>1. UNCHANGED <<published, used, changes>> /\ connection' = [connection EXCEPT ![c] = published[c]]
    BY <1>2 DEF Q!RequestAnswered
  <2>2. \A e \in Child \ {c} : raises'[e] = raises[e]
    BY <1>2 DEF Q!RequestAnswered, RequestsInv
  <2>3. CASE d = c
    <3>1. connection'[d] = published[d]
      BY <2>1, <2>3 DEF RequestsInv
    <3> QED
      BY <1>0, <2>1, <3>1 DEF Order
  <2>4. CASE d # c
    <3>1. connection'[d] = connection[d] /\ raises'[d] = raises[d]
      BY <2>1, <2>2, <2>4 DEF RequestsInv
    <3> QED
      BY <1>0, <2>1, <3>1 DEF Order
  <2> QED
    BY <2>3, <2>4
<1>3. ASSUME NEW c \in Child, Q!RequestFails(c) PROVE Order(d)'
  <2>1. /\ UNCHANGED <<published, used, changes>>
        /\ connection' = [connection EXCEPT ![c] = Q!NoValues]
        /\ raises' = [raises EXCEPT ![c] = "request"]
    BY <1>3 DEF Q!RequestFails
  <2>2. CASE d = c
    <3>1. connection'[d] = Q!NoValues /\ raises'[d] = "request"
      BY <2>1, <2>2 DEF RequestsInv
    <3>2. \A p \in Param : connection'[d][p] = 0
      BY <3>1 DEF Q!NoValues, Q!Empty
    <3> QED
      BY <1>0, <2>1, <3>1, <3>2 DEF Order
  <2>3. CASE d # c
    <3>1. connection'[d] = connection[d] /\ raises'[d] = raises[d]
      BY <2>1, <2>3 DEF RequestsInv
    <3> QED
      BY <1>0, <2>1, <3>1 DEF Order
  <2> QED
    BY <2>2, <2>3
<1>4. ASSUME NEW c \in Child, Q!InstallUser(c) PROVE Order(d)'
  <2>1. /\ UNCHANGED <<published, connection, raises, changes>>
        /\ used' = [used EXCEPT ![c] = connection[c]]
    BY <1>4 DEF Q!InstallUser
  <2>2. used'[d] = IF d = c THEN connection[d] ELSE used[d]
    BY <2>1 DEF RequestsInv
  <2> QED
    BY <1>0, <2>1, <2>2 DEF Order
<1>5. ASSUME NEW c \in Child, Q!PublishChild(c) PROVE Order(d)'
  <2>1. /\ changes' = changes + 1 /\ UNCHANGED <<connection, raises, used>>
        /\ \E p \in Param : published' = [published EXCEPT ![c][p] = changes']
    BY <1>5 DEF Q!PublishChild, Q!run
  <2>2. PICK p \in Param : published' = [published EXCEPT ![c][p] = changes']
    BY <2>1
  <2>3. ASSUME NEW q \in Param
        PROVE  published[d][q] <= published'[d][q] /\ published'[d][q] <= changes'
    <3>1. published'[d][q] \in {published[d][q], changes + 1}
      BY <2>1, <2>2 DEF RequestsInv
    <3> QED
      BY <1>0, <2>1, <3>1 DEF Order
  <2>4. \A q \in Param : published'[d][q] \in Nat
    BY <1>0, <2>1, <2>2 DEF RequestsInv
  <2> QED
    BY <1>0, <2>1, <2>3, <2>4 DEF Order
<1>6. CASE UNCHANGED Q!vars
  BY <1>1, <1>6 DEF Q!vars, Q!run
<1>7. CASE Q!Start \/ Q!RunFails \/ Q!ChangeState \/ \E c \in Child : Q!InstallRaises(c)
  BY <1>1, <1>7 DEF Q!Start, Q!RunFails, Q!ChangeState, Q!InstallRaises, Q!run
<1> QED
  BY <1>2, <1>3, <1>4, <1>5, <1>6, <1>7 DEF Q!Next, Q!Run

\* It holds of the program from its first state on.
LEMMA RequestsKept ==
    ProgramsSpec => [](program = "request" => RequestsInv /\ RequestsOrder)
<1> DEFINE IInv == program = "request" => RequestsInv /\ RequestsOrder
<1>1. ProgramsInit => IInv
  <2> SUFFICES ASSUME Q!Init PROVE RequestsInv /\ RequestsOrder
    BY ProgramsBegin
  <2>1. Q!NoValues \in [Param -> Nat] /\ \A p \in Param : Q!NoValues[p] = 0
    BY DEF Q!NoValues, Q!Empty
  <2>2. RequestsInv
    BY <2>1 DEF Q!Init, RequestsInv
  <2>3. \A c \in Child : used[c] = None /\ connection[c] = Q!NoValues /\ published[c] = Q!NoValues
    BY DEF Q!Init
  <2>4. changes = 0
    BY DEF Q!Init
  <2> QED
    BY <2>1, <2>2, <2>3, <2>4 DEF RequestsOrder, Order
<1>2. IInv /\ [ProgramsNext]_all => IInv'
  BY ProgramsStep, RequestsStep, RequestsOrderStep
<1> QED
  BY <1>1, <1>2, PTL DEF ProgramsSpec

\* A part that needs a child is never installed with a value missing, nor again with an older
\* value than it has, through failures of SlapOS Master and partial publications, for any
\* children and parameters: the first half of what the run checks, whose other half is that
\* the values arrive.
THEOREM NoValueIsMissing ==
    ProgramsSpec => [][program = "request" => Q!UsesEveryValue]_all
<1> DEFINE IInv == program = "request" => RequestsInv /\ RequestsOrder
<1>1. IInv /\ [ProgramsNext]_all => [program = "request" => Q!UsesEveryValue]_all
  <2> SUFFICES ASSUME RequestsInv, RequestsOrder, [Q!Next]_Q!vars, NEW c \in Child \ Optional,
                      used'[c] # used[c], NEW p \in Param
               PROVE  used'[c][p] # Q!Empty /\ (used[c] # None => used'[c][p] >= used[c][p])
    BY ProgramsStep DEF Q!UsesEveryValue
  <2>1. CASE \E d \in Child : Q!InstallUser(d)
    <3>1. PICK d \in Child : Q!InstallUser(d)
      BY <2>1
    <3>2. at = "install" /\ ~Q!Raises(d) /\ used' = [used EXCEPT ![d] = connection[d]]
      BY <3>1 DEF Q!InstallUser
    <3>3. d = c /\ used'[c] = connection[c]
      BY <3>2 DEF RequestsInv
    <3>4. raises[c] = "none"
      BY <3>2, <3>3 DEF Q!Raises
    <3>5. used'[c][p] # Q!Empty
      BY <3>2, <3>3, <3>4 DEF RequestsInv, WithoutGap
    <3>6. ASSUME used[c] # None PROVE used'[c][p] >= used[c][p]
      <4>1. used[c][p] <= connection[c][p]
        BY <3>4, <3>6 DEF RequestsOrder, Order
      <4>2. used[c][p] \in Nat /\ connection[c][p] \in Nat
        BY <3>6 DEF RequestsInv
      <4> QED
        BY <3>3, <4>1, <4>2
    <3> QED
      BY <3>5, <3>6
  <2>2. CASE ~\E d \in Child : Q!InstallUser(d)
    <3>1. used' = used
      BY <2>2 DEF Q!Next, Q!Run, Q!Start, Q!RequestAnswered, Q!RequestFails, Q!RunFails,
             Q!InstallRaises, Q!PublishChild, Q!ChangeState, Q!vars
    <3> QED
      BY <3>1
  <2> QED
    BY <2>1, <2>2
<1> QED
  BY <1>1, RequestsKept, PTL DEF ProgramsSpec

-----------------------------------------------------------------------------
(* ParameterValidation. *)

\* What the inputs are.
Inputs ==
    /\ Shared \subseteq Seq(V!Instance) /\ None \notin {"text", "typed", Bad}
    /\ \A o \in Options : o.defaults \in BOOLEAN /\ o.unstringify \in BOOLEAN

\* The inputs, which no step changes.
Input == [options |-> options, defaults |-> defaults, shared |-> shared]

\* The defaults the validator has to add to the first n instances.
Owed(in, n) ==
    {e \in (1..n) \X Schema :
        /\ in.options.defaults /\ in.shared[e[1]].judged # "invalid" /\ in.shared[e[1]].given = None
        /\ e[2] \in in.shared[e[1]].applies /\ in.defaults[e[2]] # None}

\* They cannot all be added.
Spoilt(in, n) ==
    \/ \E e \in Owed(in, n) : in.defaults[e[2]] = Bad
    \/ \E e, f \in Owed(in, n) : e[1] = f[1] /\ in.defaults[e[2]] # in.defaults[f[2]]

\* The sub-schemas of the first n instances that are kept.
Kept(in, n) ==
    {e \in (1..n) \X Schema :
        in.shared[e[1]].judged # "invalid" /\ e[2] \in in.shared[e[1]].applies}

\* What an instance is refused for.
Reason(in, i) ==
    \/ in.shared[i].judged = "invalid"
    \/ /\ in.shared[i].judged = "invalid with defaults"
       /\ in.options.defaults \/ in.options.unstringify
    \/ Spoilt(in, i)

\* What was recorded, and the values, before instance n + 1 is completed.
Before(in, recorded, val, n) ==
    /\ recorded = Owed(in, n)
    /\ \A i \in DOMAIN in.shared :
          /\ in.shared[i].given # None => val[i] # None
          /\ i > n => val[i] = in.shared[i].given
          /\ in.shared[i].given = None /\ val[i] # None => \E s \in Schema : <<i, s>> \in Owed(in, n)
    /\ \A e \in Owed(in, n) : in.defaults[e[2]] = Bad => val[e[1]] = None

\* What is recorded at each step of the loop is what the instances so far give; so is the
\* verdict on each of them.
ValidationInv ==
    /\ options \in Options /\ shared \in Seq(V!Instance)
    /\ step \in {"main", "validate", "complete", "check", "done", "failed"}
    /\ verdict \in Seq(BOOLEAN) /\ Len(verdict) <= Len(shared)
    /\ DOMAIN value = DOMAIN shared
    /\ step = "main" => verdict = <<>>
    /\ \A i \in 1..Len(verdict) : ~verdict[i] <=> Reason(Input, i)
    /\ step \in {"main", "validate"} =>
          applied_schemas = Kept(Input, Len(verdict)) /\ Before(Input, applied_defaults, value, Len(verdict))
    /\ step \in {"complete", "check"} =>
          /\ V!Current \in 1..Len(shared) /\ shared[V!Current].judged # "invalid"
          /\ applied_schemas = Kept(Input, V!Current)
    /\ step = "complete" => Before(Input, applied_defaults, value, Len(verdict))
    /\ step = "check" => Before(Input, applied_defaults, value, V!Current) /\ ~Spoilt(Input, V!Current)

\* An instance whose defaults cannot be added is one whose own defaults clash.
LEMMA PoisonMeans ==
    ASSUME Inputs, ValidationInv, NEW n \in 1..Len(shared)
    PROVE  Spoilt(Input, n) <=> \E j \in 1..n : V!Poisons(j)
<1>1. \A j \in 1..n : shared[j] \in V!Instance
  BY DEF ValidationInv
<1>2. ASSUME NEW j \in 1..n
      PROVE  V!Poisons(j) <=>
                \/ \E e \in Owed(Input, n) : e[1] = j /\ defaults[e[2]] = Bad
                \/ \E e, f \in Owed(Input, n) : e[1] = j /\ f[1] = j /\ defaults[e[2]] # defaults[f[2]]
  <2> DEFINE A == shared[j].applies
             adds == {defaults[s] : s \in A} \ {None}
             open == options.defaults /\ shared[j].given = None /\ shared[j].judged # "invalid"
  <2>1. A \subseteq Schema
    BY <1>1, <1>2 DEF V!Instance
  <2>5. V!Poisons(j) <=> open /\ (Bad \in adds \/ \E x, y \in adds : x # y)
    BY DEF V!Poisons
  <2>7. open => \A s \in A : defaults[s] # None <=> <<j, s>> \in Owed(Input, n)
    BY <2>1, <1>2 DEF Owed, Input
  <2>8. \A e \in Owed(Input, n) : e[1] = j => open /\ e[2] \in A /\ e = <<j, e[2]>> /\ defaults[e[2]] # None
    BY <1>2 DEF Owed, Input
  <2>9. Bad # None
    BY DEF Inputs
  <2> HIDE DEF open
  <2>10. open /\ Bad \in adds <=> \E e \in Owed(Input, n) : e[1] = j /\ defaults[e[2]] = Bad
    <3>1. ASSUME open, Bad \in adds PROVE \E e \in Owed(Input, n) : e[1] = j /\ defaults[e[2]] = Bad
      <4>1. PICK s \in A : defaults[s] = Bad
        BY <3>1
      <4>2. <<j, s>> \in Owed(Input, n)
        BY <2>7, <2>9, <3>1, <4>1
      <4> QED
        BY <4>1, <4>2
    <3> QED
      BY <2>8, <3>1
  <2>11. open /\ (\E x, y \in adds : x # y) <=>
            \E e, f \in Owed(Input, n) : e[1] = j /\ f[1] = j /\ defaults[e[2]] # defaults[f[2]]
    <3>1. ASSUME open, NEW x \in adds, NEW y \in adds, x # y
          PROVE  \E e, f \in Owed(Input, n) : e[1] = j /\ f[1] = j /\ defaults[e[2]] # defaults[f[2]]
      <4>1. PICK s \in A : defaults[s] = x
        BY <3>1
      <4>2. PICK t \in A : defaults[t] = y
        BY <3>1
      <4>3. <<j, s>> \in Owed(Input, n) /\ <<j, t>> \in Owed(Input, n)
        BY <2>7, <3>1, <4>1, <4>2
      <4> QED
        BY <3>1, <4>1, <4>2, <4>3
    <3> QED
      BY <2>8, <3>1
  <2> QED
    BY <2>5, <2>10, <2>11
<1>3. \A e \in Owed(Input, n) : e[1] \in 1..n
  BY DEF Owed, Input
<1> QED
  BY <1>2, <1>3 DEF Spoilt, Input

\* The defaults of the first n instances are those of the first m, and more.
LEMMA OwedGrows ==
    ASSUME NEW m \in Nat, NEW n \in Nat, m <= n
    PROVE  Owed(Input, m) \subseteq Owed(Input, n) /\ \A e \in Owed(Input, n) : e[1] <= m => e \in Owed(Input, m)
BY DEF Owed, Input

\* What the validator finds missing once it has n + 1 instances: with what it recorded, all
\* that it owes; and what cannot be added makes it fail.
LEMMA CompleteMeans ==
    ASSUME Inputs, ValidationInv, step = "complete"
    PROVE  /\ applied_defaults \cup V!Missing = Owed(Input, V!Current)
           /\ V!DefaultsFail <=> Spoilt(Input, V!Current)
<1> DEFINE n == Len(verdict)
           m == V!Current
<1>1. n \in Nat /\ m = n + 1 /\ m \in 1..Len(shared) /\ DOMAIN shared = 1..Len(shared)
  BY DEF ValidationInv, V!Current
<1>2. Before(Input, applied_defaults, value, n) /\ applied_schemas = Kept(Input, m)
  BY <1>1 DEF ValidationInv
<1>3. \A i \in DOMAIN shared : V!Typed[i] = None <=> value[i] = None
  BY DEF Inputs, V!Typed
<1>4. V!Missing = {e \in Kept(Input, m) : options.defaults /\ value[e[1]] = None /\ defaults[e[2]] # None}
  <2>1. \A e \in Kept(Input, m) : e[1] \in DOMAIN shared
    BY <1>1 DEF Kept, Input
  <2> QED
    BY <1>2, <1>3, <2>1 DEF V!Missing
<1> HIDE DEF n, m
<1>5. \A e \in Kept(Input, m) : value[e[1]] = None => shared[e[1]].given = None
  <2>1. \A e \in Kept(Input, m) : e[1] \in DOMAIN shared
    BY <1>1 DEF Kept, Input
  <2> QED
    BY <1>2, <2>1 DEF Before, Input
<1>6. V!Missing \subseteq Owed(Input, m)
  BY <1>4, <1>5 DEF Kept, Owed, Input
<1>7. ASSUME NEW e \in Owed(Input, m) PROVE e \in Owed(Input, n) \/ e \in V!Missing
  <2>1. /\ e \in Kept(Input, m) /\ options.defaults /\ defaults[e[2]] # None /\ e[1] \in 1..m
        /\ shared[e[1]].given = None
    BY DEF Owed, Kept, Input
  <2>2. CASE e[1] <= n
    BY <1>1, <2>2, OwedGrows
  <2>3. CASE e[1] > n
    <3>1. value[e[1]] = None
      BY <1>1, <1>2, <2>1, <2>3 DEF Before, Input
    <3> QED
      BY <1>4, <2>1, <3>1
  <2> QED
    BY <1>1, <2>1, <2>2, <2>3
<1>8. Owed(Input, n) \subseteq Owed(Input, m)
  BY <1>1, OwedGrows
<1>9. applied_defaults = Owed(Input, n)
  BY <1>2 DEF Before, Input
<1>10. applied_defaults \cup V!Missing = Owed(Input, m)
  BY <1>6, <1>7, <1>8, <1>9
<1>11. ASSUME NEW e \in Owed(Input, m), defaults[e[2]] = Bad PROVE e \in V!Missing
  <2>1. CASE e \in Owed(Input, n)
    <3>1. value[e[1]] = None
      BY <1>2, <1>11, <2>1 DEF Before, Input
    <3>2. e \in Kept(Input, m) /\ options.defaults /\ defaults[e[2]] # None
      BY DEF Owed, Kept, Input
    <3> QED
      BY <1>4, <3>1, <3>2
  <2> QED
    BY <1>7, <2>1
<1>12. V!DefaultsFail <=> Spoilt(Input, m)
  BY <1>6, <1>10, <1>11 DEF V!DefaultsFail, V!Conflict, Spoilt, Input
<1> QED
  BY <1>10, <1>12 DEF m

\* Every step of the loop keeps it.
LEMMA ValidationStep ==
    ASSUME Inputs, ValidationInv, [V!Next]_V!vars PROVE ValidationInv'
<1> DEFINE n == Len(verdict)
<1>0. n \in Nat /\ V!Current = n + 1 /\ DOMAIN shared = 1..Len(shared) /\ Len(shared) \in Nat
  BY DEF ValidationInv, V!Current
<1>1. CASE UNCHANGED V!vars
  <2>1. Input' = Input /\ V!Current' = V!Current
    BY <1>1 DEF V!vars, Input, V!Current
  <2> QED
    BY <1>1, <2>1 DEF V!vars, ValidationInv
<1>2. CASE V!ValidateMain
  <2>1. /\ step = "main" /\ step' \in {"failed", "validate", "done"}
        /\ UNCHANGED <<options, defaults, shared, applied_schemas, applied_defaults, value, verdict>>
    BY <1>2 DEF V!ValidateMain, V!inputs
  <2>2. Input' = Input
    BY <2>1 DEF Input
  <2> QED
    BY <2>1, <2>2 DEF ValidationInv
<1>3. CASE V!IterErrors
  <2>1. /\ step = "validate" /\ V!Current \in 1..Len(shared)
        /\ UNCHANGED <<options, defaults, shared, applied_defaults, value>>
        /\ applied_schemas' = applied_schemas \cup V!Collected
    BY <1>0, <1>3 DEF V!IterErrors, V!inputs
  <2>2. Input' = Input
    BY <2>1 DEF Input
  <2>3. applied_schemas = Kept(Input, n) /\ Before(Input, applied_defaults, value, n)
    BY <2>1 DEF ValidationInv
  <2>4. shared[V!Current] \in V!Instance
    BY <2>1 DEF ValidationInv
  <2>5. applied_schemas' = Kept(Input, n + 1)
    <3>1. ASSUME NEW e \in V!Collected PROVE e \in Kept(Input, n + 1)
      <4>1. PICK s \in shared[n + 1].applies : e = <<n + 1, s>> /\ shared[n + 1].judged # "invalid"
        BY <1>0 DEF V!Collected
      <4>2. s \in Schema
        BY <1>0, <2>4 DEF V!Instance
      <4> QED
        BY <1>0, <4>1, <4>2 DEF Kept, Input
    <3>2. \A e \in Kept(Input, n + 1) : e[1] \in 1..n => e \in Kept(Input, n)
      BY <1>0 DEF Kept
    <3>3. ASSUME NEW e \in Kept(Input, n + 1), e[1] = n + 1 PROVE e \in V!Collected
      <4>1. /\ e = <<V!Current, e[2]>> /\ e[2] \in shared[V!Current].applies
            /\ shared[V!Current].judged # "invalid"
        BY <1>0, <3>3 DEF Kept, Input
      <4> QED
        BY <4>1 DEF V!Collected
    <3>4. \A e \in Kept(Input, n + 1) : e[1] \in 1..n \/ e[1] = n + 1
      BY <1>0 DEF Kept
    <3>5. Kept(Input, n) \subseteq Kept(Input, n + 1)
      BY <1>0 DEF Kept
    <3> QED
      BY <2>1, <2>3, <3>1, <3>2, <3>3, <3>4, <3>5
  <2>6. CASE shared[V!Current].judged = "invalid"
    <3>1. verdict' = Append(verdict, FALSE) /\ step' = step
      BY <1>3, <2>6 DEF V!IterErrors
    <3>2. Len(verdict') = n + 1 /\ verdict' \in Seq(BOOLEAN) /\ verdict'[n + 1] = FALSE
          /\ \A i \in 1..n : verdict'[i] = verdict[i]
      BY <3>1 DEF ValidationInv
    <3>3. Reason(Input, n + 1)
      BY <1>0, <2>6 DEF Reason, Input
    <3>4. Owed(Input, n + 1) = Owed(Input, n)
      BY <1>0, <2>6 DEF Owed, Input
    <3>5. Before(Input, applied_defaults, value, n + 1)
      <4>1. \A i \in DOMAIN Input.shared : i \in Nat /\ (i > n + 1 => i > n)
        BY <1>0 DEF Input
      <4> QED
        BY <2>3, <3>4, <4>1 DEF Before
    <3>6. \A i \in 1..Len(verdict') : ~verdict'[i] <=> Reason(Input', i)
      <4>1. SUFFICES ASSUME NEW i \in 1..n + 1 PROVE ~verdict'[i] <=> Reason(Input, i)
        BY <2>2, <3>2
      <4>2. CASE i = n + 1
        BY <3>2, <3>3, <4>2
      <4>3. CASE i \in 1..n
        BY <3>2, <4>3 DEF ValidationInv
      <4> QED
        BY <1>0, <4>2, <4>3
    <3>7. applied_schemas' = Kept(Input', Len(verdict')) /\ Before(Input', applied_defaults', value', Len(verdict'))
      BY <2>1, <2>2, <2>5, <3>2, <3>5
    <3> QED
      BY <1>0, <2>1, <3>1, <3>2, <3>6, <3>7 DEF ValidationInv
  <2>7. CASE shared[V!Current].judged # "invalid"
    <3>1. step' = "complete" /\ verdict' = verdict
      BY <1>3, <2>7 DEF V!IterErrors
    <3>2. V!Current' = V!Current
      BY <3>1 DEF V!Current
    <3>3. applied_schemas' = Kept(Input', V!Current')
      BY <1>0, <2>2, <2>5, <3>2
    <3>4. Before(Input', applied_defaults', value', Len(verdict'))
      BY <2>1, <2>2, <2>3, <3>1
    <3>5. \A i \in 1..Len(verdict') : ~verdict'[i] <=> Reason(Input', i)
      BY <1>0, <2>2, <3>1 DEF ValidationInv
    <3> QED
      BY <2>1, <2>7, <3>1, <3>2, <3>3, <3>4, <3>5 DEF ValidationInv
  <2> QED
    BY <2>6, <2>7
<1>4. CASE V!Complete
  <2>1. /\ step = "complete" /\ step' = "check" /\ ~V!DefaultsFail
        /\ applied_defaults' = applied_defaults \cup V!Missing
        /\ value' = V!WithDefaults(applied_defaults \cup V!Missing)
        /\ UNCHANGED <<options, defaults, shared, applied_schemas, verdict>>
    BY <1>4 DEF V!Complete, V!inputs
  <2>2. Input' = Input /\ V!Current' = V!Current
    BY <2>1 DEF Input, V!Current
  <2>3. applied_defaults' = Owed(Input, V!Current) /\ ~Spoilt(Input, V!Current)
    BY <2>1, CompleteMeans
  <2>4. value' = V!WithDefaults(Owed(Input, V!Current))
    BY <2>1, CompleteMeans
  <2>5. \A i \in DOMAIN shared : V!Typed[i] = None <=> value[i] = None
    BY DEF Inputs, V!Typed
  <2>6. Before(Input, applied_defaults, value, n) /\ V!Current \in 1..Len(shared)
    BY <2>1 DEF ValidationInv
  <2>7. \A e \in Owed(Input, V!Current) : defaults[e[2]] # None /\ shared[e[1]].given = None
    BY DEF Owed, Input
  <2>8. ASSUME NEW i \in DOMAIN shared
        PROVE  /\ shared[i].given # None => value'[i] # None
               /\ i > V!Current => value'[i] = shared[i].given
               /\ shared[i].given = None /\ value'[i] # None =>
                     \E s \in Schema : <<i, s>> \in Owed(Input, V!Current)
    <3>1. CASE \E s \in Schema : <<i, s>> \in Owed(Input, V!Current)
      <4>1. PICK s \in Schema : <<i, s>> \in Owed(Input, V!Current) /\ value'[i] = defaults[s]
        BY <2>4, <3>1 DEF V!WithDefaults
      <4>2. shared[i].given = None /\ i \in 1..V!Current
        BY <4>1 DEF Owed, Input
      <4> QED
        BY <1>0, <3>1, <4>2
    <3>2. CASE ~\E s \in Schema : <<i, s>> \in Owed(Input, V!Current)
      <4>1. value'[i] = V!Typed[i]
        BY <2>4, <3>2 DEF V!WithDefaults
      <4>2. ~\E s \in Schema : <<i, s>> \in Owed(Input, n)
        <5>1. Owed(Input, n) \subseteq Owed(Input, n + 1)
          BY <1>0, OwedGrows
        <5> QED
          BY <1>0, <3>2, <5>1
      <4>3. shared[i].given # None => value'[i] # None
        BY <2>5, <2>6, <4>1 DEF Before, Input
      <4>4. shared[i].given = None => value'[i] = None
        BY <2>5, <2>6, <4>1, <4>2 DEF Before, Input
      <4>5. i > V!Current => value'[i] = shared[i].given
        <5>1. i > V!Current => \A s \in Schema : <<i, s>> \notin applied_schemas
          BY <1>0, <2>1 DEF ValidationInv, Kept, Input
        <5>2. i > V!Current => V!Typed[i] = value[i]
          BY <5>1 DEF V!Typed
        <5> QED
          BY <1>0, <2>6, <4>1, <5>2 DEF Before, Input
      <4> QED
        BY <4>3, <4>4, <4>5
    <3> QED
      BY <3>1, <3>2
  <2>9. \A e \in Owed(Input, V!Current) : defaults[e[2]] # Bad
    BY <2>3 DEF Spoilt, Input
  <2>10. Before(Input', applied_defaults', value', V!Current')
    <3>1. \A e \in Owed(Input', V!Current') : Input'.defaults[e[2]] = Bad => value'[e[1]] = None
      <4>1. Input.defaults = defaults
        BY DEF Input
      <4> QED
        BY <2>2, <2>9, <4>1
    <3>2. applied_defaults' = Owed(Input', V!Current')
      BY <2>2, <2>3
    <3>3. Input.shared = shared
      BY DEF Input
    <3> QED
      BY <2>2, <2>8, <3>1, <3>2, <3>3 DEF Before
  <2>11. DOMAIN value' = DOMAIN shared'
    BY <2>1 DEF V!WithDefaults
  <2>12. ~Spoilt(Input', V!Current') /\ Kept(Input', V!Current') = Kept(Input, V!Current)
    BY <2>2, <2>3
  <2>13. \A i \in 1..Len(verdict') : ~verdict'[i] <=> Reason(Input', i)
    BY <1>0, <2>1, <2>2 DEF ValidationInv
  <2> QED
    BY <1>0, <2>1, <2>2, <2>10, <2>11, <2>12, <2>13 DEF ValidationInv
<1>5. CASE V!CompleteFails
  <2>1. /\ step = "complete" /\ step' = "validate" /\ V!DefaultsFail
        /\ applied_defaults' = applied_defaults \cup V!Missing
        /\ value' = V!Typed /\ verdict' = Append(verdict, FALSE)
        /\ UNCHANGED <<options, defaults, shared, applied_schemas>>
    BY <1>5 DEF V!CompleteFails, V!inputs
  <2>2. Input' = Input
    BY <2>1 DEF Input
  <2>3. applied_defaults' = Owed(Input, n + 1) /\ Spoilt(Input, n + 1)
    BY <1>0, <2>1, CompleteMeans
  <2>4. \A i \in DOMAIN shared : V!Typed[i] = None <=> value[i] = None
    BY DEF Inputs, V!Typed
  <2>5. Before(Input, applied_defaults, value, n) /\ n + 1 \in 1..Len(shared) /\ applied_schemas = Kept(Input, n + 1)
    BY <1>0, <2>1 DEF ValidationInv
  <2>6. Len(verdict') = n + 1 /\ verdict' \in Seq(BOOLEAN) /\ verdict'[n + 1] = FALSE
        /\ \A i \in 1..n : verdict'[i] = verdict[i]
    BY <2>1 DEF ValidationInv
  <2>7. \A i \in 1..Len(verdict') : ~verdict'[i] <=> Reason(Input', i)
    <3>1. SUFFICES ASSUME NEW i \in 1..n + 1 PROVE ~verdict'[i] <=> Reason(Input, i)
      BY <2>2, <2>6
    <3>2. CASE i = n + 1
      BY <2>3, <2>6, <3>2 DEF Reason, Input
    <3>3. CASE i \in 1..n
      BY <2>6, <3>3 DEF ValidationInv
    <3> QED
      BY <1>0, <3>2, <3>3
  <2>8. ASSUME NEW i \in DOMAIN shared
        PROVE  /\ shared[i].given # None => value'[i] # None
               /\ i > n + 1 => value'[i] = shared[i].given
               /\ shared[i].given = None /\ value'[i] # None => \E s \in Schema : <<i, s>> \in Owed(Input, n + 1)
    <3>1. shared[i].given # None => value'[i] # None
      BY <2>1, <2>4, <2>5 DEF Before, Input
    <3>2. i > n + 1 => value'[i] = shared[i].given
      <4>1. i > n + 1 => \A s \in Schema : <<i, s>> \notin applied_schemas
        BY <1>0, <2>5 DEF Kept, Input
      <4>2. i > n + 1 => V!Typed[i] = value[i]
        BY <4>1 DEF V!Typed
      <4> QED
        BY <1>0, <2>1, <2>5, <4>2 DEF Before, Input
    <3>3. shared[i].given = None /\ value'[i] # None => \E s \in Schema : <<i, s>> \in Owed(Input, n)
      BY <2>1, <2>4, <2>5 DEF Before, Input
    <3>4. Owed(Input, n) \subseteq Owed(Input, n + 1)
      BY <1>0, OwedGrows
    <3> QED
      BY <3>1, <3>2, <3>3, <3>4
  <2>9. ASSUME NEW e \in Owed(Input, n + 1), defaults[e[2]] = Bad PROVE value'[e[1]] = None
    <3>1. e[1] \in DOMAIN shared /\ e[1] \in 1..n + 1 /\ shared[e[1]].given = None
      BY <1>0, <2>5 DEF Owed, Input
    <3>2. value[e[1]] = None
      <4>1. CASE e[1] <= n
        <5>1. e \in Owed(Input, n)
          BY <1>0, <4>1, OwedGrows
        <5> QED
          BY <2>5, <2>9, <5>1 DEF Before, Input
      <4>2. CASE e[1] > n
        BY <2>5, <3>1, <4>2 DEF Before, Input
      <4> QED
        BY <1>0, <3>1, <4>1, <4>2
    <3> QED
      BY <2>1, <2>4, <3>1, <3>2
  <2>10. Before(Input', applied_defaults', value', n + 1)
    <3>1. Owed(Input', n + 1) = Owed(Input, n + 1) /\ n' = n + 1
      BY <1>0, <2>2, <2>6
    <3>2. \A e \in Owed(Input', n + 1) : defaults'[e[2]] = Bad => value'[e[1]] = None
      BY <2>1, <2>9, <3>1
    <3> QED
      BY <2>1, <2>3, <2>8, <3>1, <3>2 DEF Before, Input
  <2>11. applied_schemas' = Kept(Input', Len(verdict')) /\ Before(Input', applied_defaults', value', Len(verdict'))
    BY <1>0, <2>1, <2>2, <2>5, <2>6, <2>10
  <2>12. DOMAIN value' = DOMAIN shared'
    BY <2>1 DEF V!Typed
  <2> QED
    BY <1>0, <2>1, <2>5, <2>6, <2>7, <2>11, <2>12 DEF ValidationInv
<1>6. CASE V!Check
  <2>1. /\ step = "check" /\ step' = "validate"
        /\ verdict' = Append(verdict, ~(options.unstringify \/ options.defaults)
                                          \/ shared[V!Current].judged = "valid")
        /\ UNCHANGED <<options, defaults, shared, applied_schemas, applied_defaults, value>>
    BY <1>6 DEF V!Check, V!inputs
  <2>2. Input' = Input
    BY <2>1 DEF Input
  <2>3. Before(Input, applied_defaults, value, n + 1) /\ ~Spoilt(Input, n + 1) /\ applied_schemas = Kept(Input, n + 1) /\ n + 1 \in 1..Len(shared)
        /\ shared[n + 1].judged # "invalid"
    BY <1>0, <2>1 DEF ValidationInv
  <2>4. shared[n + 1] \in V!Instance
    BY <2>3 DEF ValidationInv
  <2>5. options.defaults \in BOOLEAN /\ options.unstringify \in BOOLEAN
    BY DEF ValidationInv, Inputs
  <2>6. Len(verdict') = n + 1 /\ verdict' \in Seq(BOOLEAN)
        /\ verdict'[n + 1] = (~(options.unstringify \/ options.defaults)
                                  \/ shared[n + 1].judged = "valid")
        /\ \A i \in 1..n : verdict'[i] = verdict[i]
    BY <1>0, <2>1 DEF ValidationInv
  <2>7. ~verdict'[n + 1] <=> Reason(Input, n + 1)
    BY <2>3, <2>4, <2>5, <2>6 DEF Reason, V!Instance, Input
  <2>8. \A i \in 1..Len(verdict') : ~verdict'[i] <=> Reason(Input', i)
    <3>1. SUFFICES ASSUME NEW i \in 1..n + 1 PROVE ~verdict'[i] <=> Reason(Input, i)
      BY <2>2, <2>6
    <3>2. CASE i = n + 1
      BY <2>7, <3>2
    <3>3. CASE i \in 1..n
      BY <2>6, <3>3 DEF ValidationInv
    <3> QED
      BY <1>0, <3>2, <3>3
  <2>9. applied_schemas' = Kept(Input', Len(verdict')) /\ Before(Input', applied_defaults', value', Len(verdict'))
    BY <1>0, <2>1, <2>2, <2>3, <2>6
  <2> QED
    BY <1>0, <2>1, <2>3, <2>6, <2>8, <2>9 DEF ValidationInv
<1>7. CASE V!Report
  <2>1. /\ step' = "done"
        /\ UNCHANGED <<options, defaults, shared, applied_schemas, applied_defaults, value, verdict>>
    BY <1>7 DEF V!Report, V!inputs
  <2>2. Input' = Input
    BY <2>1 DEF Input
  <2> QED
    BY <2>1, <2>2 DEF ValidationInv
<1> QED
  BY <1>1, <1>2, <1>3, <1>4, <1>5, <1>6, <1>7 DEF V!Next

\* It holds of the program from its first state on.
LEMMA ValidationKept ==
    ASSUME Inputs
    PROVE  ProgramsSpec => [](program = "validation" => ValidationInv)
<1> DEFINE IInv == program = "validation" => ValidationInv
<1>1. ProgramsInit => IInv
  <2> SUFFICES ASSUME V!Init PROVE ValidationInv
    BY ProgramsBegin
  <2>1. /\ options \in Options /\ shared \in Seq(V!Instance) /\ step = "main" /\ verdict = <<>>
        /\ applied_schemas = {} /\ applied_defaults = {}
        /\ value = [i \in DOMAIN shared |-> shared[i].given]
    BY DEF V!Init, Inputs
  <2>2. Len(verdict) = 0 /\ verdict \in Seq(BOOLEAN) /\ Len(shared) \in Nat
    BY <2>1
  <2>3. Owed(Input, 0) = {} /\ Kept(Input, 0) = {}
    BY DEF Owed, Kept, Input
  <2>4. Before(Input, applied_defaults, value, 0)
    BY <2>1, <2>3 DEF Before, Input
  <2> QED
    BY <2>1, <2>2, <2>3, <2>4 DEF ValidationInv
<1>2. IInv /\ [ProgramsNext]_all => IInv'
  BY ProgramsStep, ValidationStep
<1> QED
  BY <1>1, <1>2, PTL DEF ProgramsSpec

\* A shared instance is refused for what it is itself, or for defaults of an earlier one that
\* could not be added, and for nothing else: for any instances, options, schemas and defaults.
THEOREM RefusalsHaveAReason ==
    ASSUME Inputs
    PROVE  ProgramsSpec => []RefusedForAReason
<1> DEFINE IInv == program = "validation" => ValidationInv
<1>1. IInv => RefusedForAReason
  <2> SUFFICES ASSUME ValidationInv, NEW i \in DOMAIN verdict
               PROVE  ~verdict[i] <=>
                         \/ shared[i].judged = "invalid"
                         \/ shared[i].judged = "invalid with defaults"
                               /\ (options.defaults \/ options.unstringify)
                         \/ \E j \in 1..i : V!Poisons(j)
    BY DEF V!RefusedForAReason, RefusedForAReason
  <2>1. i \in 1..Len(verdict) /\ i \in 1..Len(shared)
    BY DEF ValidationInv
  <2>2. ~verdict[i] <=> Reason(Input, i)
    BY <2>1 DEF ValidationInv
  <2>3. Spoilt(Input, i) <=> \E j \in 1..i : V!Poisons(j)
    BY <2>1, PoisonMeans
  <2> QED
    BY <2>2, <2>3 DEF Reason, Input
<1> QED
  BY <1>1, ValidationKept, PTL

-----------------------------------------------------------------------------
(* ErrorPages. *)

\* What the slots and the pages are.
PagesConstants ==
    /\ MaxStored \in Nat /\ MaxFailures \in Nat /\ Cluster \notin Ref
    /\ None \notin E!Page /\ Link \notin E!Page \cup {None}
    /\ None \notin [slot : E!Slot, page : E!Page \cup {None}, step : {"open", "write", "publish"}]

\* The types; what is downloaded is in the manifest, and the page of the cluster is no link.
PagesInv ==
    /\ E!TypeOK
    /\ at = "download" => todo \subseteq DOMAIN manifest
    /\ local[Cluster] # Link

\* Every step keeps it.
LEMMA PagesStep ==
    ASSUME PagesConstants, PagesInv, [E!Next]_E!vars
    PROVE  PagesInv'
<1> USE DEF PagesInv, E!TypeOK, E!manager, E!updater, E!frontend
<1>0. /\ MaxStored \in Nat /\ MaxFailures \in Nat /\ Cluster \notin Ref
      /\ Link \notin E!Page \cup {None} /\ Cluster \in E!Slot /\ Ref \subseteq E!Slot
      /\ E!Builtin \in E!Page /\ E!Blank \in E!Page /\ E!IsManifest(E!Nothing)
  BY DEF PagesConstants, E!Slot, E!Page, E!Builtin, E!Blank, E!IsManifest, E!Nothing
<1>F. ASSUME E!Fault PROVE failures' \in 0..MaxFailures
  BY <1>0, <1>F, CountUp DEF E!Fault
<1>R. ASSUME request # None
      PROVE  request.slot \in E!Slot /\ request.page \in E!Page \cup {None}
             /\ request.step \in {"open", "write", "publish"}
  BY <1>R
<1>1. CASE UNCHANGED E!vars
  BY <1>1 DEF E!vars
<1>2. CASE E!StartManager
  <2>1. source' \in [E!Slot -> E!Page \cup {None}]
    BY <1>2 DEF E!StartManager
  <2>2. page' \in [E!Slot -> E!Page \cup {None}]
    BY <1>0, <1>2, <2>1 DEF E!StartManager, E!Publishable
  <2> QED
    BY <1>0, <1>2, <2>1, <2>2 DEF E!StartManager
<1>3. ASSUME NEW s \in E!Slot, E!Receive(s) PROVE PagesInv'
  <2>1. writes' \in 0..MaxStored /\ writes' \in E!Page
    BY <1>0, <1>3, CountUp DEF E!Receive, E!Page, E!Blank
  <2>2. PICK p \in {writes', None} : request' = [slot |-> s, page |-> p, step |-> "open"]
    BY <1>3 DEF E!Receive
  <2> QED
    BY <1>3, <2>1, <2>2 DEF E!Receive
<1>4. CASE E!Open
  <2>1. request' \in [slot : E!Slot, page : E!Page \cup {None}, step : {"open", "write", "publish"}]
    BY <1>4, <1>R DEF E!Open
  <2>2. source' \in [E!Slot -> E!Page \cup {None}]
    BY <1>0, <1>4 DEF E!Open
  <2> QED
    BY <1>4, <2>1, <2>2 DEF E!Open
<1>5. CASE E!Store
  <2>1. request' \in [slot : E!Slot, page : E!Page \cup {None}, step : {"open", "write", "publish"}]
    BY <1>5, <1>R DEF E!Store
  <2>2. source' \in [E!Slot -> E!Page \cup {None}]
    BY <1>5, <1>R DEF E!Store
  <2> QED
    BY <1>5, <2>1, <2>2 DEF E!Store
<1>6. CASE E!StoreFails
  BY <1>6, <1>F DEF E!StoreFails
<1>7. CASE E!PublishPage
  <2>1. E!Publishable(source[request.slot], request.slot) \in E!Page \cup {None}
    BY <1>0, <1>7, <1>R DEF E!PublishPage, E!Publishable
  <2>2. page' \in [E!Slot -> E!Page \cup {None}] /\ dirty' \in BOOLEAN /\ request' = None
    BY <1>7, <2>1 DEF E!PublishPage, E!MarkDirty
  <2> QED
    BY <1>7, <2>2 DEF E!PublishPage
<1>8. CASE E!ManagerDies
  BY <1>8, <1>F DEF E!ManagerDies, E!ManagerStops
<1>9. CASE E!ChangeActive
  <2>1. PICK r \in Ref :
          /\ active' = IF r \in active THEN active \ {r} ELSE active \cup {r}
          /\ local' = [local EXCEPT ![r] = IF r \in active' /\ @ = None THEN Link ELSE @]
    BY <1>9 DEF E!ChangeActive
  <2>2. local' \in [E!Slot -> E!Page \cup {None, Link}] /\ local'[Cluster] = local[Cluster]
    BY <1>0, <2>1
  <2> QED
    BY <1>9, <1>F, <2>1, <2>2 DEF E!ChangeActive, E!ManagerStops
<1>10. CASE E!Sync
  <2>1. E!IsManifest(E!Manifest)
    BY DEF E!Manifest, E!IsManifest
  <2>2. todo' \subseteq DOMAIN E!Manifest /\ todo' \subseteq E!Slot
    BY <1>10, <2>1 DEF E!Sync, E!IsManifest
  <2>3. manifest' = E!Manifest /\ cached' = E!Manifest /\ at' \in {"revert", "download"}
    BY <1>10 DEF E!Sync
  <2>4. E!IsManifest(manifest)' /\ E!IsManifest(cached)' /\ E!IsManifest(state)'
    BY <1>10, <2>1, <2>3 DEF E!Sync, E!IsManifest
  <2> QED
    BY <1>10, <2>2, <2>3, <2>4 DEF E!Sync
<1>11. ASSUME NEW s \in E!Slot, E!Download(s) PROVE PagesInv'
  <2>1. /\ todo' = todo \ {s} /\ s \in DOMAIN manifest /\ todo' \subseteq DOMAIN manifest
        /\ at' \in {"revert", "download"} /\ manifest' = manifest
    BY <1>11 DEF E!Download, E!NextDownload
  <2>2. page[s] \in E!Page /\ local' \in [E!Slot -> E!Page \cup {None, Link}] /\ local'[Cluster] # Link
    BY <1>0, <1>11 DEF E!Download
  <2>3. E!IsManifest(state)'
    BY <1>11, <2>1 DEF E!Download, E!IsManifest
  <2> QED
    BY <1>11, <2>1, <2>2, <2>3 DEF E!Download
<1>12. ASSUME NEW s \in E!Slot, E!DownloadFails(s) PROVE PagesInv'
  <2>1. /\ todo' = todo \ {s} /\ todo' \subseteq DOMAIN manifest
        /\ at' \in {"revert", "download"} /\ failures' \in 0..MaxFailures
    BY <1>12, <1>F DEF E!DownloadFails, E!NextDownload
  <2> QED
    BY <1>12, <2>1 DEF E!DownloadFails
<1>13. ASSUME NEW s \in E!Slot, E!Revert(s) PROVE PagesInv'
  <2>1. local' \in [E!Slot -> E!Page \cup {None, Link}] /\ local'[Cluster] # Link
    BY <1>0, <1>13 DEF E!Revert
  <2>2. E!IsManifest(state)'
    BY <1>13 DEF E!Revert, E!IsManifest
  <2> QED
    BY <1>13, <2>1, <2>2 DEF E!Revert
<1>14. CASE E!SaveState
  BY <1>14 DEF E!SaveState
<1>15. CASE E!Reload
  <2>1. \A s \in E!Slot : E!Loaded(s) \in E!Page \cup {None}
    BY <1>0 DEF E!Loaded
  <2>2. haproxy' \in [E!Slot -> E!Page \cup {None}]
    BY <1>15, <2>1 DEF E!Reload
  <2> QED
    BY <1>15, <2>2 DEF E!Reload
<1>16. CASE E!UpdaterDies
  <2>1. E!IsManifest(state_file)'
    BY <1>0, <1>16 DEF E!UpdaterDies
  <2>2. interrupted' \in BOOLEAN
    BY <1>16 DEF E!UpdaterDies
  <2> QED
    BY <1>16, <1>F, <2>1, <2>2 DEF E!UpdaterDies
<1>17. active \cup {Cluster} \subseteq E!Slot
  BY <1>0
<1> QED
  BY <1>1, <1>2, <1>3, <1>4, <1>5, <1>6, <1>7, <1>8, <1>9, <1>10, <1>11, <1>12, <1>13, <1>14, <1>15,
     <1>16, <1>17 DEF E!Next, E!ManagerStep, E!UpdaterStep

\* It holds of the program from its first state on.
LEMMA PagesKept ==
    ASSUME PagesConstants
    PROVE  ProgramsSpec => [](program = "error pages" => PagesInv)
<1> DEFINE IInv == program = "error pages" => PagesInv
<1>1. ProgramsInit => IInv
  <2> SUFFICES ASSUME E!Init PROVE PagesInv
    BY ProgramsBegin
  <2>1. E!Builtin \in E!Page /\ E!IsManifest(E!Nothing) /\ Link # E!Builtin
    BY DEF PagesConstants, E!Page, E!Builtin, E!Blank, E!IsManifest, E!Nothing
  <2>2. writes \in 0..MaxStored /\ failures \in 0..MaxFailures
    BY DEF E!Init, PagesConstants
  <2>3. local \in [E!Slot -> E!Page \cup {None, Link}] /\ local[Cluster] # Link
    BY <2>1 DEF E!Init, E!Slot
  <2> QED
    BY <2>1, <2>2, <2>3 DEF E!Init, PagesInv, E!TypeOK
<1>2. IInv /\ [ProgramsNext]_all => IInv'
  BY ProgramsStep, PagesStep
<1> QED
  BY <1>1, <1>2, PTL DEF ProgramsSpec

-----------------------------------------------------------------------------
(* Numbers. *)

\* A set of numbers that is not empty has a least one: what replaces an induction here.
LEMMA Least == ASSUME NEW found_, found_ \subseteq Nat, found_ # {} PROVE \E x \in found_ : \A y \in found_ : x <= y
<1> DEFINE R_ == OpToRel(<, Nat)
<1>1. IsWellFoundedOn(R_, Nat)
  BY NatLessThanWellFounded
<1> HIDE DEF R_
<1>2. PICK x \in found_ : \A y \in found_ : ~(<<y, x>> \in R_)
  BY <1>1, WFMin
<1>3. \A y \in found_ : ~(y < x)
  BY <1>2 DEF R_, OpToRel
<1> QED
  BY <1>3

-----------------------------------------------------------------------------
(* Radio. *)

\* Serial numbers are numbers, the bits are those of the schema of gnb_id_bits ("range 22 to
\* 32"), no cell has more than four antennas, and what the user sets is a number or unset.
RadioConstants ==
    /\ Serial \subseteq Nat /\ GnbIdBits \subseteq 22..32 /\ Antennas \subseteq 0..4
    /\ Settings \subseteq O!Setting

\* The powers of two that the bits give: eight of them leave room for a cell identifier.
LEMMA CellPowers ==
    ASSUME NEW n \in 4..14
    PROVE  2^n \in Nat \ {0} /\ (n >= 8 => 2^n >= 256)
<1>1. /\ 2^4 = 16 /\ 2^5 = 32 /\ 2^6 = 64 /\ 2^7 = 128 /\ 2^8 = 256 /\ 2^9 = 512 /\ 2^10 = 1024
      /\ 2^11 = 2048 /\ 2^12 = 4096 /\ 2^13 = 8192 /\ 2^14 = 16384
  OBVIOUS
<1>2. CASE n = 4
  BY <1>1, <1>2
<1>3. CASE n = 5
  BY <1>1, <1>3
<1>4. CASE n = 6
  BY <1>1, <1>4
<1>5. CASE n = 7
  BY <1>1, <1>5
<1>6. CASE n = 8
  BY <1>1, <1>6
<1>7. CASE n = 9
  BY <1>1, <1>7
<1>8. CASE n = 10
  BY <1>1, <1>8
<1>9. CASE n = 11
  BY <1>1, <1>9
<1>10. CASE n = 12
  BY <1>1, <1>10
<1>11. CASE n = 13
  BY <1>1, <1>11
<1>12. CASE n = 14
  BY <1>1, <1>12
<1> QED
  BY <1>2, <1>3, <1>4, <1>5, <1>6, <1>7, <1>8, <1>9, <1>10, <1>11, <1>12

\* Whoever agree in quotient and remainder are the same.
LEMMA SameQuotient ==
    ASSUME NEW a \in Nat, NEW b \in Nat, NEW m \in Nat \ {0}, a \div m = b \div m, a % m = b % m
    PROVE  a = b
OBVIOUS

\* A number below the divisor has no quotient.
LEMMA SmallQuotient ==
    ASSUME NEW a \in Nat, NEW m \in Nat, a < m
    PROVE  a \div m = 0
OBVIOUS

\* How many channels or devices there are.
LEMMA TwoDevices ==
    /\ O!Cardinality({}) = 0 /\ \A k : O!Cardinality({k}) = 1
    /\ \A k, l : k # l => O!Cardinality({k, l}) = 2
<1>1. \A S : O!Cardinality(S) = Cardinality(S)
  BY DEF O!Cardinality, Cardinality
<1>2. Cardinality({}) = 0 /\ \A k : IsFiniteSet({k}) /\ Cardinality({k}) = 1
  BY FS_EmptySet, FS_Singleton
<1>3. ASSUME NEW k, NEW l, k # l PROVE Cardinality({k, l}) = 2
  <2>1. l \notin {k} /\ {k} \cup {l} = {k, l} /\ IsFiniteSet({k})
    BY <1>2, <1>3
  <2>2. Cardinality({k} \cup {l}) = Cardinality({k}) + 1
    BY <2>1, FS_AddElement
  <2>3. \A S : S = {k} \cup {l} => Cardinality(S) = 2
    BY <1>2, <2>2
  <2> QED
    BY <2>1, <2>3, Zenon
<1> QED
  BY <1>1, <1>2, <1>3

\* The channels that may be detected.
LEMMA Channels ==
    ASSUME request.detected \subseteq {0, 1}
    PROVE  /\ O!SdrCount \in 0..2
           /\ O!SdrCount = 2 => request.detected = {0, 1}
           /\ O!SdrCount = 1 /\ 0 \in request.detected => request.detected = {0}
<1>1. request.detected \in {{}, {0}, {1}, {0, 1}}
  OBVIOUS
<1>2. O!Cardinality({}) = 0 /\ O!Cardinality({0}) = 1 /\ O!Cardinality({1}) = 1
  BY TwoDevices, Zenon
<1>3. 0 # 1
  OBVIOUS
<1>4. O!Cardinality({0, 1}) = 2
  BY <1>3, TwoDevices, Zenon
<1> QED
  BY <1>1, <1>2, <1>4 DEF O!SdrCount

\* The type of a cell.
TypeOf(c) == IF request.sr_type = "ue" THEN request.choice[1] ELSE request.choice[c]

Selected(c) == [O!Fresh EXCEPT !.enabled = O!Enabled(c), !.type = TypeOf(c)]

\* What configure_rf_parameters made of a cell.
Configured(c) ==
    /\ cells[c].enabled = O!Enabled(c) /\ cells[c].type = TypeOf(c)
    /\ cells[c].devices = IF c <= O!SdrCount THEN <<O!SdrDev(c)>> ELSE <<>>
    /\ cells[c].enabled => /\ cells[c].pci = O!Pci(c) /\ cells[c].root = O!RootSequence(c)
                           /\ cells[c].cell_id = O!CellId(c)
    /\ cells[c].global = IF cells[c].enabled /\ cells[c].type # "NB" THEN O!GlobalId(c) ELSE None

\* The parts of the function, in order: each starts from what the part before left.
RadioInv ==
    /\ request.sn \in Nat /\ request.bits \in 22..32 /\ request.antennas \in 0..4
    /\ request.detected \subseteq {0, 1} /\ request.setting \in O!Setting
    /\ step \in {"cells", "configure", "share", "merge", "done", "failed"}
    /\ step = "configure" => \A c \in O!Cell : cells[c] = Selected(c)
    /\ step \in {"share", "merge", "done"} => \A c \in O!Cell : Configured(c)
    /\ step \in {"merge", "done"} /\ request.sr_type # "ue" =>
          ~O!ShareFails /\ shared_list = O!Foreign \cup O!NodeList

\* SelectCells chooses, ConfigureRfParameters configures, Share hands over; what was
\* configured stays.
LEMMA RadioStep ==
    ASSUME RadioInv, [O!Next]_O!vars
    PROVE  RadioInv'
<1>1. CASE UNCHANGED O!vars
  <2>1. UNCHANGED <<request, cells, shared_list, step>>
    BY <1>1 DEF O!vars
  <2>2. \A c : (Configured(c) <=> Configured(c)') /\ Selected(c)' = Selected(c)
    BY <2>1 DEF Configured, Selected, TypeOf, O!Enabled, O!SdrCount, O!Pci, O!RootSequence, O!CellId,
           O!GlobalId, O!NodeId, O!IsNr, O!Doubled, O!SdrDev, O!Channel, O!Own, O!SetDefault
  <2>3. O!ShareFails' = O!ShareFails /\ O!Foreign' = O!Foreign /\ O!NodeList' = O!NodeList
    BY <2>1 DEF O!ShareFails, O!ManyAntennas, O!SdrCount, O!Foreign, O!NodeList, O!Devices
  <2> QED
    BY <2>1, <2>2, <2>3 DEF RadioInv
<1>2. CASE O!SelectCells
  <2>1. step' = "configure" /\ request' = request
    BY <1>2 DEF O!SelectCells
  <2>2. \A c \in O!Cell : cells'[c] = Selected(c)'
    BY <1>2 DEF O!SelectCells, Selected, TypeOf, O!Enabled, O!SdrCount
  <2> QED
    BY <2>1, <2>2 DEF RadioInv
<1>3. CASE O!ConfigureRfParameters
  <2>1. step = "configure" /\ step' = "share" /\ request' = request
    BY <1>3 DEF O!ConfigureRfParameters
  <2>2. ASSUME NEW c \in O!Cell PROVE Configured(c)'
    <3>1. cells[c] = [enabled |-> O!Enabled(c), type |-> TypeOf(c), devices |-> <<>>, pci |-> None,
                      root |-> None, cell_id |-> None, global |-> None]
      BY <2>1 DEF RadioInv, Selected, O!Fresh
    <3>2. cells'[c] = [cells[c] EXCEPT
                !.devices = IF c <= O!SdrCount THEN <<O!SdrDev(c)>> ELSE <<>>,
                !.pci     = IF cells[c].enabled THEN O!Pci(c) ELSE None,
                !.root    = IF cells[c].enabled THEN O!RootSequence(c) ELSE None,
                !.cell_id = IF cells[c].enabled THEN O!CellId(c) ELSE None,
                !.global  = IF cells[c].enabled /\ cells[c].type # "NB"
                            THEN O!GlobalId(c) ELSE None]
      BY <1>3 DEF O!ConfigureRfParameters
    <3>3. /\ cells'[c].enabled = O!Enabled(c) /\ cells'[c].type = TypeOf(c)
          /\ cells'[c].devices = IF c <= O!SdrCount THEN <<O!SdrDev(c)>> ELSE <<>>
          /\ O!Enabled(c) => /\ cells'[c].pci = O!Pci(c) /\ cells'[c].root = O!RootSequence(c)
                             /\ cells'[c].cell_id = O!CellId(c)
          /\ cells'[c].global = IF O!Enabled(c) /\ TypeOf(c) # "NB" THEN O!GlobalId(c) ELSE None
      BY <3>1, <3>2
    <3>4. cells'[c].type = cells[c].type
      BY <3>1, <3>3
    <3>5. /\ O!Pci(c)' = O!Pci(c) /\ O!RootSequence(c)' = O!RootSequence(c) /\ O!CellId(c)' = O!CellId(c)
          /\ O!GlobalId(c)' = O!GlobalId(c)
      BY <2>1, <3>4 DEF O!Pci, O!RootSequence, O!CellId, O!GlobalId, O!NodeId, O!IsNr, O!Doubled,
             O!Own, O!SetDefault
    <3>6. /\ O!Enabled(c)' = O!Enabled(c) /\ TypeOf(c)' = TypeOf(c) /\ O!SdrCount' = O!SdrCount
          /\ O!SdrDev(c)' = O!SdrDev(c)
      BY <2>1 DEF O!Enabled, O!SdrCount, TypeOf, O!SdrDev, O!Channel, O!SetDefault
    <3> QED
      BY <3>3, <3>5, <3>6 DEF Configured
  <2> QED
    BY <2>1, <2>2 DEF RadioInv
<1>4. ASSUME UNCHANGED <<request, cells>>, step' \in {"merge", "done", "failed"}, step \in {"share", "merge"},
             step' = "failed" \/ request.sr_type = "ue" \/
                (~O!ShareFails /\ shared_list' = O!Foreign \cup O!NodeList)
      PROVE  RadioInv'
  <2>1. \A c : Configured(c) <=> Configured(c)'
    BY <1>4 DEF Configured, Selected, TypeOf, O!Enabled, O!SdrCount, O!Pci, O!RootSequence, O!CellId,
           O!GlobalId, O!NodeId, O!IsNr, O!Doubled, O!SdrDev, O!Channel, O!Own, O!SetDefault
  <2>2. O!ShareFails' = O!ShareFails /\ O!Foreign' = O!Foreign /\ O!NodeList' = O!NodeList
    BY <1>4 DEF O!ShareFails, O!ManyAntennas, O!SdrCount, O!Foreign, O!NodeList, O!Devices
  <2> QED
    BY <1>4, <2>1, <2>2 DEF RadioInv
<1>5. CASE O!Share
  BY <1>4, <1>5 DEF O!Share
<1>6. CASE O!ShareUe
  BY <1>4, <1>6 DEF O!ShareUe
<1>7. CASE O!Fail
  BY <1>4, <1>7 DEF O!Fail
<1>8. CASE O!PublishMergeCell
  BY <1>4, <1>8 DEF O!PublishMergeCell, RadioInv
<1> QED
  BY <1>1, <1>2, <1>3, <1>5, <1>6, <1>7, <1>8 DEF O!Next

\* The identifiers of the two cells are apart by less than their modulus.
LEMMA CellsDiffer ==
    ASSUME RadioInv
    PROVE  O!CellsOfABoxDiffer
<1> SUFFICES ASSUME step \in {"merge", "done"} PROVE O!CellsOfABoxDiffer
  BY DEF O!CellsOfABoxDiffer
<1>1. Configured(1) /\ Configured(2) /\ request.sn \in Nat
  BY DEF RadioInv, O!Cell
<1> DEFINE n(c) == IF O!IsNr(c) THEN 36 - request.bits ELSE 8
           unset(k) == \A c \in O!Cell : O!Own(c)[k] = None
<1>0. ASSUME NEW c \in O!Cell
      PROVE  /\ request.setting \in O!Setting /\ O!Own(c).cell_id \in Nat \cup {None}
             /\ request.setting.enb \in Nat \cup {None} /\ request.setting.gnb \in Nat \cup {None}
  BY DEF RadioInv, O!Setting, O!Own, O!OwnId
<1>2. /\ unset("cell_id") => O!CellId(1) # O!CellId(2)
      /\ \A c \in O!Cell : O!CellId(c) \in Nat /\ (O!Own(c).cell_id = None => O!CellId(c) \in 0..255)
  <2>1. /\ O!CellId(1) = O!SetDefault(O!Own(1).cell_id, request.sn % 256)
        /\ O!CellId(2) = O!SetDefault(O!Own(2).cell_id, (request.sn + 128) % 256)
    BY <1>1 DEF O!CellId
  <2>2. request.sn % 256 # (request.sn + 128) % 256
    BY <1>1
  <2>3. \A k \in Nat : k % 256 \in 0..255
    OBVIOUS
  <2>4. request.sn % 256 \in 0..255 /\ (request.sn + 128) % 256 \in 0..255
    BY <1>1, <2>3
  <2>5. \A c \in O!Cell : c = 1 \/ c = 2
    BY DEF O!Cell
  <2>6. unset("cell_id") => O!Own(1).cell_id = None /\ O!Own(2).cell_id = None
    BY DEF O!Cell
  <2>7. unset("cell_id") => O!CellId(1) # O!CellId(2)
    BY <2>1, <2>2, <2>6 DEF O!SetDefault
  <2>8. \A c \in O!Cell : O!CellId(c) \in Nat /\ (O!Own(c).cell_id = None => O!CellId(c) \in 0..255)
    BY <1>0, <2>1, <2>4, <2>5 DEF O!SetDefault
  <2> QED
    BY <2>7, <2>8
<1>3. unset("root") => O!RootSequence(1) # O!RootSequence(2)
  <2>1. request.sn % 138 # (request.sn + 79) % 138
    BY <1>1
  <2>2. unset("root") => O!Own(1).root = None /\ O!Own(2).root = None
    BY DEF O!Cell
  <2> QED
    BY <1>1, <2>1, <2>2 DEF O!RootSequence, O!SetDefault
<1>4. ASSUME unset("pci"), O!IsNr(1) = O!IsNr(2) PROVE O!Pci(1) # O!Pci(2)
  <2>0. O!Own(1).pci = None /\ O!Own(2).pci = None
    BY <1>4 DEF O!Cell
  <2>1. request.sn % 504 # (request.sn + 252) % 504 /\ request.sn % 1008 # (request.sn + 504) % 1008
    BY <1>1
  <2>2. O!Doubled(1) = O!Doubled(2) /\ O!Doubled(1) \in {1, 2}
    BY <1>4 DEF O!Doubled
  <2>3. CASE O!Doubled(1) = 1
    BY <1>1, <2>0, <2>1, <2>2, <2>3 DEF O!Pci, O!SetDefault
  <2>4. CASE O!Doubled(1) = 2
    BY <1>1, <2>0, <2>1, <2>2, <2>4 DEF O!Pci, O!SetDefault
  <2> QED
    BY <2>2, <2>3, <2>4
<1>5. \A c \in O!Cell : O!NodeId(c) \in Nat
  <2>1. (request.sn + 2^19) % 2^20 \in Nat /\ request.sn % 2^20 \in Nat
    BY <1>1
  <2> QED
    BY <1>0, <2>1 DEF O!NodeId, O!SetDefault
<1>6. \A c \in O!Cell : n(c) \in 4..14
  BY DEF RadioInv
<1>7. \A c \in O!Cell : O!GlobalId(c) = <<O!NodeId(c) + O!CellId(c) \div 2^n(c), O!CellId(c) % 2^n(c)>>
  BY DEF O!GlobalId
<1>8. ASSUME unset("cell_id"), cells[1].type = cells[2].type PROVE O!GlobalId(1) # O!GlobalId(2)
  <2>1. O!NodeId(1) = O!NodeId(2) /\ n(1) = n(2)
    BY <1>8 DEF O!NodeId, O!IsNr
  <2> DEFINE m == 2^n(1)
  <2> HIDE DEF n
  <2>2. m \in Nat \ {0}
    <3>1. n(1) \in 4..14
      BY <1>6 DEF O!Cell
    <3>2. \A k \in 4..14 : 2^k \in Nat \ {0}
      BY CellPowers
    <3> QED
      BY <3>1, <3>2
  <2> HIDE DEF m
  <2>3. O!CellId(1) \in Nat /\ O!CellId(2) \in Nat /\ O!NodeId(1) \in Nat
    BY <1>2, <1>5 DEF O!Cell
  <2>4. O!CellId(1) \div m # O!CellId(2) \div m \/ O!CellId(1) % m # O!CellId(2) % m
    BY <1>2, <1>8, <2>2, <2>3, SameQuotient
  <2>5. /\ O!GlobalId(1) = <<O!NodeId(1) + O!CellId(1) \div m, O!CellId(1) % m>>
        /\ O!GlobalId(2) = <<O!NodeId(1) + O!CellId(2) \div m, O!CellId(2) % m>>
    BY <1>7, <2>1 DEF m, O!Cell
  <2>6. O!CellId(1) \div m \in Int /\ O!CellId(2) \div m \in Int
    BY <2>2, <2>3
  <2> QED
    BY <2>3, <2>4, <2>5, <2>6
<1>9. ASSUME NEW c \in O!Cell, cells[c].global # None, O!Own(c).cell_id = None,
             O!IsNr(c) => request.bits <= 28
      PROVE  cells[c].global[1] = O!NodeId(c)
  <2>1. cells[c].global = O!GlobalId(c)
    BY <1>1, <1>9 DEF Configured, O!Cell
  <2>2. n(c) >= 8
    BY <1>9 DEF RadioInv
  <2>3. 2^n(c) >= 256 /\ 2^n(c) \in Nat
    BY <1>6, <2>2, CellPowers
  <2> HIDE DEF n
  <2>4. O!CellId(c) \in Nat /\ O!CellId(c) < 2^n(c)
    BY <1>2, <1>9, <2>3
  <2>5. O!CellId(c) \div 2^n(c) = 0
    BY <2>3, <2>4, SmallQuotient
  <2> QED
    BY <1>5, <1>7, <2>1, <2>5
<1>10. cells[1].enabled /\ cells[2].enabled =>
          /\ unset("cell_id") => cells[1].cell_id # cells[2].cell_id
          /\ unset("root") => cells[1].root # cells[2].root
          /\ unset("pci") /\ O!IsNr(1) = O!IsNr(2) => cells[1].pci # cells[2].pci
          /\ unset("cell_id") /\ cells[1].type = cells[2].type /\ cells[1].type # "NB"
                => cells[1].global # cells[2].global
  BY <1>1, <1>2, <1>3, <1>4, <1>8 DEF Configured
<1> QED
  BY <1>9, <1>10 DEF O!CellsOfABoxDiffer

\* The first cell has the first device, the second the second; or the first has both.
LEMMA UnitsDiffer ==
    ASSUME RadioInv
    PROVE  O!UnitsHaveTheirDevices
<1> SUFFICES ASSUME step \in {"merge", "done"}, request.sr_type # "ue"
             PROVE  O!UnitsHaveTheirDevices
  BY DEF O!UnitsHaveTheirDevices
<1> DEFINE units == {e \in shared_list : e.kind = "ru"}
           used_(e) == {e.devices[i] : i \in DOMAIN e.devices}
           Unit(c) == [kind |-> "ru", ref |-> c, devices |-> O!Devices(c)]
           on == {c \in O!Cell : cells[c].enabled}
<1>1. /\ \A c \in O!Cell : Configured(c)
      /\ ~O!ShareFails /\ shared_list = O!Foreign \cup O!NodeList
  BY DEF RadioInv
<1>2. /\ O!SdrCount \in 0..2 /\ (O!SdrCount = 2 => request.detected = {0, 1})
      /\ (O!SdrCount = 1 /\ 0 \in request.detected => request.detected = {0})
  BY Channels DEF RadioInv
<1>3. units = {Unit(c) : c \in on}
  BY <1>1 DEF O!Foreign, O!NodeList
<1>4. {x \in shared_list : x.kind = "cell"} = {[kind |-> "cell", ref |-> c] : c \in on}
  BY <1>1 DEF O!Foreign, O!NodeList
<1>5. {e.ref : e \in units} = on /\ {e.ref : e \in {x \in shared_list : x.kind = "cell"}} = on
  <2>1. \A c \in on : Unit(c).ref = c /\ [kind |-> "cell", ref |-> c].ref = c
    OBVIOUS
  <2> HIDE DEF units, Unit, on
  <2>2. /\ \A e \in units : e.ref \in on
        /\ \A c \in on : \E e \in units : e.ref = c
    BY <1>3, <2>1
  <2> DEFINE items == {x \in shared_list : x.kind = "cell"}
  <2> HIDE DEF items
  <2>3. items = {[kind |-> "cell", ref |-> c] : c \in on}
    BY <1>4 DEF items
  <2>4. /\ \A e \in items : e.ref \in on
        /\ \A c \in on : \E e \in items : e.ref = c
    BY <2>1, <2>3
  <2>5. {e.ref : e \in units} = on /\ {e.ref : e \in items} = on
    BY <2>2, <2>4
  <2> QED
    BY <2>5 DEF items
<1>6. \A c \in on : c <= O!SdrCount
  BY <1>1 DEF Configured, O!Enabled
<1>7. ASSUME O!SdrCount = 2, O!DevicesNamedApart PROVE O!SdrDev(1) # O!SdrDev(2)
  <2>1. O!Channel(1) = 0 /\ O!Channel(2) = 1
    BY <1>2, <1>7 DEF O!Channel
  <2> QED
    BY <1>7, <2>1 DEF O!SdrDev, O!DevicesNamedApart, O!SetDefault
<1>8. ASSUME NEW c \in on
      PROVE  \/ ~O!ManyAntennas /\ used_(Unit(c)) = {O!SdrDev(c)}
             \/ /\ O!ManyAntennas /\ on = {1} /\ c = 1 /\ O!SdrCount = 2
                /\ used_(Unit(c)) = {O!SdrDev(1), O!SdrDev(2)}
  <2>1. CASE ~O!ManyAntennas
    <3>1. O!Devices(c) = <<O!SdrDev(c)>>
      BY <1>1, <1>6, <2>1 DEF O!Devices, Configured, O!Cell
    <3> QED
      BY <2>1, <3>1
  <2>2. CASE O!ManyAntennas
    <3>1. ~cells[2].enabled /\ c = 1 /\ O!SdrCount = 2 /\ on = {1}
      BY <1>1, <1>2, <2>2 DEF O!ShareFails, O!Cell
    <3>2. cells[1].devices = <<O!SdrDev(1)>> /\ cells[2].devices = <<O!SdrDev(2)>>
      BY <1>1, <3>1 DEF Configured, O!Cell
    <3> DEFINE a == O!SdrDev(1)
               b == O!SdrDev(2)
    <3>3. O!Devices(c) = <<a>> \o <<b>>
      BY <2>2, <3>1, <3>2 DEF O!Devices
    <3> HIDE DEF a, b
    <3>4. DOMAIN (<<a>> \o <<b>>) = 1..2 /\ (<<a>> \o <<b>>)[1] = a /\ (<<a>> \o <<b>>)[2] = b
      OBVIOUS
    <3>5. \A i : i \in 1..2 <=> i = 1 \/ i = 2
      OBVIOUS
    <3>6. /\ \A i \in DOMAIN Unit(c).devices : Unit(c).devices[i] \in {a, b}
          /\ \E i \in DOMAIN Unit(c).devices : Unit(c).devices[i] = a
          /\ \E i \in DOMAIN Unit(c).devices : Unit(c).devices[i] = b
      BY <3>3, <3>4, <3>5
    <3> HIDE DEF Unit
    <3>7. used_(Unit(c)) = {a, b}
      BY <3>6
    <3> QED
      BY <2>2, <3>1, <3>7 DEF a, b
  <2> QED
    BY <2>1, <2>2
<1>9. ASSUME O!DevicesNamedApart PROVE \A e, f \in units : e # f => used_(e) \cap used_(f) = {}
  <2> SUFFICES ASSUME NEW c \in on, NEW d \in on, c # d
               PROVE  used_(Unit(c)) \cap used_(Unit(d)) = {}
    BY <1>3
  <2>1. used_(Unit(c)) = {O!SdrDev(c)} /\ used_(Unit(d)) = {O!SdrDev(d)}
    BY <1>8
  <2>2. {c, d} = {1, 2} /\ 1 \in on /\ 2 \in on
    BY DEF O!Cell
  <2>3. O!SdrCount = 2
    BY <1>2, <1>6, <2>2
  <2>4. O!SdrDev(1) # O!SdrDev(2)
    BY <1>9, <1>7, <2>3
  <2>5. O!SdrDev(c) # O!SdrDev(d)
    <3>1. (c = 1 /\ d = 2) \/ (c = 2 /\ d = 1)
      BY <2>2
    <3> QED
      BY <2>4, <3>1
  <2> QED
    BY <2>1, <2>5
<1>10. ASSUME O!DevicesNamedApart
      PROVE  \A e \in units : request.antennas <= 2 * O!Cardinality(used_(e))
  <2> SUFFICES ASSUME NEW c \in on PROVE request.antennas <= 2 * O!Cardinality(used_(Unit(c)))
    BY <1>3
  <2>1. request.antennas \in 0..4
    BY DEF RadioInv
  <2>2. CASE ~O!ManyAntennas
    <3>1. used_(Unit(c)) = {O!SdrDev(c)} /\ request.antennas <= 2
      BY <1>8, <2>1, <2>2 DEF O!ManyAntennas
    <3> HIDE DEF used_, Unit
    <3>2. O!Cardinality(used_(Unit(c))) = 1
      BY <3>1, TwoDevices, Zenon
    <3> QED
      BY <2>1, <3>1, <3>2
  <2>3. CASE O!ManyAntennas
    <3>1. used_(Unit(c)) = {O!SdrDev(1), O!SdrDev(2)} /\ O!SdrDev(1) # O!SdrDev(2)
      BY <1>8, <1>10, <1>7, <2>3
    <3> HIDE DEF used_, Unit
    <3>2. O!Cardinality({O!SdrDev(1), O!SdrDev(2)}) = 2
      BY <3>1, TwoDevices, Zenon
    <3>3. O!Cardinality(used_(Unit(c))) = 2
      BY <3>1, <3>2, Zenon
    <3> QED
      BY <2>1, <3>3
  <2> QED
    BY <2>2, <2>3
<1> DEFINE there == {O!SetDefault(request.setting.sdr_dev[ch], ch) : ch \in request.detected}
<1>11. ASSUME 0 \in request.detected PROVE \A e \in units : used_(e) \subseteq there
  <2> SUFFICES ASSUME NEW c \in on PROVE used_(Unit(c)) \subseteq there
    BY <1>3
  <2>1. \A d \in O!Cell : d <= O!SdrCount => O!SdrDev(d) \in there
    <3> SUFFICES ASSUME NEW d \in O!Cell, d <= O!SdrCount PROVE O!SdrDev(d) \in there
      OBVIOUS
    <3>1. d - 1 \in request.detected
      BY <1>2, <1>11 DEF O!Cell
    <3>2. O!SdrDev(d) = O!SetDefault(request.setting.sdr_dev[d - 1], d - 1)
      BY <1>11 DEF O!SdrDev, O!Channel
    <3> QED
      BY <3>1, <3>2
  <2>2. \/ used_(Unit(c)) = {O!SdrDev(c)} /\ c \in O!Cell /\ c <= O!SdrCount
        \/ used_(Unit(c)) = {O!SdrDev(1), O!SdrDev(2)} /\ O!SdrCount = 2
    BY <1>6, <1>8
  <2>3. 1 \in O!Cell /\ 2 \in O!Cell
    BY DEF O!Cell
  <2> QED
    BY <2>1, <2>2, <2>3
<1> QED
  BY <1>5, <1>9, <1>10, <1>11 DEF O!UnitsHaveTheirDevices

\* Every enabled cell of a box has its own identifiers, radio unit and devices, whatever the
\* serial number of the box and the hardware that was detected.
THEOREM CellsHaveTheirOwn ==
    ASSUME RadioConstants
    PROVE  ProgramsSpec => []EveryCellHasItsOwn
<1> DEFINE IInv == program = "radio" => RadioInv
<1>1. ProgramsInit => IInv
  <2> SUFFICES ASSUME O!Init PROVE RadioInv
    BY DEF ProgramsInit
  <2>1. /\ request.detected \in SUBSET {0, 1} /\ request.sn \in Serial
        /\ request.bits \in GnbIdBits /\ request.antennas \in Antennas /\ step = "cells"
        /\ request.setting \in Settings
    BY DEF O!Init
  <2> QED
    BY <2>1 DEF RadioConstants, RadioInv
<1>2. IInv /\ [ProgramsNext]_all => IInv'
  <2> SUFFICES ASSUME IInv, [ProgramsNext]_all, program' = "radio" PROVE RadioInv'
    OBVIOUS
  <2>1. CASE ProgramsNext
    BY <2>1, RadioStep DEF ProgramsNext
  <2>2. CASE UNCHANGED all
    <3>1. program = "radio" /\ UNCHANGED O!vars
      BY <2>2 DEF all, O!vars
    <3> QED
      BY <3>1, RadioStep
  <2> QED
    BY <2>1, <2>2
<1>3. IInv => EveryCellHasItsOwn
  BY CellsDiffer, UnitsDiffer DEF EveryCellHasItsOwn
<1> QED
  BY <1>1, <1>2, <1>3, PTL DEF ProgramsSpec

-----------------------------------------------------------------------------
(* CoreNetwork. *)

\* What the recursive function of Handed is, on the first n.
IsChain(h, taken, first, n) ==
    h = [k \in 0..n |-> IF k = 0 THEN first - 1 ELSE C!NextFree(taken, h[k - 1] + 1)]

\* Handed is a function that is so, if there is one.
LEMMA HandedChoice ==
    ASSUME NEW taken, NEW first
    PROVE  C!Handed(taken, first) = CHOOSE h : IsChain(h, taken, first, MaxShared)
BY DEF C!Handed, IsChain

\* There is one: from n follows n + 1, and there is no least n without one.
LEMMA HandedExists ==
    ASSUME NEW taken, NEW first, NEW n \in Nat
    PROVE  \E g : IsChain(g, taken, first, n)
<1> DEFINE Good(m) == \E g : IsChain(g, taken, first, m)
           bad == {m \in Nat : ~Good(m)}
<1>1. Good(0)
  <2> DEFINE g == [k \in 0..0 |-> first - 1]
  <2>1. g = [k \in 0..0 |-> IF k = 0 THEN first - 1 ELSE C!NextFree(taken, g[k - 1] + 1)]
    OBVIOUS
  <2> QED
    BY <2>1 DEF IsChain
<1>2. ASSUME NEW m \in Nat, Good(m) PROVE Good(m + 1)
  <2>1. PICK g : g = [k \in 0..m |-> IF k = 0 THEN first - 1 ELSE C!NextFree(taken, g[k - 1] + 1)]
    BY <1>2 DEF IsChain
  <2> DEFINE f == [k \in 0..m + 1 |-> IF k = m + 1 THEN C!NextFree(taken, g[m] + 1) ELSE g[k]]
  <2>2. ASSUME NEW k \in 0..m + 1
        PROVE  f[k] = IF k = 0 THEN first - 1 ELSE C!NextFree(taken, f[k - 1] + 1)
    <3>1. CASE k = m + 1
      <4>1. k # 0 /\ k - 1 = m /\ m \in 0..m + 1 /\ m # m + 1
        BY <3>1
      <4>2. f[k] = C!NextFree(taken, g[m] + 1) /\ f[k - 1] = g[m]
        BY <3>1, <4>1
      <4> QED
        BY <4>1, <4>2
    <3>2. CASE k = 0
      <4>1. f[k] = g[k] /\ k \in 0..m
        BY <3>2
      <4>2. g[k] = first - 1
        BY <2>1, <3>2, <4>1
      <4> QED
        BY <3>2, <4>1, <4>2
    <3>3. CASE k # 0 /\ k # m + 1
      <4>1. k \in 0..m /\ k - 1 \in 0..m + 1 /\ k - 1 # m + 1
        BY <3>3
      <4>2. f[k] = g[k] /\ f[k - 1] = g[k - 1]
        BY <3>3, <4>1
      <4>3. g[k] = C!NextFree(taken, g[k - 1] + 1)
        BY <2>1, <3>3, <4>1
      <4> QED
        BY <3>3, <4>2, <4>3
    <3> QED
      BY <3>1, <3>2, <3>3
  <2>3. f = [k \in 0..m + 1 |-> IF k = 0 THEN first - 1 ELSE C!NextFree(taken, f[k - 1] + 1)]
    <3>1. DOMAIN f = 0..m + 1 /\ f = [k \in 0..m + 1 |-> f[k]]
      OBVIOUS
    <3> HIDE DEF f
    <3> QED
      BY <2>2, <3>1
  <2> HIDE DEF f
  <2> QED
    BY <2>3 DEF IsChain
<1> HIDE DEF Good
<1>3. ASSUME bad # {} PROVE FALSE
  <2>1. PICK m \in bad : \A l \in bad : m <= l
    BY <1>3, Least
  <2>2. m # 0 /\ m \in Nat
    BY <1>1
  <2>3. m - 1 \in Nat /\ m - 1 \notin bad
    BY <2>1, <2>2
  <2>4. Good(m - 1)
    BY <2>3
  <2>5. Good(m - 1 + 1)
    BY <1>2, <2>3, <2>4
  <2>6. m - 1 + 1 = m
    BY <2>2
  <2> QED
    BY <2>1, <2>5, <2>6
<1>4. Good(n)
  BY <1>3
<1> QED
  BY <1>4 DEF Good

\* So Handed is what its definition says.
LEMMA HandedRecursion ==
    ASSUME MaxShared \in Nat, NEW taken, NEW first
    PROVE  IsChain(C!Handed(taken, first), taken, first, MaxShared)
BY HandedExists, HandedChoice

\* The cardinality that the instance has is that of FiniteSets.
LEMMA NetCardinality == ASSUME NEW S PROVE C!Cardinality(S) = Cardinality(S)
BY DEF C!Cardinality, Cardinality

\* The next free address is free, is found within as many as are taken, and skips taken ones only.
LEMMA NextFreeMeans ==
    ASSUME NEW taken, IsFiniteSet(taken), NEW from \in Nat
    PROVE  /\ C!NextFree(taken, from) \in Nat /\ C!NextFree(taken, from) >= from
           /\ C!NextFree(taken, from) \notin taken
           /\ \A b \in from..(C!NextFree(taken, from) - 1) : b \in taken
<1> DEFINE c == Cardinality(taken)
           free == {a \in from..(from + c) : a \notin taken}
<1>1. c \in Nat
  BY FS_CardinalityType
<1>2. free # {}
  <2> SUFFICES ASSUME free = {} PROVE FALSE
    OBVIOUS
  <2>1. from..(from + c) \in SUBSET taken
    OBVIOUS
  <2>2. Cardinality(from..(from + c)) <= c
    BY <2>1, FS_Subset
  <2>3. from \in Int /\ from + c \in Int /\ ~(from > from + c)
    BY <1>1
  <2> HIDE DEF c
  <2>4. Cardinality(from..(from + c)) = IF from > from + c THEN 0 ELSE (from + c) - from + 1
    BY <2>3, FS_Interval
  <2> QED
    BY <1>1, <2>2, <2>3, <2>4
<1>3. PICK a \in free : \A b \in free : a <= b
  <2>1. free \subseteq Nat
    BY <1>1
  <2> QED
    BY <1>2, <2>1, Least
<1>4. \A b \in from..(a - 1) : b \in taken
  <2> SUFFICES ASSUME NEW b \in from..(a - 1), b \notin taken PROVE FALSE
    OBVIOUS
  <2>1. b \in from..(from + c) /\ ~(a <= b)
    BY <1>1
  <2> QED
    BY <1>3, <2>1
<1>5. C!Cardinality(taken) = c
  BY NetCardinality
<1>6. \E x \in from..(from + C!Cardinality(taken)) : x \notin taken /\ \A b \in from..(x - 1) : b \in taken
  BY <1>4, <1>5
<1>7. /\ C!NextFree(taken, from) \in from..(from + C!Cardinality(taken))
      /\ C!NextFree(taken, from) \notin taken
      /\ \A b \in from..(C!NextFree(taken, from) - 1) : b \in taken
  BY <1>6 DEF C!NextFree
<1> HIDE DEF c
<1> QED
  BY <1>1, <1>5, <1>7

\* The taken addresses in a range.
TakenIn(taken, first, last) == taken \cap (first..last)

\* The numbers after the first.
LEMMA NotFirst == ASSUME NEW max \in Nat, NEW k \in 0..max, k # 0 PROVE k \in Int /\ k >= 1
OBVIOUS

\* Every address that is handed out is free and above the one before; and those up to the
\* k-th are k and some that are taken.
LEMMA HandedMeans ==
    ASSUME MaxShared \in Nat, NEW taken, IsFiniteSet(taken), NEW first \in Nat,
           NEW n \in 0..MaxShared
    PROVE  /\ C!Handed(taken, first)[n] \in Int /\ C!Handed(taken, first)[n] >= first - 1 + n
           /\ n > 0 => /\ C!Handed(taken, first)[n] \notin taken
                       /\ C!Handed(taken, first)[n] > C!Handed(taken, first)[n - 1]
           /\ C!Handed(taken, first)[n] <=
                 first - 1 + n + Cardinality(TakenIn(taken, first, C!Handed(taken, first)[n]))
<1> DEFINE h == C!Handed(taken, first)
           Means(k) == /\ h[k] \in Int /\ h[k] >= first - 1 + k
                       /\ k > 0 => h[k] \notin taken /\ h[k] > h[k - 1]
                       /\ h[k] <= first - 1 + k + Cardinality(TakenIn(taken, first, h[k]))
           bad == {k \in 0..MaxShared : ~Means(k)}
<1>1. \A k \in 0..MaxShared : h[k] = IF k = 0 THEN first - 1 ELSE C!NextFree(taken, h[k - 1] + 1)
  BY HandedRecursion DEF IsChain
<1>2. ASSUME NEW x PROVE IsFiniteSet(TakenIn(taken, first, x)) /\ Cardinality(TakenIn(taken, first, x)) \in Nat
  BY FS_Subset, FS_CardinalityType DEF TakenIn
<1> HIDE DEF h
<1>3. Means(0)
  <2>1. h[0] = first - 1
    BY <1>1
  <2> QED
    BY <1>2, <2>1
<1>4. ASSUME NEW k \in 0..MaxShared, k # 0, Means(k - 1) PROVE Means(k)
  <2>1. h[k] = C!NextFree(taken, h[k - 1] + 1) /\ h[k - 1] \in Int /\ h[k - 1] >= first - 1 + (k - 1)
    <3>1. h[k] = C!NextFree(taken, h[k - 1] + 1)
      BY <1>1, <1>4
    <3>2. h[k - 1] \in Int /\ h[k - 1] >= first - 1 + (k - 1)
      BY <1>4
    <3> QED
      BY <3>1, <3>2
  <2> DEFINE v == h[k - 1]
  <2>2. v + 1 \in Nat /\ first <= v + 1
    <3>1. k \in Int /\ k >= 1
      BY <1>4, NotFirst
    <3>2. v \in Int /\ v >= first - 1 + (k - 1)
      BY <2>1
    <3> HIDE DEF v
    <3> QED
      BY <3>1, <3>2
  <2>3. /\ h[k] \in Nat /\ h[k] >= h[k - 1] + 1 /\ h[k] \notin taken
        /\ \A b \in (h[k - 1] + 1)..(h[k] - 1) : b \in taken
    BY <2>1, <2>2, NextFreeMeans
  <2> DEFINE gap == (h[k - 1] + 1)..(h[k] - 1)
             low == TakenIn(taken, first, h[k - 1])
             high == TakenIn(taken, first, h[k])
  <2>4. IsFiniteSet(gap) /\ Cardinality(gap) = h[k] - 1 - h[k - 1]
    <3>1. h[k - 1] + 1 \in Int /\ h[k] - 1 \in Int
      BY <2>1, <2>3
    <3>2. Cardinality(gap) = IF h[k - 1] + 1 > h[k] - 1 THEN 0 ELSE h[k] - 1 - (h[k - 1] + 1) + 1
      BY <3>1, FS_Interval
    <3>3. IsFiniteSet(gap)
      BY <3>1, FS_Interval
    <3> HIDE DEF gap
    <3> QED
      BY <2>1, <2>3, <3>2, <3>3
  <2>5. low \cap gap = {}
    BY <2>1, <2>3 DEF TakenIn
  <2>6. low \cup gap \in SUBSET high
    <3>1. \A b \in gap : b \in taken /\ b \in first..h[k]
      BY <2>1, <2>2, <2>3
    <3>2. \A b \in low : b \in taken /\ b \in first..h[k]
      BY <2>1, <2>3 DEF TakenIn
    <3> QED
      BY <3>1, <3>2 DEF TakenIn
  <2> HIDE DEF gap, low, high
  <2>7. IsFiniteSet(low) /\ IsFiniteSet(high) /\ Cardinality(low) \in Nat /\ Cardinality(high) \in Nat
    BY <1>2 DEF low, high
  <2>8. Cardinality(low \cup gap) = Cardinality(low) + Cardinality(gap)
    <3>1. Cardinality(low \cap gap) = 0
      BY <2>5, FS_EmptySet, Zenon
    <3>2. Cardinality(low \cup gap) = Cardinality(low) + Cardinality(gap) - Cardinality(low \cap gap)
      BY <2>4, <2>7, FS_Union
    <3>3. Cardinality(gap) \in Int
      BY <2>1, <2>3, <2>4
    <3> QED
      BY <2>7, <3>1, <3>2, <3>3
  <2>9. Cardinality(low \cup gap) <= Cardinality(high)
    BY <2>6, <2>7, FS_Subset
  <2>10. h[k - 1] <= first - 1 + (k - 1) + Cardinality(low)
    BY <1>4 DEF low
  <2>11. h[k] <= first - 1 + k + Cardinality(high)
    BY <2>1, <2>3, <2>4, <2>7, <2>8, <2>9, <2>10
  <2>12. h[k] >= first - 1 + k /\ h[k] > h[k - 1] /\ h[k] \in Int
    BY <2>1, <2>3
  <2> QED
    BY <2>3, <2>11, <2>12 DEF high
<1> HIDE DEF Means
<1>5. ASSUME bad # {} PROVE FALSE
  <2>1. PICK k \in bad : \A l \in bad : k <= l
    <3>1. bad \subseteq Nat
      OBVIOUS
    <3> HIDE DEF bad
    <3> QED
      BY <1>5, <3>1, Least
  <2>2. k # 0 /\ k \in 0..MaxShared
    BY <1>3
  <2>3. k - 1 \in 0..MaxShared /\ ~(k <= k - 1)
    BY <2>2
  <2>4. Means(k - 1)
    BY <2>1, <2>3
  <2> QED
    BY <1>4, <2>1, <2>2, <2>4
<1>6. Means(n)
  BY <1>5
<1> QED
  BY <1>6 DEF Means, h

\* An address that is handed out later is a greater one.
LEMMA HandedIncreases ==
    ASSUME MaxShared \in Nat, NEW taken, IsFiniteSet(taken), NEW first \in Nat,
           NEW n \in 0..MaxShared, NEW m \in 0..MaxShared, m < n
    PROVE  C!Handed(taken, first)[m] < C!Handed(taken, first)[n]
<1> DEFINE h == C!Handed(taken, first)
           bad == {k \in 0..MaxShared : m < k /\ ~(h[m] < h[k])}
<1>1. \A k \in 0..MaxShared : h[k] \in Int /\ (k > 0 => h[k] > h[k - 1])
  BY HandedMeans
<1> HIDE DEF h
<1>2. ASSUME bad # {} PROVE FALSE
  <2>1. PICK k \in bad : \A l \in bad : k <= l
    <3>1. bad \subseteq Nat
      OBVIOUS
    <3> HIDE DEF bad
    <3> QED
      BY <1>2, <3>1, Least
  <2>2. k - 1 \in 0..MaxShared /\ ~(k <= k - 1) /\ k > 0 /\ k \in 0..MaxShared
    OBVIOUS
  <2>3. h[k] > h[k - 1] /\ h[k] \in Int /\ h[k - 1] \in Int /\ h[m] \in Int
    BY <1>1, <2>2
  <2>4. CASE m = k - 1
    BY <2>3, <2>4
  <2>5. CASE m # k - 1
    <3>1. m < k - 1
      BY <2>5
    <3>2. h[m] < h[k - 1]
      BY <2>1, <2>2, <3>1
    <3> QED
      BY <2>3, <3>2
  <2> QED
    BY <2>4, <2>5
<1>3. n \notin bad
  BY <1>2
<1> QED
  BY <1>3 DEF h

\* What the networks are, and the SIM cards.
NetworkConstants ==
    /\ MaxShared \in Nat /\ Prefix \in Nat \ {0}
    /\ \A t \in Tunnel : /\ t.start4 \in Nat /\ t.end4 \in Nat /\ t.start4 <= t.end4
                         /\ t.start6 \in Nat /\ t.end6 \in Nat /\ t.start6 <= t.end6
    /\ \A x \in SharedSims : x.imsi \in Int

\* What core_network has returned, if it did not raise.
NetworkInv ==
    /\ network \in Tunnel /\ DOMAIN pdns \in {1..1, 1..2} /\ Len(pdns) \in {1, 2}
    /\ \E n \in 0..MaxShared : shared_list \in [1..n -> SharedSims]
    /\ done /\ ~failed =>
          /\ addresses = [i \in DOMAIN pdns |-> C!Allocated(i)]
          /\ sim_list = {[sim |-> s, disabled |-> C!Disabled(s)] : s \in C!Sims}
          /\ published = [s \in C!Index |-> C!Published(s)]

\* The SIM cards are few, and are ordered by their IMSI and their place.
LEMMA SimsAre ==
    ASSUME NetworkConstants, NetworkInv
    PROVE  /\ IsFiniteSet(C!Sims) /\ Cardinality(C!Sims) \in 0..MaxShared
           /\ \A s \in C!Sims : s \in Int /\ shared_list[s].imsi \in Int
<1>1. PICK n \in 0..MaxShared : shared_list \in [1..n -> SharedSims]
  BY DEF NetworkInv
<1>2. n \in Int /\ 1 \in Int /\ C!Sims \in SUBSET (1..n)
  BY <1>1 DEF C!Sims, C!Index
<1>3. IsFiniteSet(1..n) /\ Cardinality(1..n) = IF 1 > n THEN 0 ELSE n - 1 + 1
  BY <1>2, FS_Interval
<1>4. IsFiniteSet(C!Sims) /\ Cardinality(C!Sims) <= Cardinality(1..n)
  BY <1>2, <1>3, FS_Subset
<1>5. Cardinality(C!Sims) \in Nat
  BY <1>4, FS_CardinalityType
<1>6. Cardinality(C!Sims) \in 0..MaxShared
  BY <1>1, <1>3, <1>4, <1>5 DEF NetworkConstants
<1>7. \A s \in C!Sims : s \in Int /\ shared_list[s].imsi \in Int
  BY <1>1, <1>2 DEF NetworkConstants
<1> QED
  BY <1>4, <1>6, <1>7

\* The SIM cards that force no address, and how many of them come before one.
Free(i, version) == {t \in C!Sims : C!ForcedBy(i, t, version) = None}
Rank(i, version, s) == Cardinality({t \in Free(i, version) : C!Before(t, s)})

\* A SIM card that comes before another has the lower rank.
LEMMA RankIncreases ==
    ASSUME NetworkConstants, NetworkInv, NEW i, NEW version,
           NEW s \in Free(i, version), NEW t \in Free(i, version), C!Before(s, t)
    PROVE  Rank(i, version, s) < Rank(i, version, t)
<1> DEFINE S_ == {u \in Free(i, version) : C!Before(u, s)}
           T_ == {u \in Free(i, version) : C!Before(u, t)}
<1>1. \A u \in Free(i, version) : u \in Int /\ shared_list[u].imsi \in Int
  BY SimsAre DEF Free
<1>2. S_ \in SUBSET T_ /\ s \in T_ /\ s \notin S_
  BY <1>1 DEF C!Before
<1>3. IsFiniteSet(T_)
  <2>1. T_ \in SUBSET C!Sims
    BY DEF Free
  <2> QED
    BY <2>1, SimsAre, FS_Subset
<1> HIDE DEF S_, T_
<1>4. IsFiniteSet(S_) /\ Cardinality(S_) <= Cardinality(T_) /\ (Cardinality(T_) = Cardinality(S_) => T_ = S_)
  BY <1>2, <1>3, FS_Subset
<1>5. Cardinality(S_) \in Nat /\ Cardinality(T_) \in Nat
  BY <1>3, <1>4, FS_CardinalityType
<1>6. Cardinality(S_) < Cardinality(T_)
  BY <1>2, <1>4, <1>5
<1> QED
  BY <1>6 DEF Rank, S_, T_

\* Ranks are below the number of the SIM cards that force no address; and the addresses that
\* are forced are no more than those who force them.
LEMMA RankBound ==
    ASSUME NetworkConstants, NetworkInv, NEW i, NEW version, NEW s \in Free(i, version)
    PROVE  /\ Rank(i, version, s) \in Nat
           /\ IsFiniteSet(C!ForcedIn(i, version)) /\ Cardinality(C!ForcedIn(i, version)) \in Nat
           /\ Rank(i, version, s) + 1 + Cardinality(C!ForcedIn(i, version)) <= Cardinality(C!Sims)
<1> DEFINE F_ == Free(i, version)
           B_ == {t \in F_ : C!Before(t, s)}
           R_ == C!Recognised(i, version)
           force == [t \in R_ |-> C!ForcedBy(i, t, version).address]
<1>1. IsFiniteSet(C!Sims) /\ F_ \in SUBSET C!Sims /\ Cardinality(C!Sims) \in Nat
  BY SimsAre DEF Free
<1>2. B_ \in SUBSET F_ \ {s}
  <2>1. ~C!Before(s, s)
    BY SimsAre DEF C!Before, Free
  <2> QED
    BY <2>1
<1>3. C!Sims \ F_ \in SUBSET C!Sims /\ F_ \cap (C!Sims \ F_) = {} /\ F_ \cup (C!Sims \ F_) = C!Sims
  BY <1>1
<1>4. force \in Surjection(R_, C!ForcedIn(i, version)) /\ R_ \in SUBSET (C!Sims \ F_)
  BY DEF Surjection, C!ForcedIn, C!Recognised, Free
<1> HIDE DEF F_, B_, R_, force
<1>5. /\ IsFiniteSet(F_) /\ IsFiniteSet(C!Sims \ F_)
      /\ IsFiniteSet(R_) /\ Cardinality(R_) <= Cardinality(C!Sims \ F_)
  BY <1>1, <1>3, <1>4, FS_Subset
<1>6. IsFiniteSet(F_ \ {s}) /\ Cardinality(F_ \ {s}) = Cardinality(F_) - 1
  BY <1>5, FS_RemoveElement DEF F_
<1>7. IsFiniteSet(B_) /\ Cardinality(B_) <= Cardinality(F_ \ {s})
  BY <1>2, <1>6, FS_Subset
<1>8. IsFiniteSet(C!ForcedIn(i, version)) /\ Cardinality(C!ForcedIn(i, version)) <= Cardinality(R_)
  BY <1>4, <1>5, FS_Surjection
<1>9. Cardinality(C!Sims) = Cardinality(F_) + Cardinality(C!Sims \ F_)
  <2>1. Cardinality(F_ \cap (C!Sims \ F_)) = 0
    BY <1>3, FS_EmptySet, Zenon
  <2>2. Cardinality(F_ \cup (C!Sims \ F_)) =
           Cardinality(F_) + Cardinality(C!Sims \ F_) - Cardinality(F_ \cap (C!Sims \ F_))
    BY <1>5, FS_Union
  <2>3. Cardinality(F_) \in Nat /\ Cardinality(C!Sims \ F_) \in Nat
    BY <1>5, FS_CardinalityType
  <2>4. Cardinality(F_ \cup (C!Sims \ F_)) = Cardinality(C!Sims)
    BY <1>3, Zenon
  <2> QED
    BY <2>1, <2>2, <2>3, <2>4
<1>10. /\ Cardinality(F_) \in Nat /\ Cardinality(C!Sims \ F_) \in Nat /\ Cardinality(B_) \in Nat
       /\ Cardinality(C!ForcedIn(i, version)) \in Nat /\ Cardinality(R_) \in Nat
  BY <1>5, <1>7, <1>8, FS_CardinalityType
<1>11. Rank(i, version, s) = Cardinality(B_)
  BY DEF Rank, B_, F_
<1> QED
  BY <1>5, <1>6, <1>7, <1>8, <1>9, <1>10, <1>11

\* What a SIM card gets that forces nothing: its own address, which nobody forces, from the
\* first on and no further than there are SIM cards.
LEMMA AllocatedOne ==
    ASSUME NetworkConstants, NetworkInv, NEW i, NEW version, NEW first \in Nat,
           NEW s \in Free(i, version)
    PROVE  /\ C!Allocate(i, s, version, first) \in Int
           /\ C!Allocate(i, s, version, first) >= first
           /\ C!Allocate(i, s, version, first) <= first - 1 + Cardinality(C!Sims)
           /\ C!Allocate(i, s, version, first) \notin C!ForcedIn(i, version)
<1> DEFINE taken == C!ForcedIn(i, version)
           k == Rank(i, version, s) + 1
           a == C!Handed(taken, first)[k]
<1>1. C!Allocate(i, s, version, first) = a
  BY NetCardinality DEF C!Allocate, Rank, Free
<1>2. /\ Rank(i, version, s) \in Nat /\ IsFiniteSet(taken) /\ Cardinality(taken) \in Nat
      /\ k + Cardinality(taken) <= Cardinality(C!Sims) /\ Cardinality(C!Sims) \in 0..MaxShared
  BY RankBound, SimsAre
<1>3. k \in 0..MaxShared /\ k > 0 /\ MaxShared \in Nat
  BY <1>2 DEF NetworkConstants
<1> HIDE DEF k, taken
<1>4. /\ a \in Int /\ a >= first - 1 + k /\ a \notin taken
      /\ a <= first - 1 + k + Cardinality(TakenIn(taken, first, a))
  BY <1>2, <1>3, HandedMeans
<1>5. Cardinality(TakenIn(taken, first, a)) <= Cardinality(taken) /\ Cardinality(TakenIn(taken, first, a)) \in Nat
  BY <1>2, FS_Subset, FS_CardinalityType DEF TakenIn
<1> HIDE DEF a
<1>6. a >= first /\ a <= first - 1 + Cardinality(C!Sims)
  BY <1>2, <1>3, <1>4, <1>5
<1> QED
  BY <1>1, <1>4, <1>6 DEF taken

\* Two SIM cards that force nothing get two addresses.
LEMMA AllocatedTwo ==
    ASSUME NetworkConstants, NetworkInv, NEW i, NEW version, NEW first \in Nat,
           NEW s \in Free(i, version), NEW t \in Free(i, version), s # t
    PROVE  C!Allocate(i, s, version, first) # C!Allocate(i, t, version, first)
<1>1. ASSUME NEW u \in Free(i, version), NEW w \in Free(i, version), C!Before(u, w)
      PROVE  C!Allocate(i, u, version, first) # C!Allocate(i, w, version, first)
  <2> DEFINE taken == C!ForcedIn(i, version)
             k == Rank(i, version, u) + 1
             l == Rank(i, version, w) + 1
             h == C!Handed(taken, first)
  <2>1. C!Allocate(i, u, version, first) = h[k] /\ C!Allocate(i, w, version, first) = h[l]
    BY NetCardinality DEF C!Allocate, Rank, Free
  <2>2. /\ Rank(i, version, u) \in Nat /\ Rank(i, version, w) \in Nat
        /\ IsFiniteSet(taken) /\ Cardinality(taken) \in Nat
        /\ k + Cardinality(taken) <= Cardinality(C!Sims) /\ l + Cardinality(taken) <= Cardinality(C!Sims)
        /\ Cardinality(C!Sims) \in 0..MaxShared
    BY RankBound, SimsAre
  <2>3. k \in 0..MaxShared /\ l \in 0..MaxShared /\ MaxShared \in Nat
    BY <2>2 DEF NetworkConstants
  <2>4. k < l
    BY <1>1, <2>2, RankIncreases
  <2> HIDE DEF k, l, taken
  <2>5. h[k] < h[l] /\ h[k] \in Int /\ h[l] \in Int
    BY <2>2, <2>3, <2>4, HandedIncreases, HandedMeans
  <2> HIDE DEF h
  <2> QED
    BY <2>1, <2>5
<1>2. C!Before(s, t) \/ C!Before(t, s)
  BY SimsAre DEF C!Before, Free
<1> QED
  BY <1>1, <1>2

\* What the configuration of the network does not change.
NetworkInputs == <<network, pdns, shared_list>>

\* What core_network computes is a function of what it was given.
LEMMA SameNetwork ==
    ASSUME UNCHANGED NetworkInputs
    PROVE  /\ C!Sims' = C!Sims /\ C!Index' = C!Index
           /\ \A s : C!Disabled(s)' = C!Disabled(s) /\ C!Published(s)' = C!Published(s)
           /\ \A i : C!Allocated(i)' = C!Allocated(i)
<1>1. network' = network /\ pdns' = pdns /\ shared_list' = shared_list
  BY DEF NetworkInputs
<1>2. C!Index' = C!Index
  BY <1>1 DEF C!Index
<1>3. C!Sims' = C!Sims
  BY <1>1, <1>2 DEF C!Sims
<1>4. ASSUME NEW s PROVE C!SimError(s)' = C!SimError(s)
  <2>1. C!Duplicate(s)' <=> C!Duplicate(s)
    BY <1>1, <1>2 DEF C!Duplicate
  <2> QED
    BY <1>1, <2>1 DEF C!SimError
<1>5. ASSUME NEW s PROVE C!Disabled(s)' = C!Disabled(s) /\ C!Published(s)' = C!Published(s)
  BY <1>1, <1>4 DEF C!Disabled, C!Published
<1>6. ASSUME NEW i PROVE C!Allocated(i)' = C!Allocated(i)
  <2>1. \A s, v : C!ForcedBy(i, s, v)' = C!ForcedBy(i, s, v)
    BY <1>1 DEF C!ForcedBy
  <2>2. \A v : C!ForcedIn(i, v)' = C!ForcedIn(i, v)
    BY <1>3, <2>1 DEF C!ForcedIn, C!Recognised
  <2>3. \A s, t : C!Before(s, t)' <=> C!Before(s, t)
    BY <1>1 DEF C!Before
  <2>4. C!First4(i)' = C!First4(i) /\ C!First6(i)' = C!First6(i) /\ (C!TooMany(i)' <=> C!TooMany(i))
    BY <1>1, <1>3 DEF C!First4, C!First6, C!Last4, C!TooMany, C!Start4, C!Start6, C!Interval4,
                      C!Interval6
  <2>5. ASSUME NEW s, NEW v, NEW first PROVE C!Allocate(i, s, v, first)' = C!Allocate(i, s, v, first)
    BY <1>3, <2>1, <2>2, <2>3 DEF C!Allocate
  <2> QED
    BY <1>1, <1>3, <2>4, <2>5 DEF C!Allocated
<1> QED
  BY <1>2, <1>3, <1>5, <1>6

\* CoreNetwork computes what the invariant says, and nothing changes it afterwards.
LEMMA NetworkStep ==
    ASSUME NetworkInv, [C!CoreNetwork]_C!vars
    PROVE  NetworkInv'
<1>1. UNCHANGED NetworkInputs
  BY DEF C!CoreNetwork, C!vars, NetworkInputs
<1>2. network' = network /\ pdns' = pdns /\ shared_list' = shared_list
  BY <1>1 DEF NetworkInputs
<1>3. /\ network' \in Tunnel /\ DOMAIN pdns' \in {1..1, 1..2} /\ Len(pdns') \in {1, 2}
      /\ \E n \in 0..MaxShared : shared_list' \in [1..n -> SharedSims]
  BY <1>2 DEF NetworkInv
<1>4. ASSUME done', ~failed'
      PROVE  /\ addresses' = [i \in DOMAIN pdns |-> C!Allocated(i)]
             /\ sim_list' = {[sim |-> s, disabled |-> C!Disabled(s)] : s \in C!Sims}
             /\ published' = [s \in C!Index |-> C!Published(s)]
  <2>1. CASE C!CoreNetwork
    BY <1>4, <2>1 DEF C!CoreNetwork
  <2>2. CASE UNCHANGED C!vars
    BY <1>4, <2>2 DEF C!vars, NetworkInv
  <2> QED
    BY <2>1, <2>2
<1>5. /\ C!Sims' = C!Sims /\ C!Index' = C!Index
      /\ \A s : C!Disabled(s)' = C!Disabled(s) /\ C!Published(s)' = C!Published(s)
      /\ \A i : C!Allocated(i)' = C!Allocated(i)
  BY <1>1, SameNetwork
<1>6. ASSUME done', ~failed'
      PROVE  /\ addresses' = [i \in DOMAIN pdns' |-> C!Allocated(i)']
             /\ sim_list' = {[sim |-> s, disabled |-> C!Disabled(s)'] : s \in C!Sims'}
             /\ published' = [s \in C!Index' |-> C!Published(s)']
  BY <1>2, <1>4, <1>5, <1>6
<1> QED
  BY <1>3, <1>6 DEF NetworkInv

\* The quotient that a remainder leaves alone.
LEMMA QuotientOf ==
    ASSUME NEW q \in Int, NEW m \in Nat \ {0}, NEW r \in 0..(m - 1)
    PROVE  (q * m + r) \div m = q
OBVIOUS

\* How a number is made of its quotient and its remainder.
LEMMA QuotientIs ==
    ASSUME NEW a \in Nat, NEW m \in Nat \ {0}
    PROVE  a \div m \in Nat /\ a % m \in 0..(m - 1) /\ a = (a \div m) * m + (a % m)
<1>1. a % m \in 0..(m - 1) /\ a \div m \in Nat
  OBVIOUS
<1>2. a = m * (a \div m) + (a % m)
  OBVIOUS
<1> QED
  BY <1>1, <1>2

\* Where the IPv4 ranges are.
LEMMA RangesOfAddresses ==
    ASSUME NetworkConstants, NetworkInv
    PROVE  /\ \A i \in 1..2 : /\ C!First4(i) \in Nat /\ C!Last4(i) \in Int
                              /\ C!Last4(i) <= network.end4
                              /\ C!TooMany(i) <=> Cardinality(C!Sims) > C!Last4(i) - C!First4(i)
           /\ C!Last4(1) < C!Start4(2)
<1>1. /\ network.start4 \in Nat /\ network.end4 \in Nat /\ network.start4 <= network.end4
  BY DEF NetworkConstants, NetworkInv
<1>2. /\ C!Interval4 \in Nat /\ 2 * C!Interval4 <= network.end4 - network.start4
  BY <1>1 DEF C!Interval4
<1>3. C!Start4(1) = network.start4 /\ C!Start4(2) = network.start4 + C!Interval4 + 1
  BY <1>1, <1>2 DEF C!Start4
<1>4. \A i : /\ C!First4(i) = C!Start4(i) + 1
             /\ C!Last4(i) = C!Start4(i) + C!Interval4 - 2
             /\ C!TooMany(i) <=> Cardinality(C!Sims) > C!Last4(i) - C!First4(i)
  BY NetCardinality DEF C!First4, C!Last4, C!TooMany
<1>5. \A i \in 1..2 : C!First4(i) \in Nat /\ C!Last4(i) \in Int /\ C!Last4(i) <= network.end4
  <2> SUFFICES ASSUME NEW i \in 1..2
               PROVE C!First4(i) \in Nat /\ C!Last4(i) \in Int /\ C!Last4(i) <= network.end4
    OBVIOUS
  <2>1. CASE i = 1
    BY <1>1, <1>2, <1>3, <1>4, <2>1
  <2>2. CASE i = 2
    BY <1>1, <1>2, <1>3, <1>4, <2>2
  <2> QED
    BY <2>1, <2>2
<1>6. \A i \in 1..2 : C!TooMany(i) <=> Cardinality(C!Sims) > C!Last4(i) - C!First4(i)
  BY <1>4
<1>7. C!Last4(1) < C!Start4(2)
  BY <1>1, <1>2, <1>3, <1>4
<1> QED
  BY <1>5, <1>6, <1>7

\* Where the IPv6 ranges are.
LEMMA RangesOfPrefixes ==
    ASSUME NetworkConstants, NetworkInv
    PROVE  /\ \A i \in 1..2 : C!First6(i) \in Nat
           /\ IF network.start6 % Prefix = 0
              THEN C!Last6(1) < C!Start6(2) \div Prefix
              ELSE C!Last6(1) = C!Start6(2) \div Prefix
<1> DEFINE q == network.start6 \div Prefix
           r == network.start6 % Prefix
           w == ((network.end6 - network.start6) \div 2) \div Prefix
<1>1. /\ network.start6 \in Nat /\ network.end6 \in Nat /\ network.start6 <= network.end6
      /\ Prefix \in Nat \ {0}
  BY DEF NetworkConstants, NetworkInv
<1>2. q \in Nat /\ r \in 0..(Prefix - 1) /\ network.start6 = q * Prefix + r
  BY <1>1, QuotientIs
<1>3. (network.end6 - network.start6) \div 2 \in Nat
  BY <1>1
<1>4. w \in Nat
  BY <1>1, <1>3, QuotientIs
<1>5. C!Start6(1) = q * Prefix /\ C!Start6(2) = q * Prefix + w * Prefix /\ C!Interval6 = w * Prefix
  <2>1. C!Interval6 = w * Prefix
    BY DEF C!Interval6
  <2>2. C!Start6(1) = q * Prefix + (1 - 1) * C!Interval6 /\ C!Start6(2) = q * Prefix + (2 - 1) * C!Interval6
    BY DEF C!Start6
  <2> HIDE DEF q, w
  <2>3. q * Prefix \in Int /\ w * Prefix \in Int
    BY <1>1, <1>2, <1>4
  <2> QED
    BY <2>1, <2>2, <2>3
<1> HIDE DEF q, w
<1>6. C!Start6(1) \div Prefix = q
  <2>1. q * Prefix + 0 = q * Prefix /\ 0 \in 0..(Prefix - 1)
    BY <1>1, <1>2
  <2> QED
    BY <1>1, <1>2, <1>5, <2>1, QuotientOf
<1>7. C!Start6(2) \div Prefix = q + w
  <2>1. (q + w) * Prefix + 0 = q * Prefix + w * Prefix /\ 0 \in 0..(Prefix - 1) /\ q + w \in Int
    BY <1>1, <1>2, <1>4
  <2> QED
    BY <1>1, <1>5, <2>1, QuotientOf
<1>8. /\ \A i : C!First6(i) = C!Start6(i) \div Prefix + 1
      /\ C!Start6(2) \div Prefix = q + w
      /\ C!Last6(1) = (network.start6 + 1 * C!Interval6 - 1) \div Prefix
  BY <1>7 DEF C!First6, C!Last6
<1>9. network.start6 + 1 * C!Interval6 - 1 = q * Prefix + r + w * Prefix - 1
  <2>1. q * Prefix \in Int /\ w * Prefix \in Int /\ r \in Int
    BY <1>1, <1>2, <1>4
  <2> QED
    BY <1>2, <1>5, <2>1
<1> HIDE DEF r
<1>10. \A i \in 1..2 : C!First6(i) \in Nat
  <2>1. C!First6(1) = q + 1 /\ C!First6(2) = q + w + 1
    BY <1>6, <1>7, <1>8
  <2> QED
    BY <1>2, <1>4, <2>1
<1>11. network.start6 % Prefix = 0 <=> r = 0
  BY DEF r
<1>12. CASE r = 0
  <2>1. q * Prefix + r + w * Prefix - 1 = (q + w - 1) * Prefix + (Prefix - 1)
    BY <1>1, <1>2, <1>4, <1>12
  <2>2. Prefix - 1 \in 0..(Prefix - 1) /\ q + w - 1 \in Int
    BY <1>1, <1>2, <1>4
  <2>3. C!Last6(1) = q + w - 1
    <3>1. ((q + w - 1) * Prefix + (Prefix - 1)) \div Prefix = q + w - 1
      BY <1>1, <2>2, QuotientOf
    <3> QED
      BY <1>8, <1>9, <2>1, <3>1
  <2>4. C!Last6(1) < C!Start6(2) \div Prefix
    BY <1>2, <1>4, <1>8, <2>3
  <2> QED
    BY <1>10, <1>11, <1>12, <2>4
<1>13. CASE r # 0
  <2>1. q * Prefix + r + w * Prefix - 1 = (q + w) * Prefix + (r - 1)
    BY <1>1, <1>2, <1>4
  <2>2. r - 1 \in 0..(Prefix - 1) /\ q + w \in Int
    BY <1>1, <1>2, <1>4, <1>13
  <2>3. C!Last6(1) = C!Start6(2) \div Prefix
    <3>1. ((q + w) * Prefix + (r - 1)) \div Prefix = q + w
      BY <1>1, <2>2, QuotientOf
    <3> QED
      BY <1>8, <1>9, <2>1, <3>1
  <2> QED
    BY <1>10, <1>11, <1>13, <2>3
<1> QED
  BY <1>12, <1>13

\* The ranges of two networks do not meet.
LEMMA RangesApart ==
    ASSUME NetworkConstants, NetworkInv
    PROVE  C!RangesAreDisjoint
<1>1. DOMAIN pdns \subseteq 1..2
  BY DEF NetworkInv
<1>2. ASSUME NEW i, C!Unset4(i)
      PROVE  C!Range4(i).gateway = C!Start4(i) /\ C!Range4(i).last = C!Last4(i)
  BY <1>2 DEF C!Range4, C!Unset4, C!SetDefault
<1>3. ASSUME NEW i, C!Unset6(i)
      PROVE  C!Range6(i).gateway = C!Start6(i) \div Prefix /\ C!Range6(i).last = C!Last6(i)
  BY <1>3 DEF C!Range6, C!Unset6, C!SetDefault
<1> QED
  BY <1>1, <1>2, <1>3, RangesOfAddresses, RangesOfPrefixes DEF C!RangesAreDisjoint

\* An enabled SIM card has no error, so that no other has its IMSI; and is told so.
LEMMA EnabledApart ==
    ASSUME NetworkConstants, NetworkInv
    PROVE  C!EnabledSimsAreUnique
<1> SUFFICES ASSUME done, ~failed PROVE C!EnabledSimsAreUnique
  BY DEF C!EnabledSimsAreUnique
<1> DEFINE on == {x.sim : x \in {y \in sim_list : ~y.disabled}}
<1>1. /\ sim_list = {[sim |-> s, disabled |-> C!Disabled(s)] : s \in C!Sims}
      /\ published = [s \in C!Index |-> C!Published(s)]
  BY DEF NetworkInv
<1>2. on = {s \in C!Sims : ~C!Disabled(s)}
  <2>1. ASSUME NEW s \in on PROVE s \in C!Sims /\ ~C!Disabled(s)
    <3>1. PICK x \in sim_list : ~x.disabled /\ s = x.sim
      OBVIOUS
    <3>2. PICK t \in C!Sims : x = [sim |-> t, disabled |-> C!Disabled(t)]
      BY <1>1
    <3> QED
      BY <3>1, <3>2
  <2>2. ASSUME NEW s \in C!Sims, ~C!Disabled(s) PROVE s \in on
    <3> DEFINE x == [sim |-> s, disabled |-> C!Disabled(s)]
    <3>1. x \in sim_list /\ x.sim = s /\ ~x.disabled
      BY <1>1, <2>2
    <3> QED
      BY <3>1
  <2> QED
    BY <2>1, <2>2
<1> HIDE DEF on
<1>3. ASSUME NEW s \in on, NEW t \in on, s # t PROVE shared_list[s].imsi # shared_list[t].imsi
  <2>1. s \in C!Sims /\ t \in C!Sims /\ ~C!Duplicate(s)
    BY <1>2 DEF C!Disabled, C!SimError
  <2> QED
    BY <1>3, <2>1 DEF C!Duplicate, C!Sims
<1>4. ASSUME NEW s \in C!Sims PROVE s \in on <=> published[s] = "attached"
  <2>1. published[s] = C!Published(s) /\ shared_list[s].kind = "sim"
    BY <1>1 DEF C!Sims
  <2>2. C!SimError(s) \in {"none", "duplicate", "plmn", "msin"}
    BY DEF C!SimError
  <2>3. C!Published(s) = "attached" <=> C!SimError(s) = "none" /\ ~shared_list[s].off
    BY <2>1, <2>2 DEF C!Published
  <2> QED
    BY <1>2, <2>1, <2>3 DEF C!Disabled
<1> QED
  BY <1>3, <1>4 DEF C!EnabledSimsAreUnique, on

\* An address that a SIM card did not force is in the range, and is that of no other but one
\* that is forced in another spelling.
LEMMA AddressesApart ==
    ASSUME NetworkConstants, NetworkInv
    PROVE  C!AddressesAreDistinct
<1> DEFINE Got(i, s) == C!Allocated(i)[s]
<1>1. ASSUME done, ~failed, NEW i \in DOMAIN pdns, NEW s \in C!Sims
      PROVE  addresses[i][s] = Got(i, s)
  BY <1>1 DEF NetworkInv
<1>2. DOMAIN pdns \subseteq 1..2
  BY DEF NetworkInv
<1>3. ASSUME NEW i, NEW version, NEW first \in Nat, NEW s \in C!Sims, NEW t \in C!Sims, s # t,
             C!ForcedBy(i, s, version) = None, C!Spelled(i, t, version)
      PROVE  C!Allocate(i, s, version, first) # C!Allocate(i, t, version, first)
  <2>1. s \in Free(i, version)
    BY <1>3 DEF Free
  <2>2. CASE t \in Free(i, version)
    BY <1>3, <2>1, <2>2, AllocatedTwo
  <2>3. CASE t \notin Free(i, version)
    <3>1. C!Allocate(i, t, version, first) = C!ForcedBy(i, t, version).address
      BY <2>3 DEF C!Allocate, Free
    <3>2. C!ForcedBy(i, t, version).address \in C!ForcedIn(i, version)
      BY <1>3, <2>3 DEF C!ForcedIn, C!Spelled, Free
    <3>3. C!Allocate(i, s, version, first) \notin C!ForcedIn(i, version)
      BY <2>1, AllocatedOne
    <3> QED
      BY <3>1, <3>2, <3>3
  <2> QED
    BY <2>2, <2>3
<1>4. ASSUME NEW i \in 1..2
      PROVE  C!First4(i) \in Nat /\ C!First6(i) + 2 \in Nat
  BY RangesOfAddresses, RangesOfPrefixes
<1>5. ASSUME NEW i \in 1..2, NEW s \in C!Sims, ~C!TooMany(i), C!ForcedBy(i, s, 4) = None
      PROVE  C!Allocate(i, s, 4, C!First4(i)) \in C!First4(i)..C!Last4(i)
  <2> DEFINE a == C!Allocate(i, s, 4, C!First4(i))
             low == C!First4(i)
             high == C!Last4(i)
  <2>1. s \in Free(i, 4) /\ low \in Nat /\ high \in Int
    BY <1>5, RangesOfAddresses DEF Free
  <2>2. a \in Int /\ a >= low /\ a <= low - 1 + Cardinality(C!Sims)
    BY <2>1, AllocatedOne
  <2>3. Cardinality(C!Sims) <= high - low
    <3>1. ~(Cardinality(C!Sims) > high - low)
      BY <1>5, RangesOfAddresses
    <3> QED
      BY <2>1, <3>1, SimsAre
  <2> HIDE DEF a, low, high
  <2>4. a \in low..high
    BY <2>1, <2>2, <2>3, SimsAre
  <2> QED
    BY <2>4 DEF a, low, high
<1>6. ASSUME NEW i, NEW s \in C!Sims, Got(i, s).ipv4 \notin {None, NoRoom}
      PROVE  /\ ~C!TooMany(i) /\ Got(i, s).ipv4 = C!Allocate(i, s, 4, C!First4(i))
             /\ \A t \in C!Sims : Got(i, t).ipv4 = C!Allocate(i, t, 4, C!First4(i))
  BY <1>6 DEF C!Allocated
<1>7. ASSUME NEW i, NEW s \in C!Sims, Got(i, s).ipv6 # None
      PROVE  \A t \in C!Sims : Got(i, t).ipv6 = C!Allocate(i, t, 6, C!First6(i) + 2)
  BY <1>7 DEF C!Allocated
<1> HIDE DEF Got
<1>8. ASSUME NEW i \in 1..2, NEW s \in C!Sims, NEW t \in C!Sims,
             Got(i, s).ipv4 \notin {None, NoRoom}, C!ForcedBy(i, s, 4) = None
      PROVE  /\ Got(i, s).ipv4 \in C!First4(i)..C!Last4(i)
             /\ s # t /\ C!Spelled(i, t, 4) => Got(i, s).ipv4 # Got(i, t).ipv4
  BY <1>3, <1>4, <1>5, <1>6, <1>8
<1>9. ASSUME NEW i \in 1..2, NEW s \in C!Sims, NEW t \in C!Sims, s # t,
             Got(i, s).ipv6 # None, C!ForcedBy(i, s, 6) = None, C!Spelled(i, t, 6)
      PROVE  Got(i, s).ipv6 # Got(i, t).ipv6
  BY <1>3, <1>4, <1>7, <1>9
<1>10. ASSUME NEW i, C!Unset4(i)
       PROVE  C!Range4(i).first = C!First4(i) /\ C!Range4(i).last = C!Last4(i)
  BY <1>10 DEF C!Range4, C!Unset4, C!SetDefault
<1> QED
  BY <1>1, <1>2, <1>8, <1>9, <1>10 DEF C!AddressesAreDistinct

\* However many SIM cards there are and whatever they force, in whatever spelling, for every
\* network and whatever ranges are set: an address that is handed out is that of no other
\* SIM card, except of one that forces it in another spelling; ranges that are not set do
\* not meet; and of two enabled SIM cards each has an IMSI of its own.
THEOREM SimsStayApart ==
    ASSUME NetworkConstants
    PROVE  ProgramsSpec => []SimsAreKeptApart
<1> DEFINE IInv == program = "core network" => NetworkInv
<1>1. ProgramsInit => IInv
  <2> SUFFICES ASSUME C!Init PROVE NetworkInv
    BY DEF ProgramsInit
  <2>1. network \in Tunnel /\ ~done
    BY DEF C!Init
  <2>2. PICK n \in 0..MaxShared : shared_list \in [1..n -> SharedSims]
    BY DEF C!Init
  <2>3. DOMAIN pdns \in {1..1, 1..2} /\ Len(pdns) \in {1, 2}
    <3>1. (\E f \in Pdn : pdns = <<f>>) \/ (\E f, g \in Pdn : pdns = <<f, g>>)
      BY DEF C!Init
    <3>2. CASE \E f \in Pdn : pdns = <<f>>
      BY <3>2
    <3>3. CASE \E f, g \in Pdn : pdns = <<f, g>>
      BY <3>3
    <3> QED
      BY <3>1, <3>2, <3>3
  <2> QED
    BY <2>1, <2>2, <2>3 DEF NetworkInv
<1>2. IInv /\ [ProgramsNext]_all => IInv'
  <2> SUFFICES ASSUME IInv, [ProgramsNext]_all, program' = "core network" PROVE NetworkInv'
    OBVIOUS
  <2>1. CASE ProgramsNext
    BY <2>1, NetworkStep DEF ProgramsNext
  <2>2. CASE UNCHANGED all
    <3>1. program = "core network" /\ UNCHANGED C!vars
      BY <2>2 DEF all, C!vars
    <3> QED
      BY <3>1, NetworkStep
  <2> QED
    BY <2>1, <2>2
<1>3. IInv => SimsAreKeptApart
  BY AddressesApart, RangesApart, EnabledApart DEF SimsAreKeptApart, C!SimsAreKeptApart
<1> QED
  BY <1>1, <1>2, <1>3, PTL DEF ProgramsSpec

-----------------------------------------------------------------------------
(* FrameThreads. *)

\* What run i of a frame counts for x, and the recursive function of Count on the first k.
RunOf(frame, x, i) == IF frame[i][1] = x THEN frame[i][2] ELSE 0
IsCount(n, frame, x, k) == n = [i \in 0..k |-> IF i = 0 THEN 0 ELSE n[i - 1] + RunOf(frame, x, i)]

\* That function exists (the step from k to k + 1, and the least k without one).
LEMMA CountExists ==
    ASSUME NEW frame, NEW x, NEW m \in Nat
    PROVE  \E n : IsCount(n, frame, x, m)
<1> DEFINE Good(k) == \E n : IsCount(n, frame, x, k)
           bad == {k \in Nat : ~Good(k)}
<1>1. Good(0)
  <2> DEFINE n == [i \in 0..0 |-> 0]
  <2>1. n = [i \in 0..0 |-> IF i = 0 THEN 0 ELSE n[i - 1] + RunOf(frame, x, i)]
    OBVIOUS
  <2> QED
    BY <2>1 DEF IsCount
<1>2. ASSUME NEW k \in Nat, Good(k) PROVE Good(k + 1)
  <2>1. PICK n : n = [i \in 0..k |-> IF i = 0 THEN 0 ELSE n[i - 1] + RunOf(frame, x, i)]
    BY <1>2 DEF IsCount
  <2> DEFINE f == [i \in 0..k + 1 |-> IF i = k + 1 THEN n[k] + RunOf(frame, x, k + 1) ELSE n[i]]
  <2>2. ASSUME NEW i \in 0..k + 1 PROVE f[i] = IF i = 0 THEN 0 ELSE f[i - 1] + RunOf(frame, x, i)
    <3>1. CASE i = k + 1
      <4>1. i # 0 /\ i - 1 = k /\ k \in 0..k + 1 /\ k # k + 1
        BY <3>1
      <4>2. f[i] = n[k] + RunOf(frame, x, i) /\ f[i - 1] = n[k]
        BY <3>1, <4>1
      <4> QED
        BY <4>1, <4>2
    <3>2. CASE i = 0
      <4>1. f[i] = n[i] /\ i \in 0..k
        BY <3>2
      <4>2. n[i] = 0
        BY <2>1, <3>2, <4>1
      <4> QED
        BY <3>2, <4>1, <4>2
    <3>3. CASE i # 0 /\ i # k + 1
      <4>1. i \in 0..k /\ i - 1 \in 0..k + 1 /\ i - 1 # k + 1
        BY <3>3
      <4>2. f[i] = n[i] /\ f[i - 1] = n[i - 1]
        BY <3>3, <4>1
      <4>3. n[i] = n[i - 1] + RunOf(frame, x, i)
        BY <2>1, <3>3, <4>1
      <4> QED
        BY <3>3, <4>2, <4>3
    <3> QED
      BY <3>1, <3>2, <3>3
  <2>3. f = [i \in 0..k + 1 |-> IF i = 0 THEN 0 ELSE f[i - 1] + RunOf(frame, x, i)]
    <3>1. f = [i \in 0..k + 1 |-> f[i]]
      OBVIOUS
    <3> HIDE DEF f
    <3> QED
      BY <2>2, <3>1
  <2> HIDE DEF f
  <2> QED
    BY <2>3 DEF IsCount
<1> HIDE DEF Good
<1>3. ASSUME bad # {} PROVE FALSE
  <2>1. PICK k \in bad : \A l \in bad : k <= l
    BY <1>3, Least
  <2>2. k # 0 /\ k \in Nat
    BY <1>1
  <2>3. k - 1 \in Nat /\ k - 1 \notin bad
    BY <2>1, <2>2
  <2>4. Good(k - 1)
    BY <2>3
  <2>5. Good(k - 1 + 1)
    BY <1>2, <2>3, <2>4
  <2>6. k - 1 + 1 = k
    BY <2>2
  <2> QED
    BY <2>1, <2>5, <2>6
<1>4. Good(m)
  BY <1>3
<1> QED
  BY <1>4 DEF Good

\* Count adds up the runs.
LEMMA CountIs ==
    ASSUME NEW frame, Len(frame) \in Nat, NEW x
    PROVE  \E n : /\ n[0] = 0 /\ F!Count(frame, x) = n[Len(frame)]
                  /\ \A i \in 1..Len(frame) : n[i] = n[i - 1] + RunOf(frame, x, i)
<1> DEFINE m == Len(frame)
           n == CHOOSE g : IsCount(g, frame, x, m)
<1>1. F!Count(frame, x) = n[m]
  BY DEF F!Count, IsCount, RunOf
<1>2. n = [i \in 0..m |-> IF i = 0 THEN 0 ELSE n[i - 1] + RunOf(frame, x, i)]
  BY CountExists DEF IsCount
<1> HIDE DEF n, m
<1>3. m \in Nat
  BY DEF m
<1>4. n[0] = 0 /\ \A i \in 1..m : n[i] = n[i - 1] + RunOf(frame, x, i)
  BY <1>2, <1>3
<1> QED
  BY <1>1, <1>4 DEF m

\* Count of a short frame.
LEMMA CountOf ==
    ASSUME NEW x, NEW frame, Len(frame) \in Nat
    PROVE  /\ Len(frame) = 2 => F!Count(frame, x) = 0 + RunOf(frame, x, 1) + RunOf(frame, x, 2)
           /\ Len(frame) = 3 => F!Count(frame, x) =
                 0 + RunOf(frame, x, 1) + RunOf(frame, x, 2) + RunOf(frame, x, 3)
           /\ Len(frame) = 4 => F!Count(frame, x) =
                 0 + RunOf(frame, x, 1) + RunOf(frame, x, 2) + RunOf(frame, x, 3) + RunOf(frame, x, 4)
           /\ Len(frame) = 6 => F!Count(frame, x) =
                 0 + RunOf(frame, x, 1) + RunOf(frame, x, 2) + RunOf(frame, x, 3) + RunOf(frame, x, 4)
                   + RunOf(frame, x, 5) + RunOf(frame, x, 6)
           /\ Len(frame) = 7 => F!Count(frame, x) =
                 0 + RunOf(frame, x, 1) + RunOf(frame, x, 2) + RunOf(frame, x, 3) + RunOf(frame, x, 4)
                   + RunOf(frame, x, 5) + RunOf(frame, x, 6) + RunOf(frame, x, 7)
<1>1. PICK n : /\ n[0] = 0 /\ F!Count(frame, x) = n[Len(frame)]
               /\ \A i \in 1..Len(frame) : n[i] = n[i - 1] + RunOf(frame, x, i)
  BY CountIs
<1>2. \A i, j : i \in 1..Len(frame) /\ j = i - 1 => n[i] = n[j] + RunOf(frame, x, i)
  BY <1>1
<1>3. Len(frame) >= 2 => n[1] = n[0] + RunOf(frame, x, 1) /\ n[2] = n[1] + RunOf(frame, x, 2)
  BY <1>2
<1>4. Len(frame) >= 3 => n[3] = n[2] + RunOf(frame, x, 3)
  BY <1>2
<1>5. Len(frame) >= 4 => n[4] = n[3] + RunOf(frame, x, 4)
  BY <1>2
<1>6. Len(frame) >= 6 => n[5] = n[4] + RunOf(frame, x, 5) /\ n[6] = n[5] + RunOf(frame, x, 6)
  BY <1>2
<1>7. Len(frame) >= 7 => n[7] = n[6] + RunOf(frame, x, 7)
  BY <1>2
<1>8. ASSUME Len(frame) = 2
       PROVE  F!Count(frame, x) =
                 0 + RunOf(frame, x, 1) + RunOf(frame, x, 2)
  <2>1. Len(frame) >= 2
    BY <1>8
  <2>2. F!Count(frame, x) = n[2]
    BY <1>1, <1>8
  <2> QED
    BY <1>1, <1>3, <2>1, <2>2
<1>9. ASSUME Len(frame) = 3
       PROVE  F!Count(frame, x) =
                 0 + RunOf(frame, x, 1) + RunOf(frame, x, 2) + RunOf(frame, x, 3)
  <2>1. Len(frame) >= 2 /\ Len(frame) >= 3
    BY <1>9
  <2>2. F!Count(frame, x) = n[3]
    BY <1>1, <1>9
  <2> QED
    BY <1>1, <1>3, <1>4, <2>1, <2>2
<1>10. ASSUME Len(frame) = 4
       PROVE  F!Count(frame, x) =
                 0 + RunOf(frame, x, 1) + RunOf(frame, x, 2) + RunOf(frame, x, 3) + RunOf(frame, x, 4)
  <2>1. Len(frame) >= 2 /\ Len(frame) >= 3 /\ Len(frame) >= 4
    BY <1>10
  <2>2. F!Count(frame, x) = n[4]
    BY <1>1, <1>10
  <2> QED
    BY <1>1, <1>3, <1>4, <1>5, <2>1, <2>2
<1>11. ASSUME Len(frame) = 6
       PROVE  F!Count(frame, x) =
                 0 + RunOf(frame, x, 1) + RunOf(frame, x, 2) + RunOf(frame, x, 3) + RunOf(frame, x, 4)
                   + RunOf(frame, x, 5) + RunOf(frame, x, 6)
  <2>1. Len(frame) >= 2 /\ Len(frame) >= 3 /\ Len(frame) >= 4 /\ Len(frame) >= 6
    BY <1>11
  <2>2. F!Count(frame, x) = n[6]
    BY <1>1, <1>11
  <2> QED
    BY <1>1, <1>3, <1>4, <1>5, <1>6, <2>1, <2>2
<1>12. ASSUME Len(frame) = 7
       PROVE  F!Count(frame, x) =
                 0 + RunOf(frame, x, 1) + RunOf(frame, x, 2) + RunOf(frame, x, 3) + RunOf(frame, x, 4)
                   + RunOf(frame, x, 5) + RunOf(frame, x, 6) + RunOf(frame, x, 7)
  <2>1. Len(frame) >= 2 /\ Len(frame) >= 3 /\ Len(frame) >= 4 /\ Len(frame) >= 6 /\ Len(frame) >= 7
    BY <1>12
  <2>2. F!Count(frame, x) = n[7]
    BY <1>1, <1>12
  <2> QED
    BY <1>1, <1>3, <1>4, <1>5, <1>6, <1>7, <2>1, <2>2
<1> QED
  BY <1>8, <1>9, <1>10, <1>11, <1>12

\* The frames of the tables: how many slots are downlink, special and uplink.
LEMMA FrameOfTwo ==
    ASSUME NEW a \in Nat
    PROVE  /\ F!Count(<<F!D(a), F!S>>, "D") = a
           /\ F!Count(<<F!D(a), F!S>>, "S") = 1
           /\ F!Count(<<F!D(a), F!S>>, "U") = 0
<1> DEFINE frame == <<F!D(a), F!S>>
<1>1. Len(frame) = 2 /\ Len(frame) \in Nat
  OBVIOUS
<1>2. frame[1] = F!D(a) /\ frame[2] = F!S
  OBVIOUS
<1> HIDE DEF frame
<1>3. F!Count(frame, "D") = a
  <2>1. RunOf(frame, "D", 1) = a /\ RunOf(frame, "D", 2) = 0
    BY <1>2 DEF RunOf, F!D, F!S, F!U
  <2> QED
    BY <1>1, <2>1, CountOf
<1>4. F!Count(frame, "S") = 1
  <2>1. RunOf(frame, "S", 1) = 0 /\ RunOf(frame, "S", 2) = 1
    BY <1>2 DEF RunOf, F!D, F!S, F!U
  <2> QED
    BY <1>1, <2>1, CountOf
<1>5. F!Count(frame, "U") = 0
  <2>1. RunOf(frame, "U", 1) = 0 /\ RunOf(frame, "U", 2) = 0
    BY <1>2 DEF RunOf, F!D, F!S, F!U
  <2> QED
    BY <1>1, <2>1, CountOf
<1> QED
  BY <1>3, <1>4, <1>5 DEF frame

\* The same for 3 runs.
LEMMA FrameOfThree ==
    ASSUME NEW a \in Nat, NEW b \in Nat
    PROVE  /\ F!Count(<<F!D(a), F!S, F!U(b)>>, "D") = a
           /\ F!Count(<<F!D(a), F!S, F!U(b)>>, "S") = 1
           /\ F!Count(<<F!D(a), F!S, F!U(b)>>, "U") = b
<1> DEFINE frame == <<F!D(a), F!S, F!U(b)>>
<1>1. Len(frame) = 3 /\ Len(frame) \in Nat
  OBVIOUS
<1>2. frame[1] = F!D(a) /\ frame[2] = F!S /\ frame[3] = F!U(b)
  OBVIOUS
<1> HIDE DEF frame
<1>3. F!Count(frame, "D") = a
  <2>1. RunOf(frame, "D", 1) = a /\ RunOf(frame, "D", 2) = 0 /\ RunOf(frame, "D", 3) = 0
    BY <1>2 DEF RunOf, F!D, F!S, F!U
  <2> QED
    BY <1>1, <2>1, CountOf
<1>4. F!Count(frame, "S") = 1
  <2>1. RunOf(frame, "S", 1) = 0 /\ RunOf(frame, "S", 2) = 1 /\ RunOf(frame, "S", 3) = 0
    BY <1>2 DEF RunOf, F!D, F!S, F!U
  <2> QED
    BY <1>1, <2>1, CountOf
<1>5. F!Count(frame, "U") = b
  <2>1. RunOf(frame, "U", 1) = 0 /\ RunOf(frame, "U", 2) = 0 /\ RunOf(frame, "U", 3) = b
    BY <1>2 DEF RunOf, F!D, F!S, F!U
  <2> QED
    BY <1>1, <2>1, CountOf
<1> QED
  BY <1>3, <1>4, <1>5 DEF frame

\* The same for 4 runs.
LEMMA FrameOfFour ==
    ASSUME NEW a \in Nat, NEW b \in Nat, NEW c \in Nat
    PROVE  /\ F!Count(<<F!D(a), F!S, F!U(b), F!D(c)>>, "D") = a + c
           /\ F!Count(<<F!D(a), F!S, F!U(b), F!D(c)>>, "S") = 1
           /\ F!Count(<<F!D(a), F!S, F!U(b), F!D(c)>>, "U") = b
<1> DEFINE frame == <<F!D(a), F!S, F!U(b), F!D(c)>>
<1>1. Len(frame) = 4 /\ Len(frame) \in Nat
  OBVIOUS
<1>2. frame[1] = F!D(a) /\ frame[2] = F!S /\ frame[3] = F!U(b) /\ frame[4] = F!D(c)
  OBVIOUS
<1> HIDE DEF frame
<1>3. F!Count(frame, "D") = a + c
  <2>1. /\ RunOf(frame, "D", 1) = a /\ RunOf(frame, "D", 2) = 0 /\ RunOf(frame, "D", 3) = 0
        /\ RunOf(frame, "D", 4) = c
    BY <1>2 DEF RunOf, F!D, F!S, F!U
  <2> QED
    BY <1>1, <2>1, CountOf
<1>4. F!Count(frame, "S") = 1
  <2>1. /\ RunOf(frame, "S", 1) = 0 /\ RunOf(frame, "S", 2) = 1 /\ RunOf(frame, "S", 3) = 0
        /\ RunOf(frame, "S", 4) = 0
    BY <1>2 DEF RunOf, F!D, F!S, F!U
  <2> QED
    BY <1>1, <2>1, CountOf
<1>5. F!Count(frame, "U") = b
  <2>1. /\ RunOf(frame, "U", 1) = 0 /\ RunOf(frame, "U", 2) = 0 /\ RunOf(frame, "U", 3) = b
        /\ RunOf(frame, "U", 4) = 0
    BY <1>2 DEF RunOf, F!D, F!S, F!U
  <2> QED
    BY <1>1, <2>1, CountOf
<1> QED
  BY <1>3, <1>4, <1>5 DEF frame

\* The same for 6 runs.
LEMMA FrameOfSix ==
    ASSUME NEW a \in Nat, NEW b \in Nat, NEW c \in Nat, NEW d \in Nat
    PROVE  /\ F!Count(<<F!D(a), F!S, F!U(b), F!D(c), F!S, F!U(d)>>, "D") = a + c
           /\ F!Count(<<F!D(a), F!S, F!U(b), F!D(c), F!S, F!U(d)>>, "S") = 2
           /\ F!Count(<<F!D(a), F!S, F!U(b), F!D(c), F!S, F!U(d)>>, "U") = b + d
<1> DEFINE frame == <<F!D(a), F!S, F!U(b), F!D(c), F!S, F!U(d)>>
<1>1. Len(frame) = 6 /\ Len(frame) \in Nat
  OBVIOUS
<1>2. frame[1] = F!D(a) /\ frame[2] = F!S /\ frame[3] = F!U(b) /\ frame[4] = F!D(c) /\ frame[5] = F!S /\ frame[6] = F!U(d)
  OBVIOUS
<1> HIDE DEF frame
<1>3. F!Count(frame, "D") = a + c
  <2>1. /\ RunOf(frame, "D", 1) = a /\ RunOf(frame, "D", 2) = 0 /\ RunOf(frame, "D", 3) = 0
        /\ RunOf(frame, "D", 4) = c /\ RunOf(frame, "D", 5) = 0 /\ RunOf(frame, "D", 6) = 0
    BY <1>2 DEF RunOf, F!D, F!S, F!U
  <2> QED
    BY <1>1, <2>1, CountOf
<1>4. F!Count(frame, "S") = 2
  <2>1. /\ RunOf(frame, "S", 1) = 0 /\ RunOf(frame, "S", 2) = 1 /\ RunOf(frame, "S", 3) = 0
        /\ RunOf(frame, "S", 4) = 0 /\ RunOf(frame, "S", 5) = 1 /\ RunOf(frame, "S", 6) = 0
    BY <1>2 DEF RunOf, F!D, F!S, F!U
  <2> QED
    BY <1>1, <2>1, CountOf
<1>5. F!Count(frame, "U") = b + d
  <2>1. /\ RunOf(frame, "U", 1) = 0 /\ RunOf(frame, "U", 2) = 0 /\ RunOf(frame, "U", 3) = b
        /\ RunOf(frame, "U", 4) = 0 /\ RunOf(frame, "U", 5) = 0 /\ RunOf(frame, "U", 6) = d
    BY <1>2 DEF RunOf, F!D, F!S, F!U
  <2> QED
    BY <1>1, <2>1, CountOf
<1> QED
  BY <1>3, <1>4, <1>5 DEF frame

\* The same for 7 runs.
LEMMA FrameOfSeven ==
    ASSUME NEW a \in Nat, NEW b \in Nat, NEW c \in Nat, NEW d \in Nat, NEW e \in Nat
    PROVE  /\ F!Count(<<F!D(a), F!S, F!U(b), F!D(c), F!S, F!U(d), F!D(e)>>, "D") = a + c + e
           /\ F!Count(<<F!D(a), F!S, F!U(b), F!D(c), F!S, F!U(d), F!D(e)>>, "S") = 2
           /\ F!Count(<<F!D(a), F!S, F!U(b), F!D(c), F!S, F!U(d), F!D(e)>>, "U") = b + d
<1> DEFINE frame == <<F!D(a), F!S, F!U(b), F!D(c), F!S, F!U(d), F!D(e)>>
<1>1. Len(frame) = 7 /\ Len(frame) \in Nat
  OBVIOUS
<1>2. frame[1] = F!D(a) /\ frame[2] = F!S /\ frame[3] = F!U(b) /\ frame[4] = F!D(c) /\ frame[5] = F!S /\ frame[6] = F!U(d) /\ frame[7] = F!D(e)
  OBVIOUS
<1> HIDE DEF frame
<1>3. F!Count(frame, "D") = a + c + e
  <2>1. /\ RunOf(frame, "D", 1) = a /\ RunOf(frame, "D", 2) = 0 /\ RunOf(frame, "D", 3) = 0
        /\ RunOf(frame, "D", 4) = c /\ RunOf(frame, "D", 5) = 0 /\ RunOf(frame, "D", 6) = 0
        /\ RunOf(frame, "D", 7) = e
    BY <1>2 DEF RunOf, F!D, F!S, F!U
  <2> QED
    BY <1>1, <2>1, CountOf
<1>4. F!Count(frame, "S") = 2
  <2>1. /\ RunOf(frame, "S", 1) = 0 /\ RunOf(frame, "S", 2) = 1 /\ RunOf(frame, "S", 3) = 0
        /\ RunOf(frame, "S", 4) = 0 /\ RunOf(frame, "S", 5) = 1 /\ RunOf(frame, "S", 6) = 0
        /\ RunOf(frame, "S", 7) = 0
    BY <1>2 DEF RunOf, F!D, F!S, F!U
  <2> QED
    BY <1>1, <2>1, CountOf
<1>5. F!Count(frame, "U") = b + d
  <2>1. /\ RunOf(frame, "U", 1) = 0 /\ RunOf(frame, "U", 2) = 0 /\ RunOf(frame, "U", 3) = b
        /\ RunOf(frame, "U", 4) = 0 /\ RunOf(frame, "U", 5) = 0 /\ RunOf(frame, "U", 6) = d
        /\ RunOf(frame, "U", 7) = 0
    BY <1>2 DEF RunOf, F!D, F!S, F!U
  <2> QED
    BY <1>1, <2>1, CountOf
<1> QED
  BY <1>3, <1>4, <1>5 DEF frame

\* What a row of the table of NR is to be, and one of LTE.
NrRow(c, row, ps) ==
    /\ F!Count(row.frame, "D") + F!Count(row.frame, "S") + F!Count(row.frame, "U") = F!Period(ps)
    /\ c # 7 => F!Count(row.frame, "D") = row.dl /\ F!Count(row.frame, "U") = row.ul
    /\ F!Amount(ps, "ul") = (14 * row.ul + row.sul) * F!Period(ps)
    /\ F!Amount(ps, "dl") = (14 * row.dl + row.sdl) * F!Period(ps)
LteRow(frame, ul, dl) ==
    /\ (14 * ul[1] + 2 * ul[2]) * 10 = F!LettersOf(frame, "ul") * 10
    /\ (14 * dl[1] + 10 * dl[2]) * 10 = F!LettersOf(frame, "dl") * 10

\* A row of NR whose letters are counted: with one pattern, and with two.
LEMMA NrRowOfOne ==
    ASSUME NEW c, NEW row, NEW p, NEW d \in Nat, NEW u \in Nat,
           F!Count(row.frame, "D") = d, F!Count(row.frame, "S") = 1, F!Count(row.frame, "U") = u,
           p.period = d + 1 + u, c # 7 => d = row.dl /\ u = row.ul,
           p.ul = row.ul /\ p.dl = row.dl /\ p.sul = row.sul /\ p.sdl = row.sdl
    PROVE  NrRow(c, row, <<p>>)
<1> DEFINE ps == <<p>>
<1>1. Len(ps) = 1 /\ ps[1] = p
  OBVIOUS
<1> HIDE DEF ps
<1>2. F!Period(ps) = p.period
  BY <1>1 DEF F!Period
<1>3. /\ F!Amount(ps, "ul") = (14 * p.ul + p.sul) * p.period
      /\ F!Amount(ps, "dl") = (14 * p.dl + p.sdl) * p.period
  BY <1>1 DEF F!Amount, F!Part
<1>4. d + 1 + u = p.period
  OBVIOUS
<1>5. NrRow(c, row, ps)
  BY <1>2, <1>3, <1>4 DEF NrRow
<1> QED
  BY <1>5 DEF ps

\* The same for two patterns of 5 ms together, of which the second has downlink only.
LEMMA NrRowOfTwo ==
    ASSUME NEW c, NEW row, NEW p, NEW q, NEW d \in Nat, NEW u \in Nat,
           F!Count(row.frame, "D") = d, F!Count(row.frame, "S") = 1, F!Count(row.frame, "U") = u,
           row.dl = d, row.ul = u, row.sul \in Nat, row.sdl \in Nat,
           q.sul = 0, q.sdl = 0, q.ul = 0, q.dl \in Nat, p.dl \in Nat,
           p.period \in Nat, q.period \in Nat, p.period + q.period = 10, d + 1 + u = 10,
           p.ul = u, p.dl + q.dl = d, p.sul = row.sul, p.sdl = row.sdl
    PROVE  NrRow(c, row, <<p, q>>)
<1> DEFINE ps == <<p, q>>
<1>1. Len(ps) = 2 /\ ps[1] = p /\ ps[2] = q
  OBVIOUS
<1> HIDE DEF ps
<1>2. F!Period(ps) = 10
  BY <1>1 DEF F!Period
<1>3. /\ F!Amount(ps, "ul") = (((14 * p.ul + p.sul) + (14 * q.ul + q.sul)) * 100) \div (p.period + q.period)
      /\ F!Amount(ps, "dl") = (((14 * p.dl + p.sdl) + (14 * q.dl + q.sdl)) * 100) \div (p.period + q.period)
  BY <1>1 DEF F!Amount, F!Part
<1>4. /\ (14 * p.ul + p.sul) + (14 * q.ul + q.sul) = 14 * u + row.sul
      /\ (14 * p.dl + p.sdl) + (14 * q.dl + q.sdl) = 14 * d + row.sdl
      /\ 14 * u + row.sul \in Nat /\ 14 * d + row.sdl \in Nat
  <2>1. 14 * q.ul + q.sul = 0
    OBVIOUS
  <2>2. 14 * p.ul + p.sul = 14 * u + row.sul /\ 14 * u + row.sul \in Nat
    OBVIOUS
  <2>3. (14 * p.dl + p.sdl) + (14 * q.dl + q.sdl) = 14 * (p.dl + q.dl) + row.sdl
    OBVIOUS
  <2>4. 14 * d + row.sdl \in Nat
    OBVIOUS
  <2> QED
    BY <2>1, <2>2, <2>3, <2>4
<1>5. \A k \in Nat : (k * 100) \div 10 = k * 10
  OBVIOUS
<1>6. /\ F!Amount(ps, "ul") = (14 * u + row.sul) * 10
      /\ F!Amount(ps, "dl") = (14 * d + row.sdl) * 10
  BY <1>3, <1>4, <1>5
<1>7. NrRow(c, row, ps)
  BY <1>2, <1>6 DEF NrRow
<1> QED
  BY <1>7 DEF ps

\* The table of NR.
LEMMA NrRows ==
    \A c \in 1..10 : NrRow(c, F!NR_TDD_CONFIG_MAP[c][1], F!NR_TDD_CONFIG_MAP[c][2])
<1> SUFFICES ASSUME NEW c \in 1..10
             PROVE  NrRow(c, F!NR_TDD_CONFIG_MAP[c][1], F!NR_TDD_CONFIG_MAP[c][2])
  OBVIOUS
<1> DEFINE row == F!NR_TDD_CONFIG_MAP[c][1]
           ps == F!NR_TDD_CONFIG_MAP[c][2]
<1>1. CASE c = 1
  <2> DEFINE p == F!Pattern(10, 2, 7, 4, 6)
  <2>1. row = F!Name(<<F!D(7), F!S, F!U(2)>>, 7, 2, 6, 4) /\ ps = <<p>>
    BY <1>1 DEF F!NR_TDD_CONFIG_MAP
  <2>2. /\ row.frame = <<F!D(7), F!S, F!U(2)>>
        /\ row.dl = 7 /\ row.ul = 2 /\ row.sdl = 6 /\ row.sul = 4
    BY <2>1 DEF F!Name
  <2>3. F!Count(row.frame, "D") = 7 /\ F!Count(row.frame, "S") = 1 /\ F!Count(row.frame, "U") = 2
    BY <2>2, FrameOfThree
  <2>4. p.period = 10 /\ p.ul = 2 /\ p.dl = 7 /\ p.sul = 4 /\ p.sdl = 6
    BY DEF F!Pattern
  <2> HIDE DEF row, ps, p
  <2>5. NrRow(c, row, ps)
    <3>1. 7 \in Nat /\ 2 \in Nat
      OBVIOUS
    <3> QED
      BY <1>1, <2>1, <2>2, <2>3, <2>4, <3>1, NrRowOfOne
  <2> QED
    BY <2>5 DEF row, ps
<1>2. CASE c = 2
  <2> DEFINE p == F!Pattern(6, 2, 3, 4, 6)
             q == F!Pattern(4, 0, 4, 0, 0)
  <2>1. row = F!Name(<<F!D(3), F!S, F!U(2), F!D(4)>>, 7, 2, 6, 4) /\ ps = <<p, q>>
    BY <1>2 DEF F!NR_TDD_CONFIG_MAP
  <2>2. /\ row.frame = <<F!D(3), F!S, F!U(2), F!D(4)>>
        /\ row.dl = 7 /\ row.ul = 2 /\ row.sdl = 6 /\ row.sul = 4
    BY <2>1 DEF F!Name
  <2>3. F!Count(row.frame, "D") = 7 /\ F!Count(row.frame, "S") = 1 /\ F!Count(row.frame, "U") = 2
    BY <2>2, FrameOfFour
  <2>4. p.period = 6 /\ p.ul = 2 /\ p.dl = 3 /\ p.sul = 4 /\ p.sdl = 6
    BY DEF F!Pattern
  <2>5. q.period = 4 /\ q.ul = 0 /\ q.dl = 4 /\ q.sul = 0 /\ q.sdl = 0
    BY DEF F!Pattern
  <2> HIDE DEF row, ps, p, q
  <2>6. NrRow(c, row, ps)
    <3>1. 7 \in Nat /\ 2 \in Nat
      OBVIOUS
    <3> QED
      BY <1>2, <2>1, <2>2, <2>3, <2>4, <2>5, <3>1, NrRowOfTwo
  <2> QED
    BY <2>6 DEF row, ps
<1>3. CASE c = 3
  <2> DEFINE p == F!Pattern(8, 4, 3, 4, 6)
             q == F!Pattern(2, 0, 2, 0, 0)
  <2>1. row = F!Name(<<F!D(3), F!S, F!U(4), F!D(2)>>, 5, 4, 6, 4) /\ ps = <<p, q>>
    BY <1>3 DEF F!NR_TDD_CONFIG_MAP
  <2>2. /\ row.frame = <<F!D(3), F!S, F!U(4), F!D(2)>>
        /\ row.dl = 5 /\ row.ul = 4 /\ row.sdl = 6 /\ row.sul = 4
    BY <2>1 DEF F!Name
  <2>3. F!Count(row.frame, "D") = 5 /\ F!Count(row.frame, "S") = 1 /\ F!Count(row.frame, "U") = 4
    BY <2>2, FrameOfFour
  <2>4. p.period = 8 /\ p.ul = 4 /\ p.dl = 3 /\ p.sul = 4 /\ p.sdl = 6
    BY DEF F!Pattern
  <2>5. q.period = 2 /\ q.ul = 0 /\ q.dl = 2 /\ q.sul = 0 /\ q.sdl = 0
    BY DEF F!Pattern
  <2> HIDE DEF row, ps, p, q
  <2>6. NrRow(c, row, ps)
    <3>1. 5 \in Nat /\ 4 \in Nat
      OBVIOUS
    <3> QED
      BY <1>3, <2>1, <2>2, <2>3, <2>4, <2>5, <3>1, NrRowOfTwo
  <2> QED
    BY <2>6 DEF row, ps
<1>4. CASE c = 4
  <2> DEFINE p == F!Pattern(10, 6, 3, 10, 2)
  <2>1. row = F!Name(<<F!D(3), F!S, F!U(6)>>, 3, 6, 2, 10) /\ ps = <<p>>
    BY <1>4 DEF F!NR_TDD_CONFIG_MAP
  <2>2. /\ row.frame = <<F!D(3), F!S, F!U(6)>>
        /\ row.dl = 3 /\ row.ul = 6 /\ row.sdl = 2 /\ row.sul = 10
    BY <2>1 DEF F!Name
  <2>3. F!Count(row.frame, "D") = 3 /\ F!Count(row.frame, "S") = 1 /\ F!Count(row.frame, "U") = 6
    BY <2>2, FrameOfThree
  <2>4. p.period = 10 /\ p.ul = 6 /\ p.dl = 3 /\ p.sul = 10 /\ p.sdl = 2
    BY DEF F!Pattern
  <2> HIDE DEF row, ps, p
  <2>5. NrRow(c, row, ps)
    <3>1. 3 \in Nat /\ 6 \in Nat
      OBVIOUS
    <3> QED
      BY <1>4, <2>1, <2>2, <2>3, <2>4, <3>1, NrRowOfOne
  <2> QED
    BY <2>5 DEF row, ps
<1>5. CASE c = 5
  <2> DEFINE p == F!Pattern(10, 7, 2, 4, 6)
  <2>1. row = F!Name(<<F!D(2), F!S, F!U(7)>>, 2, 7, 6, 4) /\ ps = <<p>>
    BY <1>5 DEF F!NR_TDD_CONFIG_MAP
  <2>2. /\ row.frame = <<F!D(2), F!S, F!U(7)>>
        /\ row.dl = 2 /\ row.ul = 7 /\ row.sdl = 6 /\ row.sul = 4
    BY <2>1 DEF F!Name
  <2>3. F!Count(row.frame, "D") = 2 /\ F!Count(row.frame, "S") = 1 /\ F!Count(row.frame, "U") = 7
    BY <2>2, FrameOfThree
  <2>4. p.period = 10 /\ p.ul = 7 /\ p.dl = 2 /\ p.sul = 4 /\ p.sdl = 6
    BY DEF F!Pattern
  <2> HIDE DEF row, ps, p
  <2>5. NrRow(c, row, ps)
    <3>1. 2 \in Nat /\ 7 \in Nat
      OBVIOUS
    <3> QED
      BY <1>5, <2>1, <2>2, <2>3, <2>4, <3>1, NrRowOfOne
  <2> QED
    BY <2>5 DEF row, ps
<1>6. CASE c = 6
  <2> DEFINE p == F!Pattern(10, 8, 1, 2, 10)
  <2>1. row = F!Name(<<F!D(1), F!S, F!U(8)>>, 1, 8, 10, 2) /\ ps = <<p>>
    BY <1>6 DEF F!NR_TDD_CONFIG_MAP
  <2>2. /\ row.frame = <<F!D(1), F!S, F!U(8)>>
        /\ row.dl = 1 /\ row.ul = 8 /\ row.sdl = 10 /\ row.sul = 2
    BY <2>1 DEF F!Name
  <2>3. F!Count(row.frame, "D") = 1 /\ F!Count(row.frame, "S") = 1 /\ F!Count(row.frame, "U") = 8
    BY <2>2, FrameOfThree
  <2>4. p.period = 10 /\ p.ul = 8 /\ p.dl = 1 /\ p.sul = 2 /\ p.sdl = 10
    BY DEF F!Pattern
  <2> HIDE DEF row, ps, p
  <2>5. NrRow(c, row, ps)
    <3>1. 1 \in Nat /\ 8 \in Nat
      OBVIOUS
    <3> QED
      BY <1>6, <2>1, <2>2, <2>3, <2>4, <3>1, NrRowOfOne
  <2> QED
    BY <2>5 DEF row, ps
<1>7. CASE c = 7
  <2> DEFINE p == F!Pattern(5, 2, 2, 4, 6)
  <2>1. row = F!Name(<<F!D(3), F!S, F!U(1)>>, 2, 2, 6, 4) /\ ps = <<p>>
    BY <1>7 DEF F!NR_TDD_CONFIG_MAP
  <2>2. /\ row.frame = <<F!D(3), F!S, F!U(1)>>
        /\ row.dl = 2 /\ row.ul = 2 /\ row.sdl = 6 /\ row.sul = 4
    BY <2>1 DEF F!Name
  <2>3. F!Count(row.frame, "D") = 3 /\ F!Count(row.frame, "S") = 1 /\ F!Count(row.frame, "U") = 1
    BY <2>2, FrameOfThree
  <2>4. p.period = 5 /\ p.ul = 2 /\ p.dl = 2 /\ p.sul = 4 /\ p.sdl = 6
    BY DEF F!Pattern
  <2> HIDE DEF row, ps, p
  <2>5. NrRow(c, row, ps)
    <3>1. 3 \in Nat /\ 1 \in Nat
      OBVIOUS
    <3> QED
      BY <1>7, <2>1, <2>2, <2>3, <2>4, <3>1, NrRowOfOne
  <2> QED
    BY <2>5 DEF row, ps
<1>8. CASE c = 8
  <2> DEFINE p == F!Pattern(5, 3, 1, 4, 6)
  <2>1. row = F!Name(<<F!D(1), F!S, F!U(3)>>, 1, 3, 6, 4) /\ ps = <<p>>
    BY <1>8 DEF F!NR_TDD_CONFIG_MAP
  <2>2. /\ row.frame = <<F!D(1), F!S, F!U(3)>>
        /\ row.dl = 1 /\ row.ul = 3 /\ row.sdl = 6 /\ row.sul = 4
    BY <2>1 DEF F!Name
  <2>3. F!Count(row.frame, "D") = 1 /\ F!Count(row.frame, "S") = 1 /\ F!Count(row.frame, "U") = 3
    BY <2>2, FrameOfThree
  <2>4. p.period = 5 /\ p.ul = 3 /\ p.dl = 1 /\ p.sul = 4 /\ p.sdl = 6
    BY DEF F!Pattern
  <2> HIDE DEF row, ps, p
  <2>5. NrRow(c, row, ps)
    <3>1. 1 \in Nat /\ 3 \in Nat
      OBVIOUS
    <3> QED
      BY <1>8, <2>1, <2>2, <2>3, <2>4, <3>1, NrRowOfOne
  <2> QED
    BY <2>5 DEF row, ps
<1>9. CASE c = 9
  <2> DEFINE p == F!Pattern(5, 3, 1, 1, 9)
  <2>1. row = F!Name(<<F!D(1), F!S, F!U(3)>>, 1, 3, 9, 1) /\ ps = <<p>>
    BY <1>9 DEF F!NR_TDD_CONFIG_MAP
  <2>2. /\ row.frame = <<F!D(1), F!S, F!U(3)>>
        /\ row.dl = 1 /\ row.ul = 3 /\ row.sdl = 9 /\ row.sul = 1
    BY <2>1 DEF F!Name
  <2>3. F!Count(row.frame, "D") = 1 /\ F!Count(row.frame, "S") = 1 /\ F!Count(row.frame, "U") = 3
    BY <2>2, FrameOfThree
  <2>4. p.period = 5 /\ p.ul = 3 /\ p.dl = 1 /\ p.sul = 1 /\ p.sdl = 9
    BY DEF F!Pattern
  <2> HIDE DEF row, ps, p
  <2>5. NrRow(c, row, ps)
    <3>1. 1 \in Nat /\ 3 \in Nat
      OBVIOUS
    <3> QED
      BY <1>9, <2>1, <2>2, <2>3, <2>4, <3>1, NrRowOfOne
  <2> QED
    BY <2>5 DEF row, ps
<1>10. CASE c = 10
  <2> DEFINE p == F!Pattern(2, 0, 1, 12, 0)
  <2>1. row = F!Name(<<F!D(1), F!S>>, 1, 0, 0, 12) /\ ps = <<p>>
    BY <1>10 DEF F!NR_TDD_CONFIG_MAP
  <2>2. /\ row.frame = <<F!D(1), F!S>>
        /\ row.dl = 1 /\ row.ul = 0 /\ row.sdl = 0 /\ row.sul = 12
    BY <2>1 DEF F!Name
  <2>3. F!Count(row.frame, "D") = 1 /\ F!Count(row.frame, "S") = 1 /\ F!Count(row.frame, "U") = 0
    BY <2>2, FrameOfTwo
  <2>4. p.period = 2 /\ p.ul = 0 /\ p.dl = 1 /\ p.sul = 12 /\ p.sdl = 0
    BY DEF F!Pattern
  <2> HIDE DEF row, ps, p
  <2>5. NrRow(c, row, ps)
    <3>1. 1 \in Nat /\ 0 \in Nat
      OBVIOUS
    <3> QED
      BY <1>10, <2>1, <2>2, <2>3, <2>4, <3>1, NrRowOfOne
  <2> QED
    BY <2>5 DEF row, ps
<1> QED
  BY <1>1, <1>2, <1>3, <1>4, <1>5, <1>6, <1>7, <1>8, <1>9, <1>10

\* The table of LTE.
LEMMA LteRows ==
    \A c \in 1..7 : LteRow(F!LTE_TDD_CONFIG_MAP[c], F!LteUl[c], F!LteDl[c])
<1> SUFFICES ASSUME NEW c \in 1..7 PROVE LteRow(F!LTE_TDD_CONFIG_MAP[c], F!LteUl[c], F!LteDl[c])
  OBVIOUS
<1> DEFINE frame == F!LTE_TDD_CONFIG_MAP[c]
           ul == F!LteUl[c]
           dl == F!LteDl[c]
<1>1. CASE c = 1
  <2>1. frame = <<F!D(1), F!S, F!U(3), F!D(1), F!S, F!U(3)>>
    BY <1>1 DEF F!LTE_TDD_CONFIG_MAP
  <2>2. ul[1] = 6 /\ ul[2] = 2 /\ dl[1] = 2 /\ dl[2] = 2
    BY <1>1 DEF F!LteUl, F!LteDl
  <2>3. F!Count(frame, "D") = 2 /\ F!Count(frame, "S") = 2 /\ F!Count(frame, "U") = 6
    BY <2>1, FrameOfSix
  <2> HIDE DEF frame, ul, dl
  <2>4. LteRow(frame, ul, dl)
    BY <2>2, <2>3 DEF LteRow, F!LettersOf
  <2> QED
    BY <2>4 DEF frame, ul, dl
<1>2. CASE c = 2
  <2>1. frame = <<F!D(1), F!S, F!U(2), F!D(2), F!S, F!U(2), F!D(1)>>
    BY <1>2 DEF F!LTE_TDD_CONFIG_MAP
  <2>2. ul[1] = 4 /\ ul[2] = 2 /\ dl[1] = 4 /\ dl[2] = 2
    BY <1>2 DEF F!LteUl, F!LteDl
  <2>3. F!Count(frame, "D") = 4 /\ F!Count(frame, "S") = 2 /\ F!Count(frame, "U") = 4
    BY <2>1, FrameOfSeven
  <2> HIDE DEF frame, ul, dl
  <2>4. LteRow(frame, ul, dl)
    BY <2>2, <2>3 DEF LteRow, F!LettersOf
  <2> QED
    BY <2>4 DEF frame, ul, dl
<1>3. CASE c = 3
  <2>1. frame = <<F!D(1), F!S, F!U(1), F!D(3), F!S, F!U(1), F!D(2)>>
    BY <1>3 DEF F!LTE_TDD_CONFIG_MAP
  <2>2. ul[1] = 2 /\ ul[2] = 2 /\ dl[1] = 6 /\ dl[2] = 2
    BY <1>3 DEF F!LteUl, F!LteDl
  <2>3. F!Count(frame, "D") = 6 /\ F!Count(frame, "S") = 2 /\ F!Count(frame, "U") = 2
    BY <2>1, FrameOfSeven
  <2> HIDE DEF frame, ul, dl
  <2>4. LteRow(frame, ul, dl)
    BY <2>2, <2>3 DEF LteRow, F!LettersOf
  <2> QED
    BY <2>4 DEF frame, ul, dl
<1>4. CASE c = 4
  <2>1. frame = <<F!D(1), F!S, F!U(3), F!D(5)>>
    BY <1>4 DEF F!LTE_TDD_CONFIG_MAP
  <2>2. ul[1] = 3 /\ ul[2] = 1 /\ dl[1] = 6 /\ dl[2] = 1
    BY <1>4 DEF F!LteUl, F!LteDl
  <2>3. F!Count(frame, "D") = 6 /\ F!Count(frame, "S") = 1 /\ F!Count(frame, "U") = 3
    BY <2>1, FrameOfFour
  <2> HIDE DEF frame, ul, dl
  <2>4. LteRow(frame, ul, dl)
    BY <2>2, <2>3 DEF LteRow, F!LettersOf
  <2> QED
    BY <2>4 DEF frame, ul, dl
<1>5. CASE c = 5
  <2>1. frame = <<F!D(1), F!S, F!U(2), F!D(6)>>
    BY <1>5 DEF F!LTE_TDD_CONFIG_MAP
  <2>2. ul[1] = 2 /\ ul[2] = 1 /\ dl[1] = 7 /\ dl[2] = 1
    BY <1>5 DEF F!LteUl, F!LteDl
  <2>3. F!Count(frame, "D") = 7 /\ F!Count(frame, "S") = 1 /\ F!Count(frame, "U") = 2
    BY <2>1, FrameOfFour
  <2> HIDE DEF frame, ul, dl
  <2>4. LteRow(frame, ul, dl)
    BY <2>2, <2>3 DEF LteRow, F!LettersOf
  <2> QED
    BY <2>4 DEF frame, ul, dl
<1>6. CASE c = 6
  <2>1. frame = <<F!D(1), F!S, F!U(1), F!D(7)>>
    BY <1>6 DEF F!LTE_TDD_CONFIG_MAP
  <2>2. ul[1] = 1 /\ ul[2] = 1 /\ dl[1] = 8 /\ dl[2] = 1
    BY <1>6 DEF F!LteUl, F!LteDl
  <2>3. F!Count(frame, "D") = 8 /\ F!Count(frame, "S") = 1 /\ F!Count(frame, "U") = 1
    BY <2>1, FrameOfFour
  <2> HIDE DEF frame, ul, dl
  <2>4. LteRow(frame, ul, dl)
    BY <2>2, <2>3 DEF LteRow, F!LettersOf
  <2> QED
    BY <2>4 DEF frame, ul, dl
<1>7. CASE c = 7
  <2>1. frame = <<F!D(1), F!S, F!U(3), F!D(1), F!S, F!U(2), F!D(1)>>
    BY <1>7 DEF F!LTE_TDD_CONFIG_MAP
  <2>2. ul[1] = 5 /\ ul[2] = 2 /\ dl[1] = 3 /\ dl[2] = 2
    BY <1>7 DEF F!LteUl, F!LteDl
  <2>3. F!Count(frame, "D") = 3 /\ F!Count(frame, "S") = 2 /\ F!Count(frame, "U") = 5
    BY <2>1, FrameOfSeven
  <2> HIDE DEF frame, ul, dl
  <2>4. LteRow(frame, ul, dl)
    BY <2>2, <2>3 DEF LteRow, F!LettersOf
  <2> QED
    BY <2>4 DEF frame, ul, dl
<1> QED
  BY <1>1, <1>2, <1>3, <1>4, <1>5, <1>6, <1>7

\* The configurations are those of the tables, and threads are shared as the amounts say.
FrameInv ==
    /\ cell.type \in {"eNB", "gNB", "NB"} /\ cell.config \in 1..10
    /\ cell.type # "gNB" => cell.config \in 1..7
    /\ done /\ cell.sbc = "PD10ANS" /\ ~both => threads = F!Chosen /\ warning = F!Exceeds

\* The amounts that are reckoned with are those of the frame that is named.
LEMMA AmountsAreOfTheFrame ==
    ASSUME FrameInv, cell.type # "NB"
    PROVE  F!NbUlSlot = F!FrameAmount("ul") /\ F!NbDlSlot = F!FrameAmount("dl")
<1>1. CASE ~cell.tdd
  BY <1>1 DEF F!NbUlSlot, F!NbDlSlot, F!FrameAmount
<1>2. CASE cell.tdd /\ cell.type = "gNB"
  <2>1. NrRow(cell.config, F!NR_TDD_CONFIG_MAP[cell.config][1], F!NR_TDD_CONFIG_MAP[cell.config][2])
    BY NrRows DEF FrameInv
  <2>2. /\ F!NbUlSlot = F!Amount(F!NR_TDD_CONFIG_MAP[cell.config][2], "ul")
        /\ F!NbDlSlot = F!Amount(F!NR_TDD_CONFIG_MAP[cell.config][2], "dl")
        /\ F!FrameAmount("ul") = F!SlotsNamed(cell.config, "ul")
        /\ F!FrameAmount("dl") = F!SlotsNamed(cell.config, "dl")
    BY <1>2 DEF F!NbUlSlot, F!NbDlSlot, F!FrameAmount
  <2> QED
    BY <2>1, <2>2 DEF NrRow, F!SlotsNamed
<1>3. CASE cell.tdd /\ cell.type # "gNB"
  <2>1. LteRow(F!LTE_TDD_CONFIG_MAP[cell.config], F!LteUl[cell.config], F!LteDl[cell.config])
    BY <1>3, LteRows DEF FrameInv
  <2>2. /\ F!NbUlSlot = (14 * F!LteUl[cell.config][1] + 2 * F!LteUl[cell.config][2]) * 10
        /\ F!NbDlSlot = (14 * F!LteDl[cell.config][1] + 10 * F!LteDl[cell.config][2]) * 10
        /\ F!FrameAmount("ul") = F!LettersOf(F!LTE_TDD_CONFIG_MAP[cell.config], "ul") * 10
        /\ F!FrameAmount("dl") = F!LettersOf(F!LTE_TDD_CONFIG_MAP[cell.config], "dl") * 10
    BY <1>3 DEF F!NbUlSlot, F!NbDlSlot, F!FrameAmount
  <2> QED
    BY <2>1, <2>2 DEF LteRow
<1> QED
  BY <1>1, <1>2, <1>3

\* The three ways to share are told apart.
LEMMA WaysDiffer == F!MoreUl # F!MoreDl /\ F!MoreUl # <<>> /\ F!MoreDl # <<>>
<1>1. F!MoreUl.ul = 3 /\ F!MoreDl.ul = 1
  BY DEF F!MoreUl, F!MoreDl
<1>2. "ul" \in DOMAIN F!MoreUl /\ "ul" \in DOMAIN F!MoreDl /\ "ul" \notin DOMAIN <<>>
  BY DEF F!MoreUl, F!MoreDl
<1> QED
  BY <1>1, <1>2

\* Whatever the bandwidths, the antennas and the computers are, a box shares its threads by
\* the frame that the user chose by its name.
THEOREM ThreadsAreOfTheFrame == ProgramsSpec => []ThreadsFollowTheFrame
<1> DEFINE IInv == program = "threads" => FrameInv
<1>1. ProgramsInit => IInv
  <2> SUFFICES ASSUME F!Init PROVE FrameInv
    BY DEF ProgramsInit
  <2>1. DOMAIN F!LTE_TDD_CONFIG_MAP = 1..7
    BY DEF F!LTE_TDD_CONFIG_MAP
  <2>2. cell.type \in {"eNB", "gNB", "NB"} /\ cell.config \in 1..10 /\ ~done
    BY DEF F!Init
  <2>3. cell.type # "gNB" => cell.config \in 1..7
    BY <2>1 DEF F!Init
  <2> QED
    BY <2>2, <2>3, Zenon DEF FrameInv
<1>2. IInv /\ [ProgramsNext]_all => IInv'
  <2> SUFFICES ASSUME IInv, [ProgramsNext]_all, program' = "threads" PROVE FrameInv'
    OBVIOUS
  <2>1. program = "threads" /\ cell' = cell /\ both' = both
    <3>1. program = "threads" /\ (F!ConfigureCpu \/ UNCHANGED all)
      BY DEF ProgramsNext, F!Next, all
    <3> QED
      BY <3>1 DEF F!ConfigureCpu, F!Exceeds, all
  <2>2. F!Chosen' = F!Chosen /\ F!Exceeds' = F!Exceeds
    BY <2>1 DEF F!Chosen, F!Exceeds, F!DownlinkAmount, F!UplinkAmount, F!NbDlSlot, F!NbUlSlot
  <2>3. CASE F!ConfigureCpu
    BY <2>1, <2>2, <2>3 DEF FrameInv, F!ConfigureCpu
  <2>4. CASE UNCHANGED all
    BY <2>1, <2>2, <2>4 DEF FrameInv, all
  <2> QED
    BY <2>1, <2>3, <2>4 DEF ProgramsNext, F!Next
<1>3. IInv => ThreadsFollowTheFrame
  <2> SUFFICES ASSUME FrameInv PROVE F!ThreadsFollowTheFrame
    BY DEF ThreadsFollowTheFrame
  <2>1. cell.type = "gNB" => F!NameIsOneFrame(cell.config)
    BY NrRows DEF NrRow, F!NameIsOneFrame, FrameInv
  <2>2. ASSUME F!Shares
        PROVE  LET down == F!FrameAmount("dl") * cell.bw * cell.dl
                   up == F!FrameAmount("ul") * cell.bw_ul * cell.ul
                   littleDown == down <= 800 * 140
                   littleUp == up <= 80 * 140
               IN  /\ threads = F!MoreUl <=> littleDown
                   /\ threads = F!MoreDl <=> ~littleDown /\ littleUp
                   /\ threads = <<>> <=> ~littleDown /\ ~littleUp
                   /\ warning <=> /\ ~littleDown /\ ~littleUp
                                  /\ up > 300 * 140 \/ (cell.ul >= 2 /\ up > 150 * 140)
    <3> DEFINE down == F!FrameAmount("dl") * cell.bw * cell.dl
               up == F!FrameAmount("ul") * cell.bw_ul * cell.ul
               littleDown == down <= 800 * 140
               littleUp == up <= 80 * 140
               tooMuch == up > 300 * 140 \/ (cell.ul >= 2 /\ up > 150 * 140)
    <3>1. /\ cell.type # "NB" /\ cell.mode = "Automatic"
          /\ threads = F!Chosen /\ warning = F!Exceeds
      BY <2>2 DEF F!Shares, FrameInv
    <3>2. F!DownlinkAmount = down /\ F!UplinkAmount = up
      BY <3>1, AmountsAreOfTheFrame DEF F!DownlinkAmount, F!UplinkAmount
    <3>3. F!Chosen = IF littleDown THEN F!MoreUl ELSE IF littleUp THEN F!MoreDl ELSE <<>>
      BY <3>1, <3>2 DEF F!Chosen
    <3>4. F!Exceeds <=> F!Chosen = <<>> /\ tooMuch
      BY <3>1, <3>2 DEF F!Exceeds
    <3> HIDE DEF down, up, littleDown, littleUp, tooMuch
    <3>5. /\ threads = F!MoreUl <=> littleDown
          /\ threads = F!MoreDl <=> ~littleDown /\ littleUp
          /\ threads = <<>> <=> ~littleDown /\ ~littleUp
      BY <3>1, <3>3, WaysDiffer
    <3>6. warning <=> ~littleDown /\ ~littleUp /\ tooMuch
      BY <3>1, <3>4, <3>5
    <3> QED
      BY <3>5, <3>6 DEF down, up, littleDown, littleUp, tooMuch
  <2> QED
    BY <2>1, <2>2 DEF F!ThreadsFollowTheFrame
<1> QED
  BY <1>1, <1>2, <1>3, PTL DEF ProgramsSpec

-----------------------------------------------------------------------------
(* All of them. *)

\* The steps of the programs are steps of Resilience, or leave it alone.
LEMMA ResilienceRuns == ProgramsSpec => Safely
<1>1. ProgramsInit => Init
  BY DEF ProgramsInit
<1>2. [ProgramsNext]_all => [Next]_vars
  <2>1. CASE UNCHANGED all
    BY <2>1 DEF all
  <2>2. CASE ProgramsNext
    BY <2>2 DEF ProgramsNext, OthersStay, Others
  <2> QED
    BY <2>1, <2>2
<1> QED
  BY <1>1, <1>2, PTL DEF ProgramsSpec, Safely

\* What is exported, transported and restored by the programs: what a clone restored is one
\* export, and a clone that was left without its slapproxy says so.
THEOREM RestoredWhateverRuns == ProgramsSpec => [](RestoredIsOneExport /\ StoppedProxyIsReported)
BY ResilienceRuns, RestoredIsExported, StoppedIsReported, PTL

\* The types of the publication, with its invariant.
LEMMA PublishTypesKept ==
    ASSUME Key \subseteq Nat \ {0}, MaxValues \in Nat \ {0}, MaxFailures \in Nat,
           MaxConfigChanges \in Nat, None \notin Nat
    PROVE  ProgramsSpec => [](program = "publish" => P!TypeOK)
<1>1. ProgramsInit => (program = "publish" => P!TypeOK)
  BY ProgramsBegin, PublishTypes
<1>2. /\ program = "publish" => PublishInv
      /\ program = "publish" => P!TypeOK
      /\ [ProgramsNext]_all
      => (program = "publish" => P!TypeOK)'
  BY ProgramsStep, PublishTypeStep
<1>3. ProgramsSpec => [](program = "publish" => PublishInv)
  BY PublishKept
<1> QED
  BY <1>1, <1>2, <1>3, PTL DEF ProgramsSpec

\* The types of the requests.
LEMMA RequestsTypesKept ==
    ASSUME MaxChanges \in Nat, MaxFaults \in Nat
    PROVE  ProgramsSpec => [](program = "request" => Q!TypeOK)
<1> DEFINE IInv == program = "request" => Q!TypeOK
<1>1. ProgramsInit => IInv
  BY ProgramsBegin, RequestsTypes
<1>2. IInv /\ [ProgramsNext]_all => IInv'
  BY ProgramsStep, RequestsTypeStep
<1> QED
  BY <1>1, <1>2, PTL DEF ProgramsSpec

\* The bounds are natural numbers, and None is no value.
Bounds ==
    /\ MaxDeaths \in Nat /\ MaxChanges \in Nat /\ MaxLines \in Nat /\ MaxRotations \in Nat
    /\ MaxCells \in Nat /\ MaxKeys \in Nat /\ MaxMachineChanges \in Nat /\ MaxStarts \in Nat
    /\ MaxFailures \in Nat /\ MaxConfigChanges \in Nat /\ MaxValues \in Nat \ {0}
    /\ Key \subseteq Nat \ {0} /\ None \notin Nat /\ None \notin Image /\ None \notin M!Content

\* Every program keeps to the types of its variables, whatever the bounds.
THEOREM ProgramsTypes ==
    ASSUME Bounds, PagesConstants, Re6stConstants
    PROVE  ProgramsSpec => []ProgramsTypeOK
<1>1. ProgramsSpec => []TypeOK
  BY ResilienceRuns, Invariance, PTL
<1>2. ProgramsSpec => [](program = "takeover" => T!TypeOK)
  <2>1. (program = "takeover" => TInv) => (program = "takeover" => T!TypeOK)
    BY DEF TInv
  <2>2. ProgramsSpec => [](program = "takeover" => TInv)
    BY TakeoverKept DEF Bounds
  <2> QED
    BY <2>1, <2>2, PTL
<1>3. ProgramsSpec => [](program = "exec" => X!TypeOK)
  <2>1. (program = "exec" => ExecTypes /\ ExecSignals /\ ExecLines) => (program = "exec" => X!TypeOK)
    BY ExecTypesMean
  <2>2. ProgramsSpec => [](program = "exec" => ExecTypes /\ ExecSignals /\ ExecLines)
    BY ExecKept DEF Bounds
  <2> QED
    BY <2>1, <2>2, PTL
<1>4. ProgramsSpec => [](program = "wait" => W!TypeOK)
  <2>1. (program = "wait" => WaitInv) => (program = "wait" => W!TypeOK)
    BY DEF WaitInv
  <2>2. ProgramsSpec => [](program = "wait" => WaitInv)
    BY WaitKept DEF Bounds
  <2> QED
    BY <2>1, <2>2, PTL
<1>5. ProgramsSpec => [](program = "publish" => P!TypeOK)
  BY PublishTypesKept DEF Bounds
<1>6. ProgramsSpec => [](program = "error pages" => E!TypeOK)
  <2>1. (program = "error pages" => PagesInv) => (program = "error pages" => E!TypeOK)
    BY DEF PagesInv
  <2> QED
    BY <2>1, PagesKept, PTL
<1>7. ProgramsSpec => [](program = "notebook" => N!TypeOK)
  <2>1. (program = "notebook" => NotebookInv) => (program = "notebook" => N!TypeOK)
    BY DEF NotebookInv
  <2>2. ProgramsSpec => [](program = "notebook" => NotebookInv)
    BY NotebookKept DEF Bounds
  <2> QED
    BY <2>1, <2>2, PTL
<1>8. ProgramsSpec => [](program = "request" => Q!TypeOK)
  BY RequestsTypesKept, ResilienceAssumption DEF Bounds
<1>9. ProgramsSpec => [](program = "keys" => K!TypeOK)
  <2>1. (program = "keys" => K!TypeOK /\ KeysInv) => (program = "keys" => K!TypeOK)
    OBVIOUS
  <2>2. ProgramsSpec => [](program = "keys" => K!TypeOK /\ KeysInv)
    BY KeysKept DEF Bounds
  <2> QED
    BY <2>1, <2>2, PTL
<1>10. ProgramsSpec => [](program = "re6st" => R!TypeOK)
  <2>1. (program = "re6st" => Re6stInv) => (program = "re6st" => R!TypeOK)
    BY Re6stTypes DEF Re6stInv, Shape
  <2> QED
    BY <2>1, Re6stKept, PTL
<1>11. ProgramsSpec => [](program = "machine" => M!TypeOK)
  <2>1. (program = "machine" => M!TypeOK /\ MachineInv) => (program = "machine" => M!TypeOK)
    OBVIOUS
  <2>2. ProgramsSpec => [](program = "machine" => M!TypeOK /\ MachineInv)
    BY MachineKept DEF Bounds
  <2> QED
    BY <2>1, <2>2, PTL
<1> QED
  BY <1>1, <1>2, <1>3, <1>4, <1>5, <1>6, <1>7, <1>8, <1>9, <1>10, <1>11, PTL DEF ProgramsTypeOK
=============================================================================
