----------------------------- MODULE GenericExec -----------------------------
(***************************************************************************)
(* generic_exec() of slapos/recipe/librecipe/execute.py with a pidfile and *)
(* its output redirected to files, against logrotate: it moves the files   *)
(* away, reads the pidfile and sends a signal, upon which the wrapper      *)
(* opens the files anew and forwards a signal to the program it runs.      *)
(*                                                                         *)
(* The steps are system calls.  A log file is known by its generation, the *)
(* number of rotations before it was created.  Waiting for files is module *)
(* FileWait; the reserved processor and private file systems are left out. *)
(***************************************************************************)
EXTENDS Integers, FiniteSets

CONSTANTS
    Stream,         \* redirected streams: stdout, stderr
    MaxLines,       \* bound: lines of the program per stream
    MaxRotations    \* bound: rotations

VARIABLES
    pc,             \* of the wrapper, see TypeOK
    on_signal,      \* its disposition: "default", "ignore", "handler"
    pidfile,        \* whose pid the file has: "none", "other" (running), "wrapper"
    trigger,        \* a byte waits in the pipe of the signal handler
    rotated,        \* generation of the files as they are named now
    opened,         \* per stream, generation of the file the wrapper writes to, or -1
    left,           \* logs that are still to be opened
    postrotate,     \* logrotate still has to send its signal
    sent,           \* the signal was sent to the wrapper and not delivered
    child,          \* "none", "starting" (no handler of its own), "ready", "ended", "killed"
    on_child_signal, \* disposition the program started with
    pipes,          \* per stream, lines in the pipe
    written,        \* per stream, lines the program wrote
    logs            \* per open stream, the lines written to the log files

wrapper == <<on_signal, trigger, opened, left>>
program == <<child, on_child_signal>>
rotation == <<rotated, postrotate, sent>>
lines == <<pipes, written, logs>>
vars == <<pc, wrapper, pidfile, program, rotation, lines>>

TypeOK ==
    /\ pc \in {"start", "check", "write pid", "popen", "handle", "reopen", "select", "wait",
               "ended", "refused", "killed"}
    /\ on_signal \in {"default", "ignore", "handler"}
    /\ pidfile \in {"none", "other", "wrapper"}
    /\ trigger \in BOOLEAN /\ postrotate \in BOOLEAN /\ sent \in BOOLEAN
    /\ rotated \in 0..MaxRotations /\ opened \in [Stream -> -1..MaxRotations]
    /\ left \subseteq Stream
    /\ child \in {"none", "starting", "ready", "ended", "killed"}
    /\ on_child_signal \in {"default", "ignore"}
    /\ pipes \in [Stream -> 0..MaxLines] /\ written \in [Stream -> 0..MaxLines]
    /\ logs \in UNION {[open -> 0..MaxLines] : open \in SUBSET Stream}

Init ==
    /\ pc = "start" /\ on_signal = "default"
    /\ pidfile \in {"none", "other"}
    /\ trigger = FALSE /\ rotated = 0
    /\ opened = [s \in Stream |-> -1] /\ left = Stream
    /\ postrotate = FALSE /\ sent = FALSE
    /\ child = "none" /\ on_child_signal = "default"
    /\ pipes = [s \in Stream |-> 0] /\ written = [s \in Stream |-> 0]
    /\ logs = [s \in Stream |-> 0]

-----------------------------------------------------------------------------
(* The wrapper. *)

IgnoreSignal ==
    /\ pc = "start" /\ pc' = "check"
    /\ on_signal' = "ignore"
    /\ UNCHANGED <<trigger, opened, left, pidfile, program, rotation, lines>>

\* "Already running", when a process with these arguments has the pid in the file.
CheckPid ==
    /\ pc = "check"
    /\ pc' = IF pidfile = "other" THEN "refused" ELSE "write pid"
    /\ UNCHANGED <<wrapper, pidfile, program, rotation, lines>>

WritePid ==
    /\ pc = "write pid" /\ pc' = "popen"
    /\ pidfile' = "wrapper"
    /\ UNCHANGED <<wrapper, program, rotation, lines>>

\* Variant of ChildDisposition: preexec_fn leaves the signal of the program alone.
ChildDefault == "default"

\* preexec_fn: the program ignores the signal it will be sent, until it handles it.
ChildDisposition == "ignore"

\* The parent keeps the write ends of the pipes until it opens the log files in their place.
Popen ==
    /\ pc = "popen" /\ pc' = "handle"
    /\ child' = "starting"
    /\ on_child_signal' = ChildDisposition
    /\ UNCHANGED <<wrapper, pidfile, rotation, lines>>

InstallHandler ==
    /\ pc = "handle" /\ pc' = "reopen"
    /\ on_signal' = "handler"
    /\ UNCHANGED <<trigger, opened, left, pidfile, program, rotation, lines>>

\* Variant of TriggerAfterOpening: the byte is read once the files are open.
ReadLast == FALSE

\* A signal that comes while the files are opened asks for another opening.
TriggerAfterOpening == trigger

\* reopen, at first and whenever the trigger was read: one log after the other.
Reopen(s) ==
    /\ pc = "reopen" /\ s \in left
    /\ left' = left \ {s}
    /\ opened' = [opened EXCEPT ![s] = rotated]
    /\ pc' = IF left = {s} THEN "select" ELSE "reopen"
    /\ trigger' = IF left = {s} THEN TriggerAfterOpening ELSE trigger
    /\ UNCHANGED <<on_signal, pidfile, program, rotation, lines>>

ReadTrigger ==
    /\ pc = "select" /\ trigger /\ pc' = "reopen"
    /\ trigger' = FALSE
    /\ left' = DOMAIN logs
    /\ UNCHANGED <<on_signal, opened, pidfile, program, rotation, lines>>

\* A read of at most 1024 bytes, written to the log file.
Copy(s) ==
    /\ pc = "select" /\ s \in DOMAIN logs /\ pipes[s] > 0
    /\ \E n \in 1..pipes[s] :
          /\ pipes' = [pipes EXCEPT ![s] = @ - n]
          /\ logs' = [logs EXCEPT ![s] = @ + n]
    /\ UNCHANGED <<pc, wrapper, pidfile, program, rotation, written>>

\* The signal is ignored again when no log is left.
Waits(open) == open = {}

\* End of file on a stream: its log is closed.
EndOfStream(s) ==
    /\ pc = "select" /\ s \in DOMAIN logs /\ pipes[s] = 0 /\ child \in {"ended", "killed"}
    /\ LET open == DOMAIN logs \ {s}
       IN  /\ logs' = [t \in open |-> logs[t]]
           /\ pc' = IF Waits(open) THEN "wait" ELSE "select"
           /\ on_signal' = IF Waits(open) THEN "ignore" ELSE on_signal
    /\ UNCHANGED <<trigger, opened, left, pidfile, program, rotation, pipes, written>>

\* process.wait(), and the function registered with atexit.
Exit ==
    /\ pc = "wait" /\ child \in {"ended", "killed"} /\ pc' = "ended"
    /\ pidfile' = "none"
    /\ UNCHANGED <<wrapper, program, rotation, lines>>

\* Delivery of the signal: the handler forwards one to the program and fills the trigger.
Deliver ==
    /\ sent /\ sent' = FALSE
    /\ pc' = IF on_signal = "default" THEN "killed" ELSE pc
    /\ trigger' = (trigger \/ on_signal = "handler")
    /\ child' = IF on_signal = "handler" /\ child = "starting" /\ on_child_signal = "default"
                THEN "killed" ELSE child
    /\ UNCHANGED <<on_signal, opened, left, pidfile, on_child_signal, rotated, postrotate,
                   lines>>

-----------------------------------------------------------------------------
(* The program and logrotate. *)

ChildReady ==
    /\ child = "starting" /\ child' = "ready"
    /\ UNCHANGED <<pc, wrapper, pidfile, on_child_signal, rotation, lines>>

Write(s) ==
    /\ child \in {"starting", "ready"} /\ written[s] < MaxLines
    /\ written' = [written EXCEPT ![s] = @ + 1]
    /\ pipes' = [pipes EXCEPT ![s] = @ + 1]
    /\ UNCHANGED <<pc, wrapper, pidfile, program, rotation, logs>>

ChildEnds ==
    /\ child = "ready" /\ child' = "ended"
    /\ UNCHANGED <<pc, wrapper, pidfile, on_child_signal, rotation, lines>>

Rotate ==
    /\ rotated < MaxRotations /\ ~postrotate
    /\ rotated' = rotated + 1
    /\ postrotate' = TRUE
    /\ UNCHANGED <<pc, wrapper, pidfile, program, sent, lines>>

\* Only a process that has its pid in the file is sent the signal.
SendSignal ==
    /\ postrotate /\ postrotate' = FALSE
    /\ sent' = (sent \/ (pidfile = "wrapper" /\ pc # "ended"))
    /\ UNCHANGED <<pc, wrapper, pidfile, program, rotated, lines>>

Wrapper ==
    \/ IgnoreSignal \/ CheckPid \/ WritePid \/ Popen \/ InstallHandler
    \/ ReadTrigger \/ Exit \/ \E s \in Stream : Reopen(s) \/ Copy(s) \/ EndOfStream(s)

Next ==
    \/ Wrapper \/ Deliver \/ ChildReady \/ ChildEnds \/ Rotate \/ SendSignal
    \/ \E s \in Stream : Write(s)

\* The wrapper and logrotate go on; signals are delivered.  Among the descriptors that are
\* ready the one of the trigger is served too.
Fairness ==
    /\ WF_vars(Wrapper) /\ WF_vars(ReadTrigger) /\ WF_vars(Deliver) /\ WF_vars(SendSignal)

Spec == Init /\ [][Next]_vars
FairSpec == Spec /\ Fairness

-----------------------------------------------------------------------------
\* From the moment logrotate can know the pid, its signal kills neither the wrapper nor a
\* program that has not yet set up its handler; and when the wrapper waits for the program
\* to end, every line the program wrote is in a log.
NothingIsKilledOrLost ==
    /\ pc # "killed" /\ child # "killed"
    /\ \A s \in Stream : s \in DOMAIN logs => logs[s] + pipes[s] = written[s]
    /\ pc \in {"wait", "ended"} => \A s \in Stream : pipes[s] = 0 /\ s \notin DOMAIN logs

LogsAreCurrent == \A s \in DOMAIN logs : opened[s] = rotated

\* A wrapper that goes on running follows every rotation: the files it writes to are those
\* that logrotate put in place, whenever the signal arrives.
RotationIsFollowed == []<>(LogsAreCurrent \/ pc \in {"wait", "ended", "refused"})
=============================================================================
