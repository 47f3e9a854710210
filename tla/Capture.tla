------------------------------ MODULE Capture ------------------------------
(***************************************************************************)
(* capture.c: the auditor forks the command, traces it with ptrace and     *)
(* reports each program it executes before the program runs.  The tracer   *)
(* is capture_run_command; the tracee is the child, whose programs are     *)
(* numbered in the order of their exec calls.  A tracee that is stopped    *)
(* stays so until the tracer continues it or somebody kills it.            *)
(***************************************************************************)
EXTENDS Naturals, Sequences

CONSTANTS Text,       \* what /proc/<pid>/cmdline can show of a program
          Blank,      \* an empty command line
          MaxExecs,   \* bound: how many programs the tracee executes
          MaxSignals  \* bound: how many signals it gets

ASSUME CaptureAssumption == /\ MaxExecs \in Nat
                            /\ MaxSignals \in Nat
                            /\ Blank \notin Text

VARIABLES tracer,    \* where capture_run_command is
          tracee,    \* what the child is doing, or would be if it were not stopped
          stop,      \* the kind of ptrace stop it is in
          traced,    \* PTRACE_TRACEME succeeded; nobody looks at its result
          options,   \* PTRACE_O_TRACEEXEC and PTRACE_O_TRACEEXIT are set
          image,     \* the program it runs: the image-th one, 0 for the auditor's own
          text,      \* the command line of that program
          signals,   \* how many signals it got
          reported   \* the programs for which the callback has returned, in order

captureVars == <<tracer, tracee, stop, traced, options, image, text, signals, reported>>

TracerPlace == {"fork", "first", "options", "cont", "wait", "report", "callback", "returned"}
TraceePlace == {"none", "forked", "traceme", "halted", "execvp", "program", "ending", "dead", "reaped"}
Stop == {"none", "signal", "exec", "exit"}

TypeOK == /\ tracer \in TracerPlace
          /\ tracee \in TraceePlace
          /\ stop \in Stop
          /\ traced \in BOOLEAN /\ options \in BOOLEAN /\ (options => traced)
          /\ image \in 0 .. MaxExecs
          /\ text \in Text \cup {Blank}
          /\ signals \in 0 .. MaxSignals
          /\ reported \in Seq(1 .. MaxExecs)

Init == /\ tracer = "fork" /\ tracee = "none" /\ stop = "none"
        /\ traced = FALSE /\ options = FALSE
        /\ image = 0 /\ text = Blank
        /\ signals = 0
        /\ reported = <<>>

-----------------------------------------------------------------------------
(* The tracee: the branch pid == 0, then the command                       *)

Free == stop = "none"

TraceMe == /\ tracee = "forked"
           /\ traced' \in BOOLEAN
           /\ tracee' = "traceme"
           /\ UNCHANGED <<tracer, stop, options, image, text, signals, reported>>

\* raise(SIGSTOP): a ptrace stop, or a plain one that waitpid does not report.
RaiseStop == /\ tracee = "traceme" /\ Free
             /\ \/ traced /\ stop' = "signal" /\ tracee' = "execvp"
                \/ ~traced /\ tracee' = "halted" /\ UNCHANGED stop
             /\ UNCHANGED <<tracer, traced, options, image, text, signals, reported>>

\* A SIGCONT from outside is all that moves a child that is not traced.
Continued == /\ tracee = "halted"
             /\ tracee' = "execvp"
             /\ UNCHANGED <<tracer, stop, traced, options, image, text, signals, reported>>

(* The first program is started by execvp, the next ones by the command    *)
(* itself.  Without the options an exec stops with a mere SIGTRAP.         *)
Exec == /\ tracee \in {"execvp", "program"} /\ Free
        /\ image < MaxExecs
        /\ image' = image + 1
        /\ text' \in Text \cup {Blank}
        /\ tracee' = "program"
        /\ stop' = IF ~traced THEN "none" ELSE IF options THEN "exec" ELSE "signal"
        /\ UNCHANGED <<tracer, traced, options, signals, reported>>

\* The command exits, or execvp fails and the child calls _exit(127).
Exit == /\ tracee \in {"execvp", "program"} /\ Free
        /\ tracee' = "ending"
        /\ stop' = IF traced /\ options THEN "exit" ELSE "none"
        /\ UNCHANGED <<tracer, traced, options, image, text, signals, reported>>

\* SIGKILL, from any stop; the kernel may or may not stop the tracee at its exit.
Kill == /\ tracee \in {"forked", "traceme", "halted", "execvp", "program"}
        /\ tracee' = "ending"
        /\ stop' \in IF traced /\ options THEN {"none", "exit"} ELSE {"none"}
        /\ UNCHANGED <<tracer, traced, options, image, text, signals, reported>>

Die == /\ tracee = "ending" /\ Free
       /\ tracee' = "dead"
       /\ UNCHANGED <<tracer, stop, traced, options, image, text, signals, reported>>

\* Any other signal stops a tracee; the tracer will not pass it on.
Signal == /\ tracee \in {"traceme", "execvp", "program"} /\ Free
          /\ traced
          /\ signals < MaxSignals
          /\ signals' = signals + 1
          /\ stop' = "signal"
          /\ UNCHANGED <<tracer, tracee, traced, options, image, text, reported>>

-----------------------------------------------------------------------------
(* The tracer                                                              *)

Fork == /\ tracer = "fork"
        /\ \/ tracee' = "forked" /\ tracer' = "first"
           \/ tracer' = "returned" /\ UNCHANGED tracee
        /\ UNCHANGED <<stop, traced, options, image, text, signals, reported>>

\* What waitpid finds: a stop, the end of the child, or no child any more.
Waited == \/ stop # "none" /\ UNCHANGED tracee
          \/ tracee = "dead" /\ tracee' = "reaped"
          \/ tracee = "reaped" /\ UNCHANGED tracee

\* The first waitpid, whose status is not looked at.
FirstWait == /\ tracer = "first"
             /\ Waited
             /\ tracer' = "options"
             /\ UNCHANGED <<stop, traced, options, image, text, signals, reported>>

FaultySetOptions == /\ tracer = "options"
                    /\ tracer' = "cont"
                    /\ UNCHANGED <<tracee, stop, traced, options, image, text, signals, reported>>

HopefulSetOptions == /\ tracer = "options"
                     /\ options' = TRUE
                     /\ tracer' = "cont"
                     /\ UNCHANGED <<tracee, stop, traced, image, text, signals, reported>>

\* PTRACE_SETOPTIONS fails unless the tracee is stopped.
SetOptions == /\ tracer = "options"
              /\ options' = (stop # "none")
              /\ tracer' = "cont"
              /\ UNCHANGED <<tracee, stop, traced, image, text, signals, reported>>

\* PTRACE_CONT with signal 0; it fails, unnoticed, if there is no stop to leave.
Cont == /\ tracer = "cont"
        /\ stop' = "none"
        /\ tracer' = "wait"
        /\ UNCHANGED <<tracee, traced, options, image, text, signals, reported>>

LazyAfterStop == IF stop = "exec" THEN "report" ELSE IF stop = "exit" THEN "wait" ELSE "cont"

FaultyAfterStop == IF stop \in {"exec", "exit"} THEN "report" ELSE "cont"

\* Only the stop of an exec is reported.
AfterStop == IF stop = "exec" THEN "report" ELSE "cont"

Wait == /\ tracer = "wait"
        /\ Waited
        /\ tracer' = IF stop = "none" THEN "returned" ELSE AfterStop
        /\ UNCHANGED <<stop, traced, options, image, text, signals, reported>>

(* report_event reads the command line of the stopped program.  It is      *)
(* empty for one that was killed in the stop, at the latest when it is     *)
(* dead, and then there is no event.                                       *)
ReportEvent == /\ tracer = "report"
               /\ \/ (text # Blank /\ tracee # "dead") /\ tracer' = "callback"
                  \/ (text = Blank \/ tracee # "program") /\ tracer' = "cont"
               /\ UNCHANGED <<tracee, stop, traced, options, image, text, signals, reported>>

CallbackReturns == /\ tracer = "callback"
                   /\ reported' = Append(reported, image)
                   /\ tracer' = "cont"
                   /\ UNCHANGED <<tracee, stop, traced, options, image, text, signals>>

TracerStep == Fork \/ FirstWait \/ SetOptions \/ Cont \/ Wait \/ ReportEvent

TraceeStep == TraceMe \/ RaiseStop \/ Continued \/ Exec \/ Exit \/ Kill \/ Die \/ Signal

Next == TracerStep \/ CallbackReturns \/ TraceeStep

Spec == Init /\ [][Next]_captureVars

(* The tracer is scheduled, and a process that is let go at its exit dies. *)
(* Nothing is assumed of the command, nor that the callback returns: after *)
(* a signal queue_push may block for ever.                                 *)
FairSpec == Spec /\ WF_captureVars(TracerStep) /\ WF_captureVars(Die)

-----------------------------------------------------------------------------
(* Properties                                                              *)

(* A program of the traced command runs only after its event was handed to *)
(* the callback and the callback returned, in whatever order signals and   *)
(* exec calls stop it (report_event before PTRACE_CONT, capture.c:57-68).  *)
RunsAfterReport ==
  tracee = "program" /\ Free /\ traced /\ text # Blank =>
     \E i \in 1 .. Len(reported) : reported[i] = image

(* Programs are reported in the order they were executed and none twice,   *)
(* although every exec is followed by other stops of the same kind         *)
(* (capture.c:62-75).                                                      *)
ReportedInOrder ==
  \A i, j \in 1 .. Len(reported) : i < j => reported[i] < reported[j]

(* When the command ends, by itself or killed in any stop, the capture     *)
(* returns: the stop at the exit is left and the child is reaped, unless   *)
(* the tracer is in the callback, which may block for ever (capture.c:56-  *)
(* 60, 71-75, main.c:29-31).  Once the callback returns, so does it.       *)
CommandEndEndsCapture ==
  tracee \in {"ending", "dead"} ~> tracer \in {"returned", "callback"}
=============================================================================
