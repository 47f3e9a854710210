----------------------------- MODULE LocalAudit -----------------------------
(***************************************************************************)
(* Two auditors that share one local log: `run --local-only`, which logs   *)
(* what Capture reports, one program after the other, and                  *)
(* `daemon --audit` in the same directory and in the foreground (in the    *)
(* background it is in / and logs elsewhere), which logs what AuditMonitor *)
(* dispatches, while an integrity test and a clear may happen.             *)
(* event_callback is queue_push, which AuditMonitor takes care of, and     *)
(* then local_log_write; its caller waits until it has returned.           *)
(***************************************************************************)
EXTENDS Naturals, Sequences

CONSTANTS RunText, DaemonText,  \* the forms of the texts of events
          MaxExecs,             \* bound: how many events run logs
          Backlog, MaxRecords,  \* of AuditMonitor
          Nothing, MaxCached,   \* of LocalLog
          MaxCuts               \* bound of LocalLog

ASSUME LocalAuditAssumption == /\ MaxExecs \in Nat /\ MaxRecords \in Nat
                               /\ Backlog \in Nat \ {0}
                               /\ MaxCached \in Nat /\ MaxCuts \in Nat

VARIABLES ran,  \* how many events run has handed to event_callback
          apc, sent, waiting, overflowed, dispatched, command,
          inode, made, lines, unended, wpc, fd, ev, tpc, tfd, cache, target,
          written, cut, tampered, short, cleared

Writers == {"run", "daemon"}

A == INSTANCE AuditMonitor
L == INSTANCE LocalLog

auditVars == <<apc, sent, waiting, overflowed, dispatched, command>>
writerVars == <<wpc, fd, ev, written, cut>>
testerVars == <<tpc, tfd, cache, target>>
marks == <<tampered, short, cleared>>
logVars == <<inode, made, lines, unended, writerVars, testerVars, marks>>
vars == <<ran, auditVars, logVars>>

Init == ran = 0 /\ A!Init /\ L!Init

Event(by, n, cmd, cwd, long) ==
  [by |-> by, n |-> n, command |-> cmd, cwd |-> cwd, long |-> long]

CwdOf(text) == CASE text = "dirBackslash" -> "backslash"
                 [] text = "dirQuote" -> "quote"
                 [] text = "dirNewline" -> "newline"
                 [] OTHER -> "plain"

\* The next event of run.
RunEvent(text) == Event("run", ran + 1,
                        IF text \in {"backslash", "quote", "newline"} THEN text ELSE "plain",
                        CwdOf(text), text = "long")

\* The event in hand; the record decides on its command.
DaemonEvent(text) == Event("daemon", dispatched, command, CwdOf(text), text = "long")

Begin(w, e) == L!NotOpened(w) \/ L!Opened(w, e)

Finish(w) == L!Put(w) \/ L!PutHead(w) \/ L!PutRest(w)

RunLogs == /\ \/ /\ ran < MaxExecs
                 /\ \E text \in RunText : Begin("run", RunEvent(text))
                 /\ ran' = ran + 1
              \/ Finish("run") /\ UNCHANGED ran
           /\ UNCHANGED <<auditVars, testerVars, marks>>

\* The monitor reads on when local_log_write is over.
DaemonLogs == /\ apc = "callback"
              /\ (\E text \in DaemonText : Begin("daemon", DaemonEvent(text))) \/ Finish("daemon")
              /\ IF wpc'["daemon"] = "idle" THEN A!CallbackReturns ELSE UNCHANGED auditVars
              /\ UNCHANGED <<ran, testerVars, marks>>

Monitor == A!MonitorStep /\ UNCHANGED <<ran, logVars>>

Kernel == A!Send /\ UNCHANGED <<ran, logVars>>

Tester == L!TesterStep /\ UNCHANGED <<ran, auditVars, writerVars>>

Clear == L!Clear /\ UNCHANGED <<ran, auditVars, writerVars>>

Next == RunLogs \/ DaemonLogs \/ Monitor \/ Kernel \/ Tester \/ Clear

Spec == Init /\ [][Next]_vars

(* The daemon is scheduled.  Nothing is assumed of the other processes,    *)
(* nor of the records the kernel sends.                                    *)
FairSpec == Spec /\ WF_vars(Monitor) /\ WF_vars(DaemonLogs)

-----------------------------------------------------------------------------
(* Properties                                                              *)

TypeOK == /\ A!TypeOK
          /\ ran \in 0 .. MaxExecs
          /\ inode \in 0 .. made
          /\ unended => lines # <<>>
          /\ wpc \in [Writers -> {"idle", "write", "rest"}]
          /\ \A w \in Writers : wpc[w] = "idle" <=> fd[w] = 0
          /\ cut \cap written = {}
          /\ short => tampered

(* A dropped record ends the monitor, or after a signal it is blocked in   *)
(* queue_push: none of them is passed over in a log that goes on           *)
(* (audit_monitor.c:307-310, main.c:29-31).                                *)
OverflowEndsMonitor == A!OverflowEndsMonitor

(* What the test calls verified is what an auditor logged, in lines whose  *)
(* texts have no quotes and newlines (main.c:365-377, event.c:29-100).     *)
VerifiedIsHonest == L!VerifiedIsHonest

\* Undamaged plain lines pass the test, if the unwritten byte is zero (main.c:372-376).
HonestLinesMatch == L!HonestLinesMatch

(* A line changed by the simulation fails the test, unless the log was     *)
(* cleared or cut short, or the texts of the line or the new value have    *)
(* quotes or newlines in them (main.c:336, 356-361).                       *)
TamperDetected == L!TamperDetected

\* The lines of each auditor stay in order, none is doubled (log_local.c:73-108).
LogInOrder == L!LogInOrder

(* Without tampering and failed writes no line is lost; only long events   *)
(* damage lines (log_local.c:30-38).                                       *)
IntactUnlessLong == L!IntactUnlessLong
=============================================================================
