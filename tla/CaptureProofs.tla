--------------------------- MODULE CaptureProofs ---------------------------
(* Theorems about Capture, for any number of programs and signals. *)
EXTENDS Capture, TLAPS

Alive == tracee \in {"forked", "traceme", "halted", "execvp", "program"}

(* A child that is not traced keeps the tracer in its first waitpid, and   *)
(* one that is traced runs only where the tracer waits for it: before the  *)
(* first stop, or with the options set.                                    *)
RunsOnlyWatched ==
  /\ tracee \in {"none", "forked"} => ~traced
  /\ tracer = "fork" => tracee = "none"
  /\ tracee = "halted" => ~traced
  /\ ~traced => stop = "none" /\ ~options /\ (Alive => tracer = "first")
  /\ traced /\ Alive /\ stop = "none" => \/ tracer = "first" /\ tracee = "traceme"
                                         \/ tracer = "wait" /\ options
  /\ traced /\ Alive /\ tracer \in {"cont", "wait", "report", "callback"} => options

(* The program being reported, or stopped before its report, is newer than *)
(* every program reported so far.                                          *)
Fresh == tracer \in {"report", "callback"} \/ (tracer = "wait" /\ stop = "exec")

ReportsAreOld ==
  /\ stop = "exec" \/ tracer \in {"report", "callback"} => image # 0
  /\ \A i \in 1 .. Len(reported) : reported[i] <= image /\ (Fresh => reported[i] < image)

(* A program that was not reported yet stands in the stop of its exec.     *)
UnreportedStands ==
  tracee = "program" /\ traced /\ text # Blank =>
     \/ \E i \in 1 .. Len(reported) : reported[i] = image
     \/ stop = "exec" /\ tracer \in {"wait", "report", "callback"}

IInv == /\ TypeOK
        /\ RunsOnlyWatched
        /\ ReportsAreOld
        /\ UnreportedStands
        /\ ReportedInOrder

-----------------------------------------------------------------------------
LEMMA InitInv == Init => IInv
<1> SUFFICES ASSUME Init PROVE IInv
  OBVIOUS
<1>1. image \in 0 .. MaxExecs /\ signals \in 0 .. MaxSignals
  BY CaptureAssumption DEF Init
<1>2. reported \in Seq(1 .. MaxExecs)
  BY DEF Init
<1>3. TypeOK
  BY <1>1, <1>2 DEF Init, TypeOK, TracerPlace, TraceePlace, Stop
<1>4. QED
  BY <1>3 DEF Init, IInv, RunsOnlyWatched, Alive, ReportsAreOld, Fresh, UnreportedStands, ReportedInOrder

(* Each step keeps the types; image is not 0 when it is appended. *)
LEMMA TypeStep ==
  ASSUME TypeOK, RunsOnlyWatched, ReportsAreOld, Next
  PROVE  TypeOK'
<1> USE DEF TypeOK, TracerPlace, TraceePlace, Stop, RunsOnlyWatched, ReportsAreOld
<1>1. CASE Fork
  BY <1>1 DEF Fork
<1>2. CASE FirstWait
  BY <1>2 DEF FirstWait, Waited
<1>3. CASE SetOptions
  BY <1>3 DEF SetOptions
<1>4. CASE Cont
  BY <1>4 DEF Cont
<1>5. CASE Wait
  BY <1>5 DEF Wait, Waited, AfterStop
<1>6. CASE ReportEvent
  BY <1>6 DEF ReportEvent
<1>7. CASE CallbackReturns
  BY <1>7 DEF CallbackReturns
<1>8. CASE TraceMe
  BY <1>8 DEF TraceMe
<1>9. CASE RaiseStop
  BY <1>9 DEF RaiseStop, Free
<1>10. CASE Continued
  BY <1>10 DEF Continued
<1>11. CASE Exec
  BY <1>11, CaptureAssumption DEF Exec, Free
<1>12. CASE Exit
  BY <1>12 DEF Exit, Free
<1>13. CASE Kill
  BY <1>13 DEF Kill
<1>14. CASE Die
  BY <1>14 DEF Die, Free
<1>15. CASE Signal
  BY <1>15, CaptureAssumption DEF Signal, Free
<1>16. QED
  BY <1>1, <1>2, <1>3, <1>4, <1>5, <1>6, <1>7, <1>8, <1>9, <1>10, <1>11, <1>12, <1>13, <1>14, <1>15 DEF Next, TracerStep, TraceeStep

(* The tracer lets a traced child go only after its options were set. *)
LEMMA WatchedStep ==
  ASSUME TypeOK, RunsOnlyWatched, Next
  PROVE  RunsOnlyWatched'
<1> USE DEF RunsOnlyWatched, Alive
<1>1. CASE Fork
  BY <1>1 DEF Fork, RunsOnlyWatched
<1>2. CASE FirstWait
  BY <1>2 DEF FirstWait, Waited
<1>3. CASE SetOptions
  BY <1>3 DEF SetOptions
<1>4. CASE Cont
  BY <1>4 DEF Cont
<1>5. CASE Wait
  BY <1>5 DEF Wait, Waited, AfterStop
<1>6. CASE ReportEvent
  BY <1>6 DEF ReportEvent
<1>7. CASE CallbackReturns
  BY <1>7 DEF CallbackReturns
<1>8. CASE TraceMe
  BY <1>8 DEF TraceMe
<1>9. CASE RaiseStop
  BY <1>9 DEF RaiseStop, Free
<1>10. CASE Continued
  BY <1>10 DEF Continued
<1>11. CASE Exec
  BY <1>11 DEF Exec, Free
<1>12. CASE Exit
  BY <1>12 DEF Exit, Free
<1>13. CASE Kill
  BY <1>13 DEF Kill
<1>14. CASE Die
  BY <1>14 DEF Die, Free
<1>15. CASE Signal
  BY <1>15 DEF Signal, Free
<1>16. QED
  BY <1>1, <1>2, <1>3, <1>4, <1>5, <1>6, <1>7, <1>8, <1>9, <1>10, <1>11, <1>12, <1>13, <1>14, <1>15 DEF Next, TracerStep, TraceeStep

(* Only an exec, which needs the tracer in its wait, makes a newer program. *)
LEMMA OldStep ==
  ASSUME TypeOK, RunsOnlyWatched, ReportsAreOld, Next
  PROVE  ReportsAreOld'
<1> USE DEF TypeOK, RunsOnlyWatched, Alive, ReportsAreOld, Fresh
<1>1. CASE Fork
  BY <1>1 DEF Fork
<1>2. CASE FirstWait
  BY <1>2 DEF FirstWait, Waited
<1>3. CASE SetOptions
  BY <1>3 DEF SetOptions
<1>4. CASE Cont
  BY <1>4 DEF Cont
<1>5. CASE Wait
  BY <1>5 DEF Wait, Waited, AfterStop
<1>6. CASE ReportEvent
  BY <1>6 DEF ReportEvent
<1>7. CASE CallbackReturns
  BY <1>7 DEF CallbackReturns
<1>8. CASE TraceMe
  BY <1>8 DEF TraceMe
<1>9. CASE RaiseStop
  BY <1>9 DEF RaiseStop, Free
<1>10. CASE Continued
  BY <1>10 DEF Continued
<1>11. CASE Exec
  BY <1>11, CaptureAssumption DEF Exec, Free
<1>12. CASE Exit
  BY <1>12 DEF Exit, Free
<1>13. CASE Kill
  BY <1>13 DEF Kill
<1>14. CASE Die
  BY <1>14 DEF Die, Free
<1>15. CASE Signal
  BY <1>15 DEF Signal, Free
<1>16. QED
  BY <1>1, <1>2, <1>3, <1>4, <1>5, <1>6, <1>7, <1>8, <1>9, <1>10, <1>11, <1>12, <1>13, <1>14, <1>15 DEF Next, TracerStep, TraceeStep

(* The stop of an exec is left only after the report. *)
LEMMA StandsStep ==
  ASSUME TypeOK, RunsOnlyWatched, UnreportedStands, Next
  PROVE  UnreportedStands'
<1> USE DEF TypeOK, RunsOnlyWatched, Alive, UnreportedStands
<1>1. CASE Fork
  BY <1>1 DEF Fork, RunsOnlyWatched
<1>2. CASE FirstWait
  BY <1>2 DEF FirstWait, Waited
<1>3. CASE SetOptions
  BY <1>3 DEF SetOptions
<1>4. CASE Cont
  BY <1>4 DEF Cont
<1>5. CASE Wait
  BY <1>5 DEF Wait, Waited, AfterStop
<1>6. CASE ReportEvent
  BY <1>6 DEF ReportEvent
<1>7. CASE CallbackReturns
  BY <1>7 DEF CallbackReturns
<1>8. CASE TraceMe
  BY <1>8 DEF TraceMe
<1>9. CASE RaiseStop
  BY <1>9 DEF RaiseStop, Free
<1>10. CASE Continued
  BY <1>10 DEF Continued
<1>11. CASE Exec
  BY <1>11 DEF Exec, Free
<1>12. CASE Exit
  BY <1>12 DEF Exit, Free
<1>13. CASE Kill
  BY <1>13 DEF Kill
<1>14. CASE Die
  BY <1>14 DEF Die, Free
<1>15. CASE Signal
  BY <1>15 DEF Signal, Free
<1>16. QED
  BY <1>1, <1>2, <1>3, <1>4, <1>5, <1>6, <1>7, <1>8, <1>9, <1>10, <1>11, <1>12, <1>13, <1>14, <1>15 DEF Next, TracerStep, TraceeStep

(* A report appends a program newer than those before. *)
LEMMA OrderStep ==
  ASSUME TypeOK, ReportsAreOld, ReportedInOrder, Next
  PROVE  ReportedInOrder'
<1> USE DEF TypeOK, ReportsAreOld, Fresh, ReportedInOrder
<1>1. CASE Fork
  BY <1>1 DEF Fork, RunsOnlyWatched
<1>2. CASE FirstWait
  BY <1>2 DEF FirstWait, Waited
<1>3. CASE SetOptions
  BY <1>3 DEF SetOptions
<1>4. CASE Cont
  BY <1>4 DEF Cont
<1>5. CASE Wait
  BY <1>5 DEF Wait, Waited, AfterStop
<1>6. CASE ReportEvent
  BY <1>6 DEF ReportEvent
<1>7. CASE CallbackReturns
  BY <1>7 DEF CallbackReturns
<1>8. CASE TraceMe
  BY <1>8 DEF TraceMe
<1>9. CASE RaiseStop
  BY <1>9 DEF RaiseStop, Free
<1>10. CASE Continued
  BY <1>10 DEF Continued
<1>11. CASE Exec
  BY <1>11 DEF Exec, Free
<1>12. CASE Exit
  BY <1>12 DEF Exit, Free
<1>13. CASE Kill
  BY <1>13 DEF Kill
<1>14. CASE Die
  BY <1>14 DEF Die, Free
<1>15. CASE Signal
  BY <1>15 DEF Signal, Free
<1>16. QED
  BY <1>1, <1>2, <1>3, <1>4, <1>5, <1>6, <1>7, <1>8, <1>9, <1>10, <1>11, <1>12, <1>13, <1>14, <1>15 DEF Next, TracerStep, TraceeStep

(* Nothing the invariant speaks of changes in a stuttering step. *)
LEMMA Stutters ==
  ASSUME IInv, UNCHANGED captureVars
  PROVE  IInv'
BY DEF IInv, captureVars, TypeOK, RunsOnlyWatched, Alive, ReportsAreOld, Fresh, UnreportedStands, ReportedInOrder

LEMMA Invariance == Spec => []IInv
<1>1. IInv /\ [Next]_captureVars => IInv'
  <2> SUFFICES ASSUME IInv, [Next]_captureVars PROVE IInv'
    OBVIOUS
  <2>1. CASE Next
    BY <2>1, TypeStep, WatchedStep, OldStep, StandsStep, OrderStep DEF IInv
  <2>2. CASE UNCHANGED captureVars
    BY <2>2, Stutters
  <2>3. QED
    BY <2>1, <2>2
<1>2. QED
  BY <1>1, InitInv, PTL DEF Spec

-----------------------------------------------------------------------------
(* Where the tracer and the tracee are, and what was reported, keep their  *)
(* types, however the command, its signals and its end are interleaved     *)
(* with capture_run_command (capture.c:39-79).                             *)
THEOREM TypeCorrect == Spec => []TypeOK
<1>1. IInv => TypeOK
  BY DEF IInv
<1>2. QED
  BY <1>1, Invariance, PTL

(* No program of a traced command runs before its event was handed to the  *)
(* callback, for any number of programs and signals (capture.c:56-75).     *)
THEOREM NeverRunsUnreported == Spec => []RunsAfterReport
<1>1. IInv => RunsAfterReport
  BY DEF IInv, UnreportedStands, RunsAfterReport, Free
<1>2. QED
  BY <1>1, Invariance, PTL

(* Programs are reported in the order of their exec calls and never twice  *)
(* (capture.c:62-75).                                                      *)
THEOREM ReportsInOrder == Spec => []ReportedInOrder
<1>1. IInv => ReportedInOrder
  BY DEF IInv
<1>2. QED
  BY <1>1, Invariance, PTL

-----------------------------------------------------------------------------
(* The end of the capture, and what it may miss                            *)

(* A dead child is in no stop, capture_run_command only returns when it    *)
(* has reaped the child or has none, and reports none that is not traced.  *)
Ends == /\ tracee \in {"dead", "reaped"} => stop = "none"
        /\ tracer = "returned" => tracee \in {"none", "reaped"}
        /\ ~traced => reported = <<>> /\ tracer \notin {"report", "callback"}

LEMMA EndsStep ==
  ASSUME TypeOK, RunsOnlyWatched, Ends, Next
  PROVE  Ends'
<1> USE DEF TypeOK, RunsOnlyWatched, Alive, Ends
<1>1. CASE Fork
  BY <1>1 DEF Fork, RunsOnlyWatched
<1>2. CASE FirstWait
  BY <1>2 DEF FirstWait, Waited
<1>3. CASE SetOptions
  BY <1>3 DEF SetOptions
<1>4. CASE Cont
  BY <1>4 DEF Cont
<1>5. CASE Wait
  BY <1>5 DEF Wait, Waited, AfterStop
<1>6. CASE ReportEvent
  BY <1>6 DEF ReportEvent
<1>7. CASE CallbackReturns
  BY <1>7 DEF CallbackReturns
<1>8. CASE TraceMe
  BY <1>8 DEF TraceMe
<1>9. CASE RaiseStop
  BY <1>9 DEF RaiseStop, Free
<1>10. CASE Continued
  BY <1>10 DEF Continued
<1>11. CASE Exec
  BY <1>11 DEF Exec, Free
<1>12. CASE Exit
  BY <1>12 DEF Exit, Free
<1>13. CASE Kill
  BY <1>13 DEF Kill
<1>14. CASE Die
  BY <1>14 DEF Die, Free
<1>15. CASE Signal
  BY <1>15 DEF Signal, Free
<1>16. QED
  BY <1>1, <1>2, <1>3, <1>4, <1>5, <1>6, <1>7, <1>8, <1>9, <1>10, <1>11, <1>12, <1>13, <1>14, <1>15 DEF Next, TracerStep, TraceeStep

LEMMA EndsInvariance == Spec => []Ends
<1>1. Init => Ends
  BY DEF Init, Ends
<1>2. IInv /\ Ends /\ [Next]_captureVars => Ends'
  BY EndsStep DEF IInv, Ends, captureVars
<1>3. QED
  BY <1>1, <1>2, Invariance, PTL DEF Spec

(* capture_run_command gives up no child: when it returns, the child was   *)
(* reaped, or none was forked, whatever stopped or killed it before, and   *)
(* nothing stays stopped (capture.c:58-60).                                *)
ReturnsAtEnd == tracer = "returned" => tracee \in {"none", "reaped"} /\ stop = "none"

(* What CommandEndEndsCapture says of the end, the other way round: the    *)
(* capture does not end before the command.                                *)
THEOREM AlwaysReturnsAtEnd == Spec => []ReturnsAtEnd
<1>1. IInv /\ Ends => ReturnsAtEnd
  BY DEF IInv, RunsOnlyWatched, Ends, ReturnsAtEnd
<1>2. QED
  BY <1>1, Invariance, EndsInvariance, PTL

(* A traced program that executes the next one was reported: with          *)
(* ReportedInOrder, no program is missing between two that are reported,   *)
(* unless it was killed in the stop of its exec or shows no command line.  *)
NothingSkipped ==
  [][Exec /\ traced /\ image # 0 /\ text # Blank
       => \E i \in 1 .. Len(reported) : reported[i] = image]_captureVars

\* A first exec comes out of execvp, any later one out of a program that runs.
LEMMA ExecsFromProgram ==
  ASSUME TypeOK, RunsOnlyWatched, Next,
         image # 0 => tracee \notin {"none", "forked", "traceme", "halted", "execvp"}
  PROVE  image' # 0 => tracee' \notin {"none", "forked", "traceme", "halted", "execvp"}
<1> USE DEF TypeOK
<1>1. CASE Fork
  BY <1>1 DEF Fork, RunsOnlyWatched
<1>2. CASE FirstWait
  BY <1>2 DEF FirstWait, Waited
<1>3. CASE SetOptions
  BY <1>3 DEF SetOptions
<1>4. CASE Cont
  BY <1>4 DEF Cont
<1>5. CASE Wait
  BY <1>5 DEF Wait, Waited, AfterStop
<1>6. CASE ReportEvent
  BY <1>6 DEF ReportEvent
<1>7. CASE CallbackReturns
  BY <1>7 DEF CallbackReturns
<1>8. CASE TraceMe
  BY <1>8 DEF TraceMe
<1>9. CASE RaiseStop
  BY <1>9 DEF RaiseStop, Free
<1>10. CASE Continued
  BY <1>10 DEF Continued
<1>11. CASE Exec
  BY <1>11 DEF Exec, Free
<1>12. CASE Exit
  BY <1>12 DEF Exit, Free
<1>13. CASE Kill
  BY <1>13 DEF Kill
<1>14. CASE Die
  BY <1>14 DEF Die, Free
<1>15. CASE Signal
  BY <1>15 DEF Signal, Free
<1>16. QED
  BY <1>1, <1>2, <1>3, <1>4, <1>5, <1>6, <1>7, <1>8, <1>9, <1>10, <1>11, <1>12, <1>13, <1>14, <1>15 DEF Next, TracerStep, TraceeStep

(* However fast programs follow each other (capture.c:56-68), the tracer   *)
(* is never an exec behind.                                                *)
THEOREM NeverSkips == Spec => NothingSkipped
<1> DEFINE Later == image # 0 => tracee \notin {"none", "forked", "traceme", "halted", "execvp"}
<1>1. Init => Later
  BY DEF Init
<1>2. IInv /\ Later /\ [Next]_captureVars => Later'
  BY ExecsFromProgram DEF captureVars, IInv
<1>3. Spec => []Later
  BY <1>1, <1>2, Invariance, PTL DEF Spec
<1>4. IInv /\ Later => (Exec /\ traced /\ image # 0 /\ text # Blank
                          => \E i \in 1 .. Len(reported) : reported[i] = image)
  BY DEF IInv, UnreportedStands, Exec, Free
<1>5. QED
  BY <1>3, <1>4, Invariance, PTL DEF NothingSkipped

(* Nobody looks at the result of PTRACE_TRACEME (capture.c:44).  If it     *)
(* fails the command, once it is continued, runs to its end without a      *)
(* report, and the tracer is still in its first waitpid.                   *)
UntracedIsUnseen ==
  ~traced /\ tracee # "forked" =>
     /\ reported = <<>>
     /\ ~options
     /\ tracee \in {"traceme", "halted", "execvp", "program"} => tracer = "first"

THEOREM UntracedAlwaysUnseen == Spec => []UntracedIsUnseen
<1>1. IInv /\ Ends => UntracedIsUnseen
  BY DEF IInv, RunsOnlyWatched, Alive, Ends, UntracedIsUnseen
<1>2. QED
  BY <1>1, Invariance, EndsInvariance, PTL

-----------------------------------------------------------------------------
(* How the capture ends                                                    *)

\* The command has exited or was killed.
Over == tracee \in {"ending", "dead", "reaped"}

\* How many steps the tracer is at most away from returning.
TracerLeft ==
  CASE tracer = "returned" -> 0
    [] tracer = "wait" /\ stop = "none" -> 1
    [] tracer = "cont" -> 2
    [] tracer \in {"options", "callback"} \/ (tracer = "wait" /\ stop # "none") -> 3
    [] OTHER -> 4

StepsLeft == TracerLeft + (IF tracee = "ending" THEN 1 ELSE 0)

(* Once the command is over, in whatever stop it was killed and wherever   *)
(* the tracer is, every step brings capture_run_command nearer to its end: *)
(* at most five are left, and none of them is a step back in its loop      *)
(* (capture.c:51-76).                                                      *)
NearsItsEnd ==
  [][Over => Over' /\ StepsLeft \in 0 .. 5 /\ StepsLeft' \in 0 .. StepsLeft - 1]_captureVars

LEMMA LastStop ==
  ASSUME TypeOK, tracee = "ending" => stop \in {"none", "exit"}, Next
  PROVE  tracee' = "ending" => stop' \in {"none", "exit"}
<1> USE DEF TypeOK
<1>1. CASE TracerStep
  BY <1>1 DEF TracerStep, Fork, FirstWait, SetOptions, Cont, Wait, Waited, ReportEvent
<1>2. CASE CallbackReturns
  BY <1>2 DEF CallbackReturns
<1>3. CASE TraceMe \/ RaiseStop \/ Continued \/ Exec \/ Signal
  BY <1>3 DEF TraceMe, RaiseStop, Continued, Exec, Signal
<1>4. CASE Exit \/ Kill \/ Die
  BY <1>4 DEF Exit, Kill, Die
<1>5. QED
  BY <1>1, <1>2, <1>3, <1>4 DEF Next, TraceeStep

\* The variant of the loop: what is left after one more step.
LEMMA OneStepLess ==
  ASSUME TypeOK, RunsOnlyWatched, Ends, tracee = "ending" => stop \in {"none", "exit"}, Over, Next
  PROVE  Over' /\ StepsLeft \in 0 .. 5 /\ StepsLeft' \in 0 .. StepsLeft - 1
<1>1. tracer # "fork" /\ stop \in {"none", "exit"}
  BY DEF RunsOnlyWatched, Ends, Over
<1>2. tracer \in {"first", "options", "cont", "wait", "report", "callback", "returned"}
  BY <1>1 DEF TypeOK, TracerPlace
<1> USE <1>1, <1>2 DEF Over, StepsLeft, TracerLeft
<1>3. StepsLeft \in 0 .. 5
  OBVIOUS
<1>4. CASE FirstWait
  BY <1>4 DEF FirstWait, Waited
<1>5. CASE SetOptions
  BY <1>5 DEF SetOptions
<1>6. CASE Cont
  BY <1>6 DEF Cont
<1>7. CASE Wait
  BY <1>7 DEF Wait, Waited, AfterStop
<1>8. CASE ReportEvent
  BY <1>8 DEF ReportEvent
<1>9. CASE CallbackReturns
  BY <1>9 DEF CallbackReturns
<1>10. CASE Die
  BY <1>10 DEF Die, Free
<1>11. CASE Fork \/ TraceMe \/ RaiseStop \/ Continued \/ Exec \/ Exit \/ Kill \/ Signal
  BY <1>11 DEF Fork, TraceMe, RaiseStop, Continued, Exec, Exit, Kill, Signal
<1>12. QED
  BY <1>3, <1>4, <1>5, <1>6, <1>7, <1>8, <1>9, <1>10, <1>11 DEF Next, TracerStep, TraceeStep

(* The safety half of CommandEndEndsCapture, whose other half is that the  *)
(* tracer and the dying command are scheduled; a callback that blocks is   *)
(* no step, and none is left after it that leads back to it.               *)
THEOREM AlwaysNearsItsEnd == Spec => NearsItsEnd
<1> DEFINE Last == tracee = "ending" => stop \in {"none", "exit"}
<1>1. Init => Last
  BY DEF Init
<1>2. TypeOK /\ Last /\ [Next]_captureVars => Last'
  BY LastStop DEF captureVars
<1>3. Spec => []Last
  BY <1>1, <1>2, TypeCorrect, PTL DEF Spec
<1>4. IInv /\ Ends /\ Last /\ [Next]_captureVars
        => [Over => Over' /\ StepsLeft \in 0 .. 5 /\ StepsLeft' \in 0 .. StepsLeft - 1]_captureVars
  BY OneStepLess DEF IInv
<1>5. QED
  BY <1>3, <1>4, Invariance, EndsInvariance, PTL DEF Spec, NearsItsEnd
=============================================================================
