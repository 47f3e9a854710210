---------------------------- MODULE AuditorProofs ----------------------------
(***************************************************************************)
(* Theorems about Auditor, for any capacity of the queue, any number of    *)
(* events and any number of attempts.  What they need of the queue comes   *)
(* from AsyncQueueProofs: the pipeline takes only steps of the queue.      *)
(***************************************************************************)
EXTENDS Auditor, TLAPS, FiniteSetTheorems

QP == INSTANCE AsyncQueueProofs
        WITH Producers <- {Main}, Consumers <- {Worker}, Item <- Event

\* An event that event_callback is busy with was captured.
Numbered == /\ captured \in 0 .. MaxEvents
            /\ mpc \in {"push", "pushing", "log"} => captured # 0

\* Who is inside a function of the queue, and with which event.
Threads == /\ mpc = "pushing" <=> where[Main] # "out"
           /\ mpc = "pushing" => arg[Main] = captured
           /\ wpc = "popping" <=> where[Worker] # "out"

(* How far the two threads are of each other.  An uninterrupted worker     *)
(* ends on an empty queue, and only when nothing is pushed any more.       *)
Phases ==
  /\ mpc \in MainPlace /\ wpc \in WorkerPlace
  /\ useGateway \in BOOLEAN /\ gRunning \in BOOLEAN /\ signalled \in BOOLEAN
  /\ useGateway => wpc # "none"
  /\ ~useGateway => wpc = "none" /\ mpc \in {"capture", "log", "destroy", "exit"}
  /\ shutdown => mpc \in {"join", "destroy", "exit"}
  /\ useGateway /\ mpc \in {"destroy", "exit"} => wpc = "ended"
  /\ ~gRunning => signalled \/ mpc \in {"shutdown", "join", "destroy", "exit"}
  /\ wpc \in {"count", "ended"} => ~gRunning
  /\ wpc = "ended" => signalled \/ count = 0

Hand == IF wpc \in {"post", "sleep"} THEN 1 ELSE 0

\* Delivery, place by place.
Placed ==
  /\ handled \in Seq(Event)
  /\ Len(handled) + Hand + count = Accepted
  /\ \A i \in 1 .. Len(handled) : handled[i] = i
  /\ Hand = 1 => got[Worker] = Len(handled) + 1
  /\ \A i \in 1 .. count : Q!Contents[i] = Len(handled) + Hand + i

AnsweredOrTried == \A i \in 1 .. Len(handled) :
                      handled[i] \in answered \/ tried[handled[i]] = MaxRetries

(* The attempts made and those left make MaxRetries; later ones were not   *)
(* tried, nor stored; only what the worker is done with was answered.      *)
Tries ==
  /\ answered \in SUBSET Event /\ ledger \in SUBSET Event
  /\ tried \in [Event -> 0 .. MaxRetries]
  /\ retries \in 0 .. MaxRetries
  /\ Hand = 1 => retries # 0 /\ tried[got[Worker]] = MaxRetries - retries
  /\ \A e \in Event : e > Len(handled) + Hand => tried[e] = 0
  /\ \A e \in ledger : e <= Len(handled) + Hand
  /\ \A e \in answered : e <= Len(handled)
  /\ AnsweredOrTried

Logs == /\ logged \in Seq(Event)
        /\ unlogged \in SUBSET Event
        /\ LocalLogComplete

QueueInv == Q!TypeOK /\ Q!RingConsistent

-----------------------------------------------------------------------------
(* The queue                                                               *)

\* What AsyncQueue assumes of its constants holds for those of Auditor.
LEMMA QueueConstants ==
  /\ Size \in Nat /\ NoItem \notin Event
  /\ QP!IsFiniteSet({Main}) /\ QP!IsFiniteSet({Worker})
  /\ {Main} \cap {Worker} = {}
<1>1. IsFiniteSet({Main}) /\ IsFiniteSet({Worker})
  BY FS_Singleton
<1>2. QP!IsFiniteSet({Main}) /\ QP!IsFiniteSet({Worker})
  BY <1>1 DEF IsFiniteSet, QP!IsFiniteSet
<1>3. QED
  BY <1>2, AuditorAssumption DEF Event

\* Q and QP are the same queue.
LEMMA SameState ==
  /\ QP!TypeOK <=> Q!TypeOK
  /\ QP!RingConsistent <=> Q!RingConsistent
  /\ QP!Contents = Q!Contents
  /\ QP!Init <=> Q!Init
BY DEF QP!TypeOK, Q!TypeOK, QP!Thread, Q!Thread, QP!Slot, Q!Slot, QP!Place, Q!Place,
       QP!RingConsistent, Q!RingConsistent, QP!Contents, Q!Contents, QP!Init, Q!Init

LEMMA SameWakeups ==
  \A T : /\ QP!Blocked(T) = Q!Blocked(T)
         /\ \A t : QP!LeaveSignalling(t, T) <=> Q!LeaveSignalling(t, T)
BY DEF QP!Blocked, Q!Blocked, QP!LeaveSignalling, Q!LeaveSignalling

LEMMA SamePush ==
  ASSUME NEW x
  PROVE  /\ QP!PushEnter(Main, x) <=> Q!PushEnter(Main, x)
         /\ QP!PushResume(Main) <=> Q!PushResume(Main)
         /\ QP!PushStore(Main, x) <=> Q!PushStore(Main, x)
BY SameWakeups
   DEF QP!PushEnter, Q!PushEnter, QP!PushResume, Q!PushResume, QP!PushSection, Q!PushSection,
       QP!PushWait, Q!PushWait, QP!PushRefused, Q!PushRefused, QP!PushStore, Q!PushStore,
       QP!PushMustWait, Q!PushMustWait, QP!Return, Q!Return, QP!Advance, Q!Advance, QP!ring, Q!ring

LEMMA SamePop ==
  /\ QP!PopEnter(Worker, "timed") <=> Q!PopEnter(Worker, "timed")
  /\ QP!PopResume(Worker) <=> Q!PopResume(Worker)
  /\ QP!PopTake(Worker) <=> Q!PopTake(Worker)
BY SameWakeups
   DEF QP!PopEnter, Q!PopEnter, QP!PopResume, Q!PopResume, QP!PopFinish, Q!PopFinish,
       QP!PopWait, Q!PopWait, QP!PopNothing, Q!PopNothing, QP!PopTake, Q!PopTake,
       QP!PopMustWait, Q!PopMustWait, QP!PopFails, Q!PopFails, QP!Return, Q!Return,
       QP!Advance, Q!Advance, QP!ring, Q!ring

LEMMA SameOthers ==
  /\ QP!Shutdown <=> Q!Shutdown
  /\ QP!PopTimeout(Worker) <=> Q!PopTimeout(Worker)
  /\ \A t : QP!SpuriousWake(t) <=> Q!SpuriousWake(t)
BY DEF QP!Shutdown, Q!Shutdown, QP!Broadcast, Q!Broadcast, QP!Blocked, Q!Blocked, QP!Thread, Q!Thread,
       QP!PopTimeout, Q!PopTimeout, QP!Wake, Q!Wake, QP!SpuriousWake, Q!SpuriousWake, QP!ring, Q!ring

\* Each step of the pipeline is one of the queue, or leaves it alone.
LEMMA QueueStep ==
  ASSUME Numbered, [Next]_vars
  PROVE  [QP!Next]_QP!vars
<1>1. CASE Push
  <2>1. CASE mpc = "push" /\ Q!PushEnter(Main, captured)
    <3>1. captured \in Event
      BY <2>1, AuditorAssumption DEF Numbered, Event
    <3>2. QP!PushEnter(Main, captured)
      BY <2>1, SamePush
    <3>3. QED
      BY <3>1, <3>2 DEF QP!Next, QP!ProducerStep
  <2>2. CASE mpc = "pushing" /\ Q!PushResume(Main)
    <3>1. QP!PushResume(Main)
      BY <2>2, SamePush
    <3>2. QED
      BY <3>1 DEF QP!Next, QP!ProducerStep
  <2>3. QED
    BY <1>1, <2>1, <2>2 DEF Push
<1>2. CASE Pop
  <2>1. QP!PopEnter(Worker, "timed") \/ QP!PopResume(Worker)
    BY <1>2, SamePop DEF Pop
  <2>2. QED
    BY <2>1 DEF QP!Next, QP!ConsumerStep
<1>3. CASE PopTimeout
  <2>1. QP!PopTimeout(Worker)
    BY <1>3, SameOthers DEF PopTimeout
  <2>2. QED
    BY <2>1 DEF QP!Next, QP!ConsumerStep
<1>4. CASE ShutdownQueue
  <2>1. QP!Shutdown
    BY <1>4, SameOthers DEF ShutdownQueue
  <2>2. QED
    BY <2>1 DEF QP!Next
<1>5. ASSUME NEW t \in {Main, Worker}, SpuriousWake(t)
      PROVE  QP!Next
  <2>1. QP!SpuriousWake(t)
    BY <1>5, SameOthers DEF SpuriousWake
  <2>2. QED
    BY <1>5, <2>1 DEF QP!Next, QP!Thread
<1>6. CASE UNCHANGED queueVars
  BY <1>6 DEF queueVars, QP!vars, QP!ring
<1>7. CASE UNCHANGED vars
  BY <1>6, <1>7 DEF vars
<1>8. ASSUME Capture \/ CaptureEnds \/ LogWrite \/ Stop \/ Join \/ Destroy \/ Signal
      PROVE  UNCHANGED queueVars
  BY <1>8 DEF Capture, CaptureEnds, LogWrite, Stop, Join, Destroy, Signal
<1>9. ASSUME TestRunning \/ TestCount \/ PostAnswered \/ PostFailed \/ Sleep
             \/ \E e \in Event : GatewayStores(e)
      PROVE  UNCHANGED queueVars
  BY <1>9 DEF TestRunning, TestCount, PostAnswered, PostFailed, Sleep, GatewayStores
<1>10. CASE Terminated
  BY <1>7, <1>10 DEF Terminated
<1>11. QED
  BY <1>1, <1>2, <1>3, <1>4, <1>5, <1>6, <1>7, <1>8, <1>9, <1>10 DEF Next, MainStep, WorkerStep

LEMMA NumberedInvariant == Spec => []Numbered
<1>1. Init => Numbered
  BY AuditorAssumption DEF Init, Numbered
<1>2. Numbered /\ [Next]_vars => Numbered'
  <2> SUFFICES ASSUME Numbered, [Next]_vars PROVE Numbered'
    OBVIOUS
  <2> USE AuditorAssumption DEF Numbered
  <2>1. CASE Capture
    BY <2>1 DEF Capture
  <2>2. CASE Push
    BY <2>2 DEF Push, AfterPush
  <2>3. CASE LogWrite \/ CaptureEnds \/ Stop \/ ShutdownQueue \/ Join \/ Destroy
    BY <2>3 DEF LogWrite, CaptureEnds, Stop, ShutdownQueue, Join, Destroy
  <2>4. CASE WorkerStep
    BY <2>4 DEF WorkerStep, TestRunning, TestCount, Pop, PopTimeout, PostAnswered, PostFailed, Sleep, mainVars
  <2>5. CASE Signal \/ (\E t \in {Main, Worker} : SpuriousWake(t)) \/ (\E e \in Event : GatewayStores(e))
             \/ Terminated \/ UNCHANGED vars
    BY <2>5 DEF Signal, SpuriousWake, GatewayStores, Terminated, vars, mainVars
  <2>6. QED
    BY <2>1, <2>2, <2>3, <2>4, <2>5 DEF Next, MainStep
<1>3. QED
  BY <1>1, <1>2, PTL DEF Spec

\* The theorems about the queue apply to the pipeline.
LEMMA QueueSteps == Spec => QP!Spec
<1>1. Init => QP!Init
  BY SameState DEF Init
<1>2. Numbered /\ [Next]_vars => [QP!Next]_QP!vars
  BY QueueStep
<1>3. QED
  BY <1>1, <1>2, NumberedInvariant, PTL DEF Spec, QP!Spec

\* The ring is sound.
LEMMA QueueInvariant == Spec => []QueueInv
<1>1. QP!TypeOK /\ QP!RingConsistent => QueueInv
  BY SameState DEF QueueInv
<1>2. QP!Spec => []QP!TypeOK
  BY QueueConstants, QP!TypeCorrect
<1>3. QP!Spec => []QP!RingConsistent
  BY QueueConstants, QP!RingAlwaysConsistent
<1>4. QED
  BY <1>1, <1>2, <1>3, QueueSteps, PTL

-----------------------------------------------------------------------------
(* What one call of the queue does to the pipeline                         *)

\* The main thread's step in queue_push stores its event or waits.
LEMMA PushEffect ==
  ASSUME QueueInv, Numbered, Threads, Phases, Push
  PROVE  /\ where'[Main] # "out" <=> mpc' = "pushing"
         /\ where'[Worker] = "out" <=> where[Worker] = "out"
         /\ arg'[Main] = captured
         /\ UNCHANGED <<shutdown, got>>
         /\ \/ /\ mpc' = "log"
               /\ count' = count + 1
               /\ Q!Contents' = [i \in 1 .. count + 1 |-> IF i <= count THEN Q!Contents[i] ELSE captured]
            \/ /\ mpc' = "pushing"
               /\ UNCHANGED count /\ Q!Contents' = Q!Contents
<1>1. captured \in Event /\ ~shutdown
  BY AuditorAssumption DEF Numbered, Phases, Push, Event
<1>2. where \in [{Main, Worker} -> {"out", "waiting", "timed", "woken"}] /\ arg \in [{Main} -> Event \cup {NoItem}]
  BY DEF QueueInv, Q!TypeOK, Q!Thread, Q!Place
<1>3. arg'[Main] = captured /\ Q!PushSection(Main, captured)
  <2>1. CASE mpc = "push" /\ Q!PushEnter(Main, captured)
    BY <1>2, <2>1 DEF Q!PushEnter
  <2>2. CASE mpc = "pushing" /\ Q!PushResume(Main)
    BY <2>2 DEF Q!PushResume, Threads
  <2>3. QED
    BY <2>1, <2>2 DEF Push
<1>4. CASE Q!PushWait(Main)
  BY <1>2, <1>3, <1>4, AuditorAssumption DEF Q!PushWait, Q!ring, Q!Contents, Push, AfterPush
<1>5. CASE Q!PushStore(Main, captured)
  <2>1. /\ count' = count + 1
        /\ Q!Contents' = [i \in 1 .. count + 1 |-> IF i <= count THEN Q!Contents[i] ELSE captured]
    <3>1. QP!PushStore(Main, captured) /\ QP!TypeOK /\ QP!RingConsistent
      BY <1>5, SamePush, SameState DEF QueueInv
    <3>2. /\ count' = count + 1
          /\ QP!Contents' = [i \in 1 .. count + 1 |-> IF i <= count THEN QP!Contents[i] ELSE captured]
      BY <1>1, <3>1, QueueConstants, QP!StoreContents
    <3>3. QP!Contents' = Q!Contents'
      BY DEF QP!Contents, Q!Contents
    <3>4. QED
      BY <3>2, <3>3, SameState
  <2>2. /\ where'[Main] = "out"
        /\ where'[Worker] = "out" <=> where[Worker] = "out"
    BY <1>2, <1>5, AuditorAssumption DEF Q!PushStore, Q!LeaveSignalling, Q!Blocked
  <2>3. mpc' = "log" /\ UNCHANGED <<shutdown, got>>
    BY <1>5, <2>2 DEF Q!PushStore, Push, AfterPush
  <2>4. QED
    BY <1>3, <2>1, <2>2, <2>3
<1>6. QED
  BY <1>1, <1>3, <1>4, <1>5 DEF Q!PushSection, Q!PushRefused

\* The worker's step in queue_pop takes the oldest event, finds nothing, or waits.
LEMMA PopEffect ==
  ASSUME QueueInv, Pop
  PROVE  /\ where'[Worker] # "out" <=> wpc' = "popping"
         /\ where'[Main] = "out" <=> where[Main] = "out"
         /\ UNCHANGED <<shutdown, arg>>
         /\ \/ /\ wpc' = "post" /\ retries' = MaxRetries
               /\ count # 0 /\ count' = count - 1
               /\ got'[Worker] = Q!Contents[1]
               /\ Q!Contents' = [i \in 1 .. count - 1 |-> Q!Contents[i + 1]]
            \/ /\ wpc' \in {"popping", "test"} /\ retries' = retries
               /\ UNCHANGED <<count, got>> /\ Q!Contents' = Q!Contents
<1>1. /\ where \in [{Main, Worker} -> {"out", "waiting", "timed", "woken"}]
      /\ got \in [{Worker} -> Event \cup {NoItem}]
      /\ ret \in [{Main, Worker} -> {0, -1}]
  BY DEF QueueInv, Q!TypeOK, Q!Thread, Q!Place
<1>2. UNCHANGED arg
  BY DEF Pop, Q!PopEnter, Q!PopResume
<1>3. CASE Q!PopWait(Worker, "timed")
  BY <1>1, <1>2, <1>3, AuditorAssumption DEF Q!PopWait, Q!ring, Q!Contents, Pop, AfterPop
<1>4. CASE Q!PopNothing(Worker)
  <2>1. where'[Worker] = "out" /\ where'[Main] = where[Main] /\ ret'[Worker] = -1
    BY <1>1, <1>4, AuditorAssumption DEF Q!PopNothing, Q!Return
  <2>2. wpc' = "test" /\ retries' = retries
    BY <2>1 DEF Pop, AfterPop
  <2>3. UNCHANGED <<count, got, shutdown>> /\ Q!Contents' = Q!Contents
    BY <1>4 DEF Q!PopNothing, Q!ring, Q!Contents
  <2>4. QED
    BY <1>2, <2>1, <2>2, <2>3
<1>5. CASE Q!PopTake(Worker)
  <2>1. /\ count # 0 /\ count' = count - 1
        /\ buffer[head] = Q!Contents[1]
        /\ Q!Contents' = [i \in 1 .. count - 1 |-> Q!Contents[i + 1]]
    <3>1. QP!PopTake(Worker) /\ QP!TypeOK /\ QP!RingConsistent
      BY <1>5, SamePop, SameState DEF QueueInv
    <3>2. /\ count # 0 /\ count' = count - 1
          /\ buffer[head] = QP!Contents[1]
          /\ QP!Contents' = [i \in 1 .. count - 1 |-> QP!Contents[i + 1]]
      BY <3>1, QueueConstants, QP!TakeContents
    <3>3. QP!Contents' = Q!Contents'
      BY DEF QP!Contents, Q!Contents
    <3>4. QED
      BY <3>2, <3>3, SameState
  <2>2. /\ where'[Worker] = "out"
        /\ where'[Main] = "out" <=> where[Main] = "out"
    BY <1>1, <1>5, AuditorAssumption DEF Q!PopTake, Q!LeaveSignalling, Q!Blocked
  <2>3. /\ got'[Worker] = buffer[head] /\ ret'[Worker] = 0 /\ UNCHANGED shutdown
    BY <1>1, <1>5 DEF Q!PopTake, Q!Return
  <2>4. wpc' = "post" /\ retries' = MaxRetries
    BY <2>2, <2>3 DEF Pop, AfterPop
  <2>5. QED
    BY <1>2, <2>1, <2>2, <2>3, <2>4
<1>6. QED
  BY <1>3, <1>4, <1>5 DEF Pop, Q!PopEnter, Q!PopResume, Q!PopFinish

\* A wakeup changes nothing but how the thread waits.
LEMMA WakeEffect ==
  ASSUME QueueInv, PopTimeout \/ \E t \in {Main, Worker} : SpuriousWake(t)
  PROVE  /\ UNCHANGED <<count, shutdown, arg, got, mainVars, workerVars, flags>>
         /\ Q!Contents' = Q!Contents
         /\ \A t \in {Main, Worker} : where'[t] = "out" <=> where[t] = "out"
<1>1. where \in [{Main, Worker} -> {"out", "waiting", "timed", "woken"}]
  BY DEF QueueInv, Q!TypeOK, Q!Thread, Q!Place
<1>2. PICK t \in {Main, Worker} : Q!Wake(t) /\ where[t] # "out" /\ UNCHANGED <<mainVars, workerVars, flags>>
  BY DEF PopTimeout, SpuriousWake, Q!PopTimeout, Q!SpuriousWake, Q!Blocked
<1>3. QED
  BY <1>1, <1>2 DEF Q!Wake, Q!ring, Q!Contents

\* The shutdown wakes whoever waits, and leaves the contents alone.
LEMMA ShutdownEffect ==
  ASSUME QueueInv, ShutdownQueue
  PROVE  /\ UNCHANGED <<count, arg, got>> /\ shutdown' = TRUE
         /\ Q!Contents' = Q!Contents
         /\ \A t \in {Main, Worker} : where'[t] = "out" <=> where[t] = "out"
<1>1. where \in [{Main, Worker} -> {"out", "waiting", "timed", "woken"}]
  BY DEF QueueInv, Q!TypeOK, Q!Thread, Q!Place
<1>2. QED
  BY <1>1 DEF ShutdownQueue, Q!Shutdown, Q!Broadcast, Q!Blocked, Q!Thread, Q!ring, Q!Contents

\* The steps of either thread, and of the gateway, that do not call the queue.
MainAlone == Capture \/ CaptureEnds \/ LogWrite \/ Stop \/ Join \/ Destroy
WorkerAlone == TestRunning \/ TestCount \/ PostAnswered \/ PostFailed \/ Sleep
Stores == \E e \in Event : GatewayStores(e)
WakeUp == PopTimeout \/ \E t \in {Main, Worker} : SpuriousWake(t)

LEMMA NextCases ==
  ASSUME Next
  PROVE  Push \/ Pop \/ WakeUp \/ ShutdownQueue \/ MainAlone \/ WorkerAlone
         \/ Stores \/ Signal \/ UNCHANGED vars
BY DEF Next, MainStep, WorkerStep, MainAlone, WorkerAlone, WakeUp, Stores, Terminated

LEMMA AloneEffect ==
  ASSUME MainAlone \/ WorkerAlone \/ Stores \/ Signal \/ UNCHANGED vars
  PROVE  UNCHANGED <<count, shutdown, where, arg, got>> /\ Q!Contents' = Q!Contents
<1>1. UNCHANGED queueVars
  BY DEF MainAlone, Capture, CaptureEnds, LogWrite, Stop, Join, Destroy, WorkerAlone, TestRunning, TestCount,
         PostAnswered, PostFailed, Sleep, Stores, GatewayStores, Signal, vars
<1>2. QED
  BY <1>1 DEF queueVars, Q!Contents

-----------------------------------------------------------------------------
(* The invariant                                                           *)

LEMMA ThreadsStep ==
  ASSUME QueueInv, Numbered, Threads, Phases, Next
  PROVE  Threads'
<1>1. CASE Push
  BY <1>1, PushEffect DEF Threads, Push, workerVars
<1>2. CASE Pop
  BY <1>2, PopEffect DEF Threads, Pop, mainVars
<1>3. CASE WakeUp
  BY <1>3, WakeEffect DEF Threads, WakeUp, mainVars, workerVars
<1>4. CASE ShutdownQueue
  BY <1>4, ShutdownEffect DEF Threads, ShutdownQueue, workerVars
<1>5. CASE MainAlone
  BY <1>5, AloneEffect
     DEF Threads, MainAlone, Capture, CaptureEnds, LogWrite, Stop, Join, Destroy, workerVars
<1>6. CASE WorkerAlone
  BY <1>6, AloneEffect
     DEF Threads, WorkerAlone, TestRunning, TestCount, PostAnswered, LeaveRetryLoop, PostFailed, Sleep, mainVars
<1>7. CASE Stores \/ Signal \/ UNCHANGED vars
  BY <1>7, AloneEffect DEF Threads, Stores, GatewayStores, Signal, vars, mainVars, workerVars
<1>8. QED
  BY <1>1, <1>2, <1>3, <1>4, <1>5, <1>6, <1>7, NextCases

LEMMA PhasesStep ==
  ASSUME QueueInv, Numbered, Threads, Phases, Next
  PROVE  Phases'
<1> USE DEF Phases, MainPlace, WorkerPlace
<1>0. count \in Nat
  BY AuditorAssumption DEF QueueInv, Q!TypeOK
<1>1. CASE Push
  BY <1>1, PushEffect DEF Push, workerVars, flags
<1>2. CASE Pop
  BY <1>2, PopEffect DEF Pop, mainVars, flags
<1>3. CASE WakeUp
  BY <1>3, WakeEffect DEF WakeUp, mainVars, workerVars, flags
<1>4. CASE ShutdownQueue
  BY <1>4, ShutdownEffect DEF ShutdownQueue, workerVars, flags
<1>5. CASE MainAlone
  <2>1. UNCHANGED <<count, shutdown>>
    BY <1>5, AloneEffect
  <2>2. CASE Capture \/ CaptureEnds \/ LogWrite
    BY <2>1, <2>2 DEF Capture, CaptureEnds, LogWrite, workerVars, flags
  <2>3. CASE Stop
    BY <2>1, <2>3 DEF Stop, workerVars
  <2>4. CASE Join \/ Destroy
    BY <2>1, <2>4 DEF Join, Destroy, workerVars, flags
  <2>5. QED
    BY <1>5, <2>2, <2>3, <2>4 DEF MainAlone
<1>6. CASE WorkerAlone
  BY <1>0, <1>6, AloneEffect
     DEF WorkerAlone, TestRunning, TestCount, PostAnswered, LeaveRetryLoop, PostFailed, Sleep, mainVars, flags
<1>7. CASE Stores \/ Signal \/ UNCHANGED vars
  <2>1. UNCHANGED <<count, shutdown>>
    BY <1>7, AloneEffect
  <2>2. CASE Signal
    <3>1. /\ mpc' = mpc /\ wpc' = wpc /\ useGateway' = useGateway
          /\ gRunning' = FALSE /\ signalled' = TRUE
      BY <2>2 DEF Signal, mainVars, workerVars
    <3>2. QED
      BY <2>1, <3>1
  <2>3. CASE Stores \/ UNCHANGED vars
    BY <2>1, <2>3 DEF Stores, GatewayStores, vars, mainVars, workerVars, flags
  <2>4. QED
    BY <1>7, <2>2, <2>3
<1>8. QED
  BY <1>1, <1>2, <1>3, <1>4, <1>5, <1>6, <1>7, NextCases

(* Only a push that stored, a pop that took and the end of a retry loop    *)
(* move an event.                                                          *)
LEMMA PlacedStep ==
  ASSUME QueueInv, Numbered, Threads, Phases, Placed, Next
  PROVE  Placed'
<1>0. count \in Nat /\ captured \in Nat /\ Len(handled) \in Nat
  BY AuditorAssumption DEF QueueInv, Q!TypeOK, Numbered, Placed
<1>1. CASE Push
  <2>1. UNCHANGED <<wpc, handled, useGateway, captured, got>> /\ useGateway /\ captured # 0
    BY <1>1, PushEffect DEF Push, workerVars, flags, Phases, Numbered
  <2>2. Hand' = Hand /\ Accepted = captured - 1
    BY <1>1, <2>1 DEF Hand, Accepted, Push
  <2>3. CASE mpc' = "log"
    <3>1. Accepted' = captured /\ count' = count + 1
      BY <1>0, <1>1, <2>1, <2>3, PushEffect DEF Accepted
    <3>2. Len(handled) + Hand + count = captured - 1 /\ Hand \in {0, 1}
      BY <2>2 DEF Placed, Hand
    <3>3. ASSUME NEW i \in 1 .. count + 1
          PROVE  Q!Contents'[i] = Len(handled) + Hand + i
      <4>1. Q!Contents'[i] = IF i <= count THEN Q!Contents[i] ELSE captured
        BY <1>1, <2>3, PushEffect
      <4>2. CASE i <= count
        BY <1>0, <4>1, <4>2 DEF Placed
      <4>3. CASE i = count + 1
        <5>1. Q!Contents'[i] = captured
          BY <1>0, <4>1, <4>3
        <5>2. QED
          BY <1>0, <4>3, <5>1, <3>2
      <4>4. QED
        BY <1>0, <4>2, <4>3
    <3>4. Len(handled) + Hand + (count + 1) = captured
      BY <1>0, <3>2
    <3>5. QED
      BY <2>1, <2>2, <3>1, <3>3, <3>4 DEF Placed
  <2>4. CASE mpc' = "pushing"
    BY <1>1, <2>1, <2>2, <2>4, PushEffect DEF Placed, Accepted, Hand
  <2>5. QED
    BY <1>1, <2>3, <2>4, PushEffect
<1>2. CASE Pop
  <2>1. UNCHANGED <<mpc, handled, useGateway, captured>> /\ Hand = 0
    BY <1>2 DEF Pop, mainVars, flags, Hand
  <2>2. Accepted' = Accepted
    BY <2>1 DEF Accepted
  <2>3. CASE wpc' = "post"
    <3>1. Hand' = 1 /\ count # 0 /\ count' = count - 1 /\ got'[Worker] = Len(handled) + 1
      BY <1>0, <1>2, <2>1, <2>3, PopEffect DEF Hand, Placed
    <3>2. ASSUME NEW i \in 1 .. count - 1
          PROVE  Q!Contents'[i] = Len(handled) + 1 + i
      <4>1. Q!Contents'[i] = Q!Contents[i + 1]
        BY <1>2, <2>3, PopEffect
      <4>2. i + 1 \in 1 .. count
        BY <1>0
      <4>3. QED
        BY <1>0, <2>1, <4>1, <4>2 DEF Placed
    <3>3. QED
      BY <1>0, <2>1, <2>2, <3>1, <3>2 DEF Placed
  <2>4. CASE wpc' \in {"popping", "test"}
    BY <1>2, <2>1, <2>2, <2>4, PopEffect DEF Placed, Hand
  <2>5. QED
    BY <1>2, <2>3, <2>4, PopEffect
<1>3. CASE WakeUp
  BY <1>3, WakeEffect DEF WakeUp, Placed, Hand, Accepted, mainVars, workerVars, flags
<1>4. CASE ShutdownQueue
  BY <1>4, ShutdownEffect DEF ShutdownQueue, Placed, Hand, Accepted, workerVars, flags
<1>5. CASE MainAlone
  <2>1. UNCHANGED <<wpc, handled, useGateway>>
    BY <1>5 DEF MainAlone, Capture, CaptureEnds, LogWrite, Stop, Join, Destroy, workerVars, flags
  <2>2. Accepted' = Accepted
    BY <1>0, <1>5, <2>1 DEF Accepted, MainAlone, Capture, CaptureEnds, LogWrite, Stop, Join, Destroy
  <2>3. QED
    BY <1>5, <2>1, <2>2, AloneEffect DEF Placed, Hand
<1>6. CASE WorkerAlone
  <2>1. Accepted' = Accepted
    BY <1>6 DEF Accepted, WorkerAlone, TestRunning, TestCount, PostAnswered, PostFailed, Sleep, mainVars, flags
  <2>2. CASE wpc = "post" /\ LeaveRetryLoop
    <3>1. got[Worker] = Len(handled) + 1 /\ Hand = 1 /\ Hand' = 0
      BY <2>2 DEF LeaveRetryLoop, Hand, Placed
    <3>2. got[Worker] \in Event
      BY <1>0, <3>1, AuditorAssumption DEF Placed, Accepted, Numbered, Event
    <3>3. handled' = Append(handled, Len(handled) + 1) /\ handled' \in Seq(Event)
      BY <2>2, <3>1, <3>2 DEF LeaveRetryLoop, Placed
    <3>4. QED
      BY <1>0, <1>6, <2>1, <3>1, <3>3, AloneEffect DEF Placed
  <2>3. CASE UNCHANGED handled /\ Hand' = Hand
    BY <1>6, <2>1, <2>3, AloneEffect DEF Placed
  <2>4. QED
    BY <1>6, <2>2, <2>3
       DEF WorkerAlone, TestRunning, TestCount, PostAnswered, LeaveRetryLoop, PostFailed, Sleep, Hand
<1>7. CASE Stores \/ Signal \/ UNCHANGED vars
  <2>1. UNCHANGED <<count, got>> /\ Q!Contents' = Q!Contents
    BY <1>7, AloneEffect
  <2>2. UNCHANGED <<mpc, wpc, useGateway, captured, handled>>
    BY <1>7 DEF Stores, GatewayStores, Signal, vars, mainVars, workerVars, flags
  <2>3. QED
    BY <2>1, <2>2 DEF Placed, Hand, Accepted
<1>8. QED
  BY <1>1, <1>2, <1>3, <1>4, <1>5, <1>6, <1>7, NextCases

\* The event a POST is about, and what is known of it.
LEMMA PostedEvent ==
  ASSUME QueueInv, Numbered, Placed, Tries, wpc = "post"
  PROVE  /\ Hand = 1 /\ Len(handled) \in Nat
         /\ got[Worker] = Len(handled) + 1
         /\ got[Worker] \in Event
         /\ retries \in 1 .. MaxRetries
         /\ tried[got[Worker]] = MaxRetries - retries
<1>1. count \in Nat /\ captured \in Nat /\ Len(handled) \in Nat
  BY AuditorAssumption DEF QueueInv, Q!TypeOK, Numbered, Placed
<1>2. Hand = 1
  BY DEF Hand
<1>3. got[Worker] = Len(handled) + 1
  BY <1>2 DEF Placed
<1>4. Accepted <= captured /\ Accepted \in Nat \cup {captured - 1}
  BY <1>1 DEF Accepted
<1>5. got[Worker] \in Event
  BY <1>1, <1>2, <1>3, <1>4, AuditorAssumption DEF Placed, Numbered, Event
<1>6. QED
  BY <1>1, <1>2, <1>3, <1>5, AuditorAssumption DEF Tries

(* The attempts at an event are counted up in tried and down in retries;   *)
(* who is done with an event counted to the end or got an answer.          *)
LEMMA TriesStep ==
  ASSUME QueueInv, Numbered, Threads, Phases, Placed, Tries, Next
  PROVE  Tries'
<1> DEFINE e == got[Worker]
<1>0. Len(handled) \in Nat /\ \A i \in 1 .. Len(handled) : handled[i] = i
  BY DEF Placed
<1>1. \A i \in 1 .. Len(handled) : i \in answered \/ tried[i] = MaxRetries
  BY <1>0 DEF Tries, AnsweredOrTried
<1>2. Placed'
  BY PlacedStep
<1>3. CASE UNCHANGED <<got, wpc, retries, tried, answered, handled, ledger>>
  BY <1>3 DEF Tries, Hand, AnsweredOrTried
<1>4. CASE Push
  BY <1>3, <1>4, PushEffect DEF Push, workerVars
<1>5. CASE WakeUp
  BY <1>3, <1>5, WakeEffect DEF WakeUp, workerVars
<1>6. CASE ShutdownQueue
  BY <1>3, <1>6, ShutdownEffect DEF ShutdownQueue, workerVars
<1>7. CASE MainAlone
  <2>1. UNCHANGED got
    BY <1>7, AloneEffect
  <2>2. UNCHANGED workerVars
    BY <1>7 DEF MainAlone, Capture, CaptureEnds, LogWrite, Stop, Join, Destroy
  <2>3. QED
    BY <1>3, <2>1, <2>2 DEF workerVars
<1>8. CASE Signal \/ UNCHANGED vars
  <2>1. UNCHANGED got
    BY <1>8, AloneEffect
  <2>2. UNCHANGED workerVars
    BY <1>8 DEF Signal, vars
  <2>3. QED
    BY <1>3, <2>1, <2>2 DEF workerVars
<1>9. CASE Pop
  <2>1. UNCHANGED <<tried, answered, handled, ledger>> /\ Hand = 0
    BY <1>9 DEF Pop, Hand
  <2>2. AnsweredOrTried'
    BY <2>1 DEF Tries, AnsweredOrTried
  <2>3. CASE wpc' = "post"
    <3>1. /\ retries' = MaxRetries /\ Hand' = 1
          /\ got'[Worker] = Len(handled) + 1
      BY <1>2, <1>9, <2>1, <2>3, PopEffect DEF Hand, Placed
    <3>2. got'[Worker] \in Event
      <4>1. count \in Nat \ {0} /\ got'[Worker] = Q!Contents[1]
        BY <1>9, <2>3, PopEffect, AuditorAssumption DEF QueueInv, Q!TypeOK
      <4>2. QED
        BY <4>1, AuditorAssumption DEF QueueInv, Q!RingConsistent
    <3>3. tried'[got'[Worker]] = 0
      BY <1>0, <2>1, <3>1, <3>2, AuditorAssumption DEF Tries, Event
    <3>4. QED
      BY <1>0, <2>1, <2>2, <3>1, <3>3, AuditorAssumption DEF Tries, Event
  <2>4. CASE wpc' \in {"popping", "test"}
    <3>1. retries' = retries /\ Hand' = 0
      BY <1>9, <2>4, PopEffect DEF Hand
    <3>2. QED
      BY <2>1, <2>2, <3>1 DEF Tries
  <2>5. QED
    BY <1>9, <2>3, <2>4, PopEffect
<1>10. CASE TestRunning \/ TestCount \/ Sleep
  <2>1. UNCHANGED got
    BY <1>10, AloneEffect DEF WorkerAlone
  <2>2. UNCHANGED <<retries, tried, answered, handled, ledger>> /\ Hand' = Hand
    BY <1>10 DEF TestRunning, TestCount, Sleep, Hand
  <2>3. QED
    BY <2>1, <2>2 DEF Tries, AnsweredOrTried
<1>11. CASE PostAnswered \/ PostFailed
  <2>1. /\ Hand = 1 /\ e = Len(handled) + 1 /\ e \in Event
        /\ retries \in 1 .. MaxRetries /\ tried[e] = MaxRetries - retries
    BY <1>11, PostedEvent DEF PostAnswered, PostFailed
  <2>2. UNCHANGED got
    BY <1>11, AloneEffect DEF WorkerAlone
  <2>3. tried' = [tried EXCEPT ![e] = MaxRetries - retries + 1]
    BY <1>11, <2>1 DEF PostAnswered, PostFailed
  <2>4. /\ tried' \in [Event -> 0 .. MaxRetries]
        /\ tried'[e] = MaxRetries - retries + 1
        /\ \A x \in Event : x # e => tried'[x] = tried[x]
    BY <2>1, <2>3, AuditorAssumption DEF Tries
  <2>5. /\ ledger' \in SUBSET Event /\ Len(handled) + 1 \in Nat
        /\ \A x \in ledger' : x <= Len(handled) + 1
    BY <1>0, <1>11, <2>1 DEF PostAnswered, PostFailed, Tries
  <2>6. \A x \in Event : x > Len(handled) + 1 => tried'[x] = 0
    BY <1>0, <2>1, <2>4 DEF Tries, Event
  <2>7. \A i \in 1 .. Len(handled) : i \in Event /\ i # e
    BY <1>0, <2>1, AuditorAssumption DEF Event
  <2>8. ASSUME LeaveRetryLoop, answered' \in {answered, answered \cup {e}},
               retries' \in 0 .. MaxRetries,
               e \in answered' \/ tried'[e] = MaxRetries
        PROVE  Tries'
    <3>1. Hand' = 0 /\ handled' = Append(handled, e) /\ Len(handled') = Len(handled) + 1
      BY <2>8, <1>2 DEF LeaveRetryLoop, Hand, Placed
    <3>2. \A i \in 1 .. Len(handled) + 1 : handled'[i] = i
      BY <1>2, <3>1 DEF Placed
    <3>3. \A i \in 1 .. Len(handled) + 1 : i \in answered' \/ tried'[i] = MaxRetries
      <4>1. ASSUME NEW i \in 1 .. Len(handled)
            PROVE  i \in answered' \/ tried'[i] = MaxRetries
        BY <1>1, <2>4, <2>7, <2>8
      <4>2. \A i \in 1 .. Len(handled) + 1 : i \in 1 .. Len(handled) \/ i = e
        BY <1>0, <2>1
      <4>3. QED
        BY <2>8, <4>1, <4>2
    <3>4. AnsweredOrTried'
      BY <3>1, <3>2, <3>3 DEF AnsweredOrTried
    <3>5. answered' \in SUBSET Event /\ \A x \in answered' : x <= Len(handled) + 1
      BY <1>0, <2>1, <2>8 DEF Tries, Event
    <3>6. QED
      BY <1>0, <2>4, <2>5, <2>6, <2>8, <3>1, <3>4, <3>5 DEF Tries
  <2>9. CASE PostAnswered
    BY <2>1, <2>8, <2>9 DEF PostAnswered, Tries
  <2>10. CASE PostFailed /\ ~TryAgain
    <3>1. retries = 1 /\ tried'[e] = MaxRetries /\ retries' = 0
      BY <2>1, <2>4, <2>10, AuditorAssumption DEF TryAgain, PostFailed
    <3>2. QED
      BY <2>8, <2>10, <3>1, AuditorAssumption DEF PostFailed, Tries
  <2>11. CASE PostFailed /\ TryAgain
    <3>1. /\ UNCHANGED <<answered, handled>> /\ Hand' = 1
          /\ retries' = retries - 1 /\ retries > 1
      BY <2>11 DEF PostFailed, TryAgain, Hand
    <3>2. retries' \in 0 .. MaxRetries /\ retries' # 0 /\ tried'[e] = MaxRetries - retries'
      BY <2>1, <2>4, <3>1, AuditorAssumption
    <3>3. AnsweredOrTried'
      BY <1>0, <1>1, <2>4, <2>7, <3>1 DEF AnsweredOrTried
    <3>4. QED
      BY <2>2, <2>4, <2>5, <2>6, <3>1, <3>2, <3>3 DEF Tries
  <2>12. QED
    BY <1>11, <2>9, <2>10, <2>11
<1>12. CASE Stores
  <2>1. PICK s \in Event : GatewayStores(s)
    BY <1>12 DEF Stores
  <2>2. /\ UNCHANGED <<wpc, retries, tried, answered, handled>> /\ ledger' = ledger \cup {s}
        /\ UNCHANGED got /\ Hand' = Hand
    BY <1>12, <2>1, AloneEffect DEF GatewayStores, Hand
  <2>3. s <= Len(handled) + Hand
    <3>1. CASE tried[s] > 0
      BY <1>0, <3>1 DEF Tries, Hand, Event
    <3>2. CASE wpc = "post" /\ got[Worker] = s
      BY <3>2, PostedEvent
    <3>3. QED
      BY <2>1, <3>1, <3>2 DEF GatewayStores, WasPosted
  <2>4. QED
    BY <2>2, <2>3 DEF Tries, AnsweredOrTried
<1>13. QED
  BY <1>4, <1>5, <1>6, <1>7, <1>8, <1>9, <1>10, <1>11, <1>12, NextCases DEF WorkerAlone

\* A captured event is written, or its write fails, before the next is captured.
LEMMA LogsStep ==
  ASSUME QueueInv, Numbered, Threads, Phases, Logs, Next
  PROVE  Logs'
<1> DEFINE Written == {logged[i] : i \in 1 .. Len(logged)} \cup unlogged
           done == IF mpc \in {"push", "pushing", "log"} THEN captured - 1 ELSE captured
<1>0. captured \in Nat /\ Len(logged) \in Nat /\ done \in Nat
  BY AuditorAssumption DEF Numbered, Logs
<1>1. CASE UNCHANGED <<logged, unlogged>> /\ done' = done
  BY <1>1 DEF Logs, LocalLogComplete
<1>2. CASE Push
  <2>1. UNCHANGED <<logged, unlogged, captured>> /\ mpc \in {"push", "pushing"}
    BY <1>2 DEF Push
  <2>2. mpc' \in {"pushing", "log"}
    BY <1>2, PushEffect
  <2>3. QED
    BY <1>1, <2>1, <2>2
<1>3. CASE Pop \/ WorkerAlone \/ Stores \/ Signal \/ UNCHANGED vars
  <2>1. UNCHANGED mainVars
    BY <1>3 DEF Pop, WorkerAlone, TestRunning, TestCount, PostAnswered, PostFailed, Sleep,
                Stores, GatewayStores, Signal, vars
  <2>2. QED
    BY <1>1, <2>1 DEF mainVars
<1>4. CASE WakeUp
  BY <1>1, <1>4, WakeEffect DEF WakeUp, mainVars
<1>5. CASE ShutdownQueue
  BY <1>1, <1>5 DEF ShutdownQueue
<1>6. CASE Capture
  BY <1>0, <1>1, <1>6 DEF Capture
<1>7. CASE CaptureEnds \/ Stop \/ Join \/ Destroy
  BY <1>1, <1>7 DEF CaptureEnds, Stop, Join, Destroy
<1>8. CASE LogWrite
  <2>1. /\ captured \in Event /\ done = captured - 1 /\ done' = captured
        /\ Written = 1 .. captured - 1
    BY <1>0, <1>8, AuditorAssumption DEF LogWrite, Numbered, Event, Logs, LocalLogComplete
  <2>2. /\ \A i, j \in 1 .. Len(logged') : i < j => logged'[i] < logged'[j]
        /\ Written' = 1 .. captured
        => LocalLogComplete'
    BY <2>1 DEF LocalLogComplete
  <2>3. 1 .. captured = (1 .. captured - 1) \cup {captured}
    BY <1>0, <2>1, AuditorAssumption DEF Event
  <2>4. CASE logged' = Append(logged, captured) /\ UNCHANGED unlogged
    <3>1. /\ logged' \in Seq(Event) /\ Len(logged') = Len(logged) + 1
          /\ logged'[Len(logged) + 1] = captured
          /\ \A i \in 1 .. Len(logged) : logged'[i] = logged[i]
      BY <2>1, <2>4 DEF Logs
    <3>2. \A i \in 1 .. Len(logged) + 1 : i \in 1 .. Len(logged) \/ i = Len(logged) + 1
      BY <1>0
    <3>3. Written' = Written \cup {captured}
      BY <1>0, <2>4, <3>1, <3>2
    <3>4. \A i \in 1 .. Len(logged) : logged[i] \in 1 .. captured - 1
      BY <2>1
    <3>5. ASSUME NEW i \in 1 .. Len(logged'), NEW j \in 1 .. Len(logged'), i < j
          PROVE  logged'[i] < logged'[j]
      <4>1. i \in 1 .. Len(logged) /\ i # Len(logged) + 1
        BY <1>0, <3>1, <3>5
      <4>2. CASE j \in 1 .. Len(logged)
        BY <3>1, <3>5, <4>1, <4>2 DEF Logs, LocalLogComplete
      <4>3. CASE j = Len(logged) + 1
        BY <1>0, <3>1, <3>4, <4>1, <4>3
      <4>4. QED
        BY <3>1, <3>2, <4>2, <4>3
    <3>6. QED
      BY <2>1, <2>2, <2>3, <2>4, <3>1, <3>3, <3>5 DEF Logs
  <2>5. CASE unlogged' = unlogged \cup {captured} /\ UNCHANGED logged
    <3>1. Written' = Written \cup {captured}
      BY <2>5
    <3>2. unlogged' \in SUBSET Event
      BY <2>1, <2>5 DEF Logs
    <3>3. QED
      BY <2>1, <2>2, <2>3, <2>5, <3>1, <3>2 DEF Logs, LocalLogComplete
  <2>6. QED
    BY <1>8, <2>4, <2>5 DEF LogWrite
<1>9. QED
  BY <1>2, <1>3, <1>4, <1>5, <1>6, <1>7, <1>8, NextCases DEF MainAlone

(* The pipeline's inductive invariant, over that of the queue.             *)
IInv == Threads /\ Phases /\ Placed /\ Tries /\ Logs

LEMMA Initially == Init => IInv
<1> SUFFICES ASSUME Init PROVE IInv
  OBVIOUS
<1> USE AuditorAssumption
<1>1. where[Main] = "out" /\ where[Worker] = "out"
  BY DEF Init, Q!Init, Q!Thread
<1>2. Threads
  BY <1>1 DEF Init, Threads
<1>3. Phases
  BY DEF Init, Q!Init, Phases, MainPlace, WorkerPlace
<1>4. Placed
  BY DEF Init, Q!Init, Placed, Hand, Accepted
<1>5. Tries
  BY DEF Init, Tries, Hand, AnsweredOrTried
<1>6. Logs
  BY DEF Init, Logs, LocalLogComplete
<1>7. QED
  BY <1>2, <1>3, <1>4, <1>5, <1>6 DEF IInv

LEMMA Stepwise == QueueInv /\ Numbered /\ IInv /\ [Next]_vars => IInv'
<1> SUFFICES ASSUME QueueInv, Numbered, IInv, [Next]_vars PROVE IInv'
  OBVIOUS
<1>1. CASE Next
  BY <1>1, ThreadsStep, PhasesStep, PlacedStep, TriesStep, LogsStep DEF IInv
<1>2. CASE UNCHANGED vars
  BY <1>2 DEF vars, queueVars, mainVars, workerVars, flags, IInv, Threads, Phases, Placed, Hand, Accepted,
              Q!Contents, Tries, AnsweredOrTried, Logs, LocalLogComplete
<1>3. QED
  BY <1>1, <1>2

LEMMA Invariance == Spec => [](QueueInv /\ Numbered /\ IInv)
BY Initially, Stepwise, NumberedInvariant, QueueInvariant, PTL DEF Spec

-----------------------------------------------------------------------------
(* What a reader should know                                               *)

(* Every variable of main.c's pipeline keeps its type: the retry counter   *)
(* of worker_thread stays between 0 and MaxRetries, no event is posted     *)
(* more than MaxRetries times, and the queue holds at most Size events.    *)
THEOREM TypeCorrect == Spec => []TypeOK
<1>1. QueueInv /\ Numbered /\ IInv => TypeOK
  BY DEF QueueInv, Numbered, IInv, Phases, Placed, Tries, Logs, TypeOK
<1>2. QED
  BY <1>1, Invariance, PTL

\* A sequence that counts from 1 and one that counts on from its end.
LEMMA CountingOn ==
  ASSUME NEW S, NEW s \in Seq(S), NEW t \in Seq(S),
         \A i \in 1 .. Len(s) : s[i] = i,
         \A i \in 1 .. Len(t) : t[i] = Len(s) + i
  PROVE  /\ s \o t \in Seq(S)
         /\ Len(s \o t) = Len(s) + Len(t)
         /\ \A i \in 1 .. Len(s \o t) : (s \o t)[i] = i
<1>1. s \o t \in Seq(S) /\ Len(s \o t) = Len(s) + Len(t) /\ Len(s) \in Nat /\ Len(t) \in Nat
  OBVIOUS
<1>2. ASSUME NEW i \in 1 .. Len(s) + Len(t)
      PROVE  (s \o t)[i] = i
  <2>1. CASE i <= Len(s)
    BY <1>1, <2>1
  <2>2. CASE i > Len(s)
    <3>1. i - Len(s) \in 1 .. Len(t) /\ (s \o t)[i] = t[i - Len(s)]
      BY <1>1, <2>2
    <3>2. QED
      BY <1>1, <3>1
  <2>3. QED
    BY <1>1, <2>1, <2>2
<1>3. QED
  BY <1>1, <1>2

(* Between event_callback and the POST no event is lost, duplicated or     *)
(* reordered, whatever the capacity, the number of events and the moment   *)
(* of the signal: queue_push's ignored result is never an error.           *)
THEOREM DeliversInOrder == Spec => []Delivery
<1>1. QueueInv /\ Numbered /\ IInv => Delivery
  <2> SUFFICES ASSUME QueueInv, Numbered, Placed PROVE Delivery
    BY DEF IInv
  <2> DEFINE n == Len(handled)
             S == Event \cup {NoItem}
             first == handled \o InHand
             path == first \o Q!Contents
  <2>1. /\ handled \in Seq(S) /\ n \in Nat
        /\ count \in Nat /\ n + Hand + count = Accepted
    BY AuditorAssumption DEF QueueInv, Q!TypeOK, Placed
  <2>2. /\ InHand \in Seq(S) /\ Len(InHand) = Hand /\ Hand \in {0, 1}
        /\ \A i \in 1 .. Hand : InHand[i] = n + i
    <3>1. got[Worker] \in S
      BY DEF QueueInv, Q!TypeOK
    <3>2. CASE wpc \in {"post", "sleep"}
      <4>1. InHand = <<got[Worker]>> /\ Hand = 1
        BY <3>2 DEF InHand, Hand
      <4>2. got[Worker] = n + 1
        BY <4>1 DEF Placed
      <4>3. QED
        BY <2>1, <3>1, <4>1, <4>2
    <3>3. CASE wpc \notin {"post", "sleep"}
      BY <3>3 DEF InHand, Hand
    <3>4. QED
      BY <3>2, <3>3
  <2>3. /\ Q!Contents \in Seq(S) /\ Len(Q!Contents) = count
        /\ \A i \in 1 .. count : Q!Contents[i] = n + Hand + i
    <3>1. \A i \in 1 .. count : Q!Contents[i] \in S
      BY AuditorAssumption DEF QueueInv, Q!RingConsistent
    <3>2. DOMAIN Q!Contents = 1 .. count /\ Q!Contents = [i \in 1 .. count |-> Q!Contents[i]]
      BY DEF Q!Contents
    <3>3. Q!Contents \in [1 .. count -> S]
      BY <3>1, <3>2
    <3>4. QED
      BY <2>1, <3>3 DEF Placed
  <2>4. /\ first \in Seq(S) /\ Len(first) = n + Hand
        /\ \A i \in 1 .. Len(first) : first[i] = i
    BY <2>1, <2>2, CountingOn DEF Placed
  <2>5. /\ path \in Seq(S) /\ Len(path) = n + Hand + count
        /\ \A i \in 1 .. Len(path) : path[i] = i
    <3> HIDE DEF first
    <3>1. \A i \in 1 .. Len(Q!Contents) : Q!Contents[i] = Len(first) + i
      BY <2>3, <2>4
    <3>2. /\ path \in Seq(S) /\ Len(path) = Len(first) + Len(Q!Contents)
          /\ \A i \in 1 .. Len(path) : path[i] = i
      <4> HIDE DEF S
      <4>1. QED
        BY <2>3, <2>4, <3>1, CountingOn
    <3>3. QED
      BY <2>3, <2>4, <3>2
  <2>6. path = [i \in 1 .. Accepted |-> i]
    <3> HIDE DEF path
    <3>1. Len(path) = Accepted
      BY <2>1, <2>5
    <3>2. path = [i \in 1 .. Len(path) |-> path[i]]
      BY <2>5
    <3>3. QED
      BY <2>5, <3>1, <3>2
  <2>7. QED
    BY <2>6 DEF Delivery
<1>2. QED
  BY <1>1, Invariance, PTL

\* What the worker has in hand was not answered: it is not done with it.
LEMMA HandUnanswered ==
  ASSUME Placed, Tries
  PROVE  wpc \in {"post", "sleep"} => got[Worker] \notin answered
<1> SUFFICES ASSUME Hand = 1 PROVE got[Worker] \notin answered
  BY DEF Hand
<1>1. got[Worker] = Len(handled) + 1 /\ Len(handled) \in Nat
  BY DEF Placed
<1>2. QED
  BY <1>1 DEF Tries, Event

(* worker_thread gives up an event without an answer only after MaxRetries *)
(* attempts (main.c:42-50), and while it is in the retry loop, about to    *)
(* post or asleep, its event was not answered.                             *)
THEOREM AbandonsOnlyAfterRetries == Spec => []AbandonedOnlyAfterRetries
<1>1. IInv => AbandonedOnlyAfterRetries
  BY HandUnanswered DEF IInv, Tries, AnsweredOrTried, AbandonedOnlyAfterRetries
<1>2. QED
  BY <1>1, Invariance, PTL

(* An event that was answered is never posted again: no step of any thread *)
(* counts another attempt at it (main.c:44).                               *)
AnsweredNotTriedAgain == [][\A e \in answered : tried'[e] = tried[e]]_vars

\* The break of the retry loop holds for the rest of the run.
THEOREM NeverTriedAgain == Spec => AnsweredNotTriedAgain
<1> DEFINE Kept == \A e \in answered : tried'[e] = tried[e]
<1>1. IInv /\ [Next]_vars => [Kept]_vars
  <2> SUFFICES ASSUME Placed, Tries, Next PROVE Kept
    BY DEF IInv
  <2>1. CASE PostAnswered \/ PostFailed
    BY <2>1, HandUnanswered DEF PostAnswered, PostFailed, Tries
  <2>2. CASE ~(PostAnswered \/ PostFailed)
    <3>1. UNCHANGED tried
      BY <2>2 DEF Next, Capture, CaptureEnds, MainStep, Push, LogWrite, Stop, ShutdownQueue, Join,
                  Destroy, WorkerStep, TestRunning, TestCount, Pop, PopTimeout, Sleep, Signal,
                  SpuriousWake, GatewayStores, Terminated, vars, workerVars
    <3>2. QED
      BY <3>1
  <2>3. QED
    BY <2>1, <2>2
<1>2. QED
  BY <1>1, Invariance, PTL DEF Spec, AnsweredNotTriedAgain

(* event_callback logs every captured event locally, in order, or fails to *)
(* open the log for it: what the gateway does makes no difference.         *)
THEOREM LogsCompletely == Spec => []LocalLogComplete
<1>1. IInv => LocalLogComplete
  BY DEF IInv, Logs
<1>2. QED
  BY <1>1, Invariance, PTL

(* The ledger is never ahead of the local log by more than the event that  *)
(* event_callback has queued and not yet logged.                           *)
THEOREM StoredAlwaysLogged == Spec => []StoredIsLogged
<1>1. QueueInv /\ Numbered /\ IInv => StoredIsLogged
  <2> SUFFICES ASSUME QueueInv, Numbered, Placed, Tries, LocalLogComplete,
                      NEW e \in ledger
               PROVE  \/ e \in {logged[i] : i \in 1 .. Len(logged)} \cup unlogged
                      \/ e = captured /\ mpc = "log"
    BY DEF IInv, Logs, StoredIsLogged
  <2> DEFINE done == IF mpc \in {"push", "pushing", "log"} THEN captured - 1 ELSE captured
  <2>1. /\ e \in Nat /\ 1 <= e /\ e <= Len(handled) + Hand /\ captured \in Nat
        /\ Len(handled) \in Nat /\ Hand \in {0, 1} /\ count \in Nat
    BY AuditorAssumption DEF Tries, Event, Numbered, Placed, Hand, QueueInv, Q!TypeOK
  <2>2. e <= Accepted
    BY <2>1, AuditorAssumption DEF Placed, Accepted
  <2>3. e \in 1 .. done \/ (e = captured /\ mpc = "log")
    BY <2>1, <2>2 DEF Accepted
  <2>4. QED
    BY <2>3 DEF LocalLogComplete
<1>2. QED
  BY <1>1, Invariance, PTL

(* main destroys the queue and the HTTP client only after pthread_join:    *)
(* no thread is, or ever comes, inside queue_push or queue_pop again.      *)
THEOREM DestroysUnused == Spec => []DestroyedUnused
<1>1. IInv => DestroyedUnused
  <2> SUFFICES ASSUME Threads, Phases, mpc \in {"destroy", "exit"}
               PROVE  wpc \in {"none", "ended"} /\ Q!Blocked({Main, Worker}) = {}
    BY DEF IInv, DestroyedUnused
  <2>1. wpc \in {"none", "ended"}
    BY DEF Phases
  <2>2. where[Main] = "out" /\ where[Worker] = "out"
    BY <2>1 DEF Threads
  <2>3. QED
    BY <2>1, <2>2 DEF Q!Blocked
<1>2. QED
  BY <1>1, Invariance, PTL

(* The shutdown of the queue comes after the last push, and the worker     *)
(* drains the queue unless a signal stops it: an auditor that was not      *)
(* interrupted exits with every captured event handled.                    *)
THEOREM LeavesNothing == Spec => []ExitLeavesNothing
<1>1. QueueInv /\ Numbered /\ IInv => ExitLeavesNothing
  <2> SUFFICES ASSUME QueueInv, Numbered, Phases, Placed, mpc = "exit", useGateway, ~signalled
               PROVE  Len(handled) = captured
    BY DEF IInv, ExitLeavesNothing
  <2>1. wpc = "ended" /\ count = 0
    BY DEF Phases
  <2>2. Hand = 0 /\ Accepted = captured
    BY <2>1 DEF Hand, Accepted
  <2>3. QED
    BY <2>1, <2>2 DEF Placed
<1>2. QED
  BY <1>1, Invariance, PTL

-----------------------------------------------------------------------------
(* Who is blocked                                                          *)

(* While event_callback is blocked in queue_push the queue is full and the *)
(* worker, unless a signal has ended it, is still there to take an event:  *)
(* main never waits for a wakeup that was lost or that nobody can give.    *)
(* The worker waits with the timeout only, and only for an event to come.  *)
BlockedIsServed ==
  /\ where[Main] \in {"waiting", "timed"} =>
       /\ count = Size /\ ~shutdown
       /\ wpc \notin {"none", "ended"} \/ signalled
  /\ where[Worker] # "waiting"
  /\ where[Worker] = "timed" => count = 0 /\ ~shutdown

\* queue_pop is called with a timeout (main.c:40).
LEMMA TimedStep ==
  ASSUME QueueInv, where[Worker] # "waiting", [Next]_vars
  PROVE  where'[Worker] # "waiting"
<1>1. where \in [{Main, Worker} -> {"out", "waiting", "timed", "woken"}]
  BY DEF QueueInv, Q!TypeOK, Q!Thread, Q!Place
<1>2. CASE Push
  <2>1. \E x : Q!PushSection(Main, x)
    BY <1>2 DEF Push, Q!PushEnter, Q!PushResume
  <2>2. PICK x : Q!PushSection(Main, x)
    BY <2>1
  <2>3. CASE Q!PushWait(Main) \/ Q!PushRefused(Main)
    BY <1>1, <2>3, AuditorAssumption DEF Q!PushWait, Q!PushRefused
  <2>4. CASE Q!PushStore(Main, x)
    BY <1>1, <2>4, AuditorAssumption DEF Q!PushStore, Q!LeaveSignalling, Q!Blocked
  <2>5. QED
    BY <2>2, <2>3, <2>4 DEF Q!PushSection
<1>3. CASE Pop
  <2>1. Q!PopWait(Worker, "timed") \/ Q!PopNothing(Worker) \/ Q!PopTake(Worker)
    BY <1>3 DEF Pop, Q!PopEnter, Q!PopResume, Q!PopFinish
  <2>2. CASE Q!PopWait(Worker, "timed") \/ Q!PopNothing(Worker)
    BY <1>1, <2>2 DEF Q!PopWait, Q!PopNothing
  <2>3. CASE Q!PopTake(Worker)
    BY <1>1, <2>3, AuditorAssumption DEF Q!PopTake, Q!LeaveSignalling, Q!Blocked
  <2>4. QED
    BY <2>1, <2>2, <2>3
<1>4. CASE WakeUp
  <2>1. PICK t \in {Main, Worker} : Q!Wake(t)
    BY <1>4 DEF WakeUp, PopTimeout, SpuriousWake, Q!PopTimeout, Q!SpuriousWake
  <2>2. QED
    BY <1>1, <2>1 DEF Q!Wake
<1>5. CASE ShutdownQueue
  BY <1>1, <1>5 DEF ShutdownQueue, Q!Shutdown, Q!Broadcast, Q!Blocked, Q!Thread
<1>6. CASE MainAlone \/ WorkerAlone \/ Stores \/ Signal \/ UNCHANGED vars
  BY <1>6, AloneEffect
<1>7. QED
  BY <1>2, <1>3, <1>4, <1>5, <1>6, NextCases

\* With one thread on each side, NoLostWakeup leaves one case for being blocked.
LEMMA OneThreadWakeups ==
  ASSUME QueueInv, QP!NoLostWakeup, QP!ShutdownWakesAll
  PROVE  /\ where[Main] \in {"waiting", "timed"} => count = Size /\ ~shutdown
         /\ where[Worker] \in {"waiting", "timed"} => count = 0 /\ ~shutdown
<1>1. where \in [{Main, Worker} -> {"out", "waiting", "timed", "woken"}] /\ count \in 0 .. Size
  BY DEF QueueInv, Q!TypeOK, Q!Thread, Q!Place
<1>2. QP!Cardinality({}) = 0
  BY QueueConstants, QP!FS_EmptySet
<1>3. ASSUME where[Main] \in {"waiting", "timed"}
      PROVE  count = Size /\ ~shutdown
  <2>1. Main \in QP!Blocked({Main}) /\ QP!Woken({Main}) = {}
    BY <1>3 DEF QP!Blocked, QP!Woken
  <2>2. ~shutdown
    BY <1>3 DEF QP!ShutdownWakesAll, QP!Blocked, QP!Thread
  <2>3. Size - count <= 0
    BY <1>2, <2>1, <2>2 DEF QP!NoLostWakeup
  <2>4. QED
    BY <1>1, <2>2, <2>3, AuditorAssumption
<1>4. ASSUME where[Worker] \in {"waiting", "timed"}
      PROVE  count = 0 /\ ~shutdown
  <2>1. Worker \in QP!Blocked({Worker}) /\ QP!Woken({Worker}) = {}
    BY <1>4 DEF QP!Blocked, QP!Woken
  <2>2. ~shutdown
    BY <1>4 DEF QP!ShutdownWakesAll, QP!Blocked, QP!Thread
  <2>3. count <= 0
    BY <1>2, <2>1, <2>2 DEF QP!NoLostWakeup
  <2>4. QED
    BY <1>1, <2>2, <2>3, AuditorAssumption
<1>5. QED
  BY <1>3, <1>4

(* The safety half of CallbackReturns: whatever the capacity, a blocked    *)
(* event_callback is one the worker still serves, or one that a signal has *)
(* deprived of the worker (main.c:39-40, queue.c:39-41, 52, 87).                     *)
THEOREM BlockedAlwaysServed == Spec => []BlockedIsServed
<1>1. Spec => []QP!NoLostWakeup
  <2>1. QP!Spec => []QP!NoLostWakeup
    BY QueueConstants, QP!NeverLosesWakeup
  <2>2. QED
    BY <2>1, QueueSteps, PTL
<1>2. Spec => []QP!ShutdownWakesAll
  <2>1. QP!Spec => []QP!ShutdownWakesAll
    BY QueueConstants, QP!ShutdownAlwaysWakesAll
  <2>2. QED
    BY <2>1, QueueSteps, PTL
<1>3. Init => where[Worker] # "waiting"
  BY DEF Init, Q!Init, Q!Thread
<1>4. QueueInv /\ where[Worker] # "waiting" /\ [Next]_vars => (where[Worker] # "waiting")'
  BY TimedStep
<1>5. Spec => [](where[Worker] # "waiting")
  BY <1>3, <1>4, QueueInvariant, PTL DEF Spec
<1>6. /\ QueueInv /\ Numbered /\ IInv /\ QP!NoLostWakeup /\ QP!ShutdownWakesAll
      /\ where[Worker] # "waiting"
      => BlockedIsServed
  <2> SUFFICES ASSUME QueueInv, Threads, Phases, QP!NoLostWakeup, QP!ShutdownWakesAll,
                      where[Worker] # "waiting"
               PROVE  BlockedIsServed
    BY DEF IInv
  <2>1. ASSUME where[Main] \in {"waiting", "timed"}
        PROVE  wpc \notin {"none", "ended"} \/ signalled
    <3>1. count # 0
      BY <2>1, OneThreadWakeups, AuditorAssumption
    <3>2. useGateway
      BY <2>1 DEF Threads, Phases
    <3>3. QED
      BY <3>1, <3>2 DEF Phases
  <2>2. QED
    BY <2>1, OneThreadWakeups DEF BlockedIsServed
<1>7. QED
  BY <1>1, <1>2, <1>5, <1>6, Invariance, PTL

-----------------------------------------------------------------------------
(* After the shutdown of the queue                                         *)

\* queue_pop takes nothing any more, even if events are left (queue.c:78).
LEMMA PopsNothing ==
  ASSUME QueueInv, shutdown, Pop
  PROVE  UNCHANGED <<buffer, head, tail, count, shutdown, got>> /\ wpc' = "test" /\ retries' = retries
<1>1. /\ where \in [{Main, Worker} -> {"out", "waiting", "timed", "woken"}]
      /\ ret \in [{Main, Worker} -> {0, -1}]
  BY DEF QueueInv, Q!TypeOK, Q!Thread, Q!Place
<1>2. Q!PopNothing(Worker)
  BY DEF Pop, Q!PopEnter, Q!PopResume, Q!PopFinish, Q!PopWait, Q!PopMustWait, Q!PopTake, Q!PopFails
<1>3. where'[Worker] = "out" /\ ret'[Worker] = -1
  BY <1>1, <1>2 DEF Q!PopNothing, Q!Return
<1>4. wpc' = "test" /\ retries' = retries
  BY <1>3 DEF Pop, AfterPop
<1>5. QED
  BY <1>2, <1>4 DEF Q!PopNothing, Q!ring

(* What the shutdown finds in the queue stays in it: it is never posted,   *)
(* and the worker, which the events keep in its loop, never ends unless it *)
(* had ended before (main.c:39-41, 159-161).                               *)
StrandedForGood ==
  [][shutdown => /\ Q!Contents' = Q!Contents
                 /\ \A i \in 1 .. count : tried'[Q!Contents[i]] = 0
                 /\ count > 0 /\ wpc # "ended" => wpc' # "ended"]_vars

LEMMA ShutdownFreezes ==
  ASSUME QueueInv, Numbered, Phases, shutdown, [Next]_vars
  PROVE  /\ Q!Contents' = Q!Contents
         /\ UNCHANGED <<count, shutdown>>
         /\ count > 0 /\ wpc # "ended" => wpc' # "ended"
<1>1. CASE Pop
  BY <1>1, PopsNothing DEF Q!Contents
<1>2. CASE Push
  BY <1>2 DEF Push, Phases
<1>3. CASE WakeUp
  BY <1>3, WakeEffect DEF WakeUp, workerVars
<1>4. CASE ShutdownQueue
  BY <1>4, ShutdownEffect DEF ShutdownQueue, workerVars
<1>5. CASE MainAlone \/ WorkerAlone \/ Stores \/ Signal \/ UNCHANGED vars
  <2>1. count > 0 /\ wpc # "ended" => wpc' # "ended"
    BY <1>5 DEF MainAlone, Capture, CaptureEnds, LogWrite, Stop, Join, Destroy, WorkerAlone, TestRunning,
                TestCount, PostAnswered, PostFailed, LeaveRetryLoop, Sleep, Stores, GatewayStores, Signal,
                vars, workerVars, Phases
  <2>2. QED
    BY <1>5, <2>1, AloneEffect
<1>6. QED
  BY <1>1, <1>2, <1>3, <1>4, <1>5, NextCases

(* Why EveryEventPosted fails, for every instance: not a matter of time.   *)
THEOREM StrandsForGood == Spec => StrandedForGood
<1>1. ASSUME QueueInv, Numbered, IInv, QueueInv', Numbered', IInv', shutdown, [Next]_vars
      PROVE  /\ Q!Contents' = Q!Contents
             /\ \A i \in 1 .. count : tried'[Q!Contents[i]] = 0
             /\ count > 0 /\ wpc # "ended" => wpc' # "ended"
  <2>1. /\ Q!Contents' = Q!Contents /\ count' = count
        /\ count > 0 /\ wpc # "ended" => wpc' # "ended"
    BY <1>1, ShutdownFreezes DEF IInv
  <2>2. ASSUME NEW i \in 1 .. count
        PROVE  tried'[Q!Contents[i]] = 0
    <3>1. /\ Q!Contents'[i] = Len(handled') + Hand' + i
          /\ Len(handled') \in Nat /\ Hand' \in {0, 1} /\ count' \in Nat
          /\ Len(handled') + Hand' + count' = Accepted'
      BY <1>1, <2>1 DEF IInv, Placed, Hand, QueueInv, Q!TypeOK
    <3>2. Accepted' \in Int /\ Accepted' <= MaxEvents
      <4>1. captured' \in 0 .. MaxEvents
        BY <1>1 DEF Numbered
      <4>2. Accepted' = 0 \/ Accepted' = captured' - 1 \/ Accepted' = captured'
        BY DEF Accepted
      <4>3. QED
        BY <4>1, <4>2, AuditorAssumption
    <3>3. Q!Contents'[i] \in Event /\ Q!Contents'[i] > Len(handled') + Hand'
      BY <2>1, <3>1, <3>2, AuditorAssumption DEF Event
    <3>4. QED
      BY <1>1, <2>1, <3>3 DEF IInv, Tries
  <2>3. QED
    BY <2>1, <2>2
<1>2. /\ QueueInv /\ Numbered /\ IInv
      /\ QueueInv' /\ Numbered' /\ IInv'
      /\ [Next]_vars
      => [shutdown => /\ Q!Contents' = Q!Contents
                      /\ \A i \in 1 .. count : tried'[Q!Contents[i]] = 0
                      /\ count > 0 /\ wpc # "ended" => wpc' # "ended"]_vars
  BY <1>1
<1>3. QED
  BY <1>2, Invariance, PTL DEF Spec, StrandedForGood

\* How many steps worker_thread is at most away from its end, once nothing is queued.
StepsLeft(place, attempts) ==
  CASE place = "count" -> 1
    [] place = "test" -> 2
    [] place \in {"pop", "popping"} -> 3
    [] place = "post" -> 2 * attempts + 2
    [] place = "sleep" -> 2 * attempts + 3
    [] OTHER -> 0

Remaining == StepsLeft(wpc, retries)

(* A drained command comes to its end: when main joins the worker and the  *)
(* queue is empty, it stays empty, the worker does not wait in it, each of *)
(* its steps, a retry included, brings it nearer to its end, and no step   *)
(* of anything else takes it back (main.c:39-53).                          *)
NearsExit ==
  [][mpc = "join" /\ count = 0 =>
       /\ count' = 0
       /\ wpc = "popping" => where[Worker] = "woken"
       /\ Remaining \in Nat /\ Remaining' \in 0 .. Remaining
       /\ WorkerStep => Remaining' < Remaining]_vars

\* The order of g_running = 0, queue_shutdown and pthread_join.
Closing == /\ mpc \in {"shutdown", "join"} => ~gRunning
           /\ mpc = "join" => shutdown

LEMMA ClosingStep ==
  ASSUME QueueInv, Numbered, Threads, Phases, Closing, Next
  PROVE  Closing'
<1> USE DEF Closing
<1>1. CASE Push
  BY <1>1, PushEffect DEF Push, flags
<1>2. CASE Pop
  BY <1>2, PopEffect DEF Pop, mainVars, flags
<1>3. CASE WakeUp
  BY <1>3, WakeEffect DEF WakeUp, mainVars, flags
<1>4. CASE ShutdownQueue
  BY <1>4, ShutdownEffect DEF ShutdownQueue, flags
<1>5. CASE MainAlone
  BY <1>5, AloneEffect DEF MainAlone, Capture, CaptureEnds, LogWrite, Stop, Join, Destroy, flags, Phases
<1>6. CASE WorkerAlone \/ Stores
  BY <1>6, AloneEffect DEF WorkerAlone, TestRunning, TestCount, PostAnswered, PostFailed, Sleep, Stores,
                           GatewayStores, flags, mainVars
<1>7. CASE Signal
  <2>1. UNCHANGED <<mpc, shutdown>> /\ gRunning' = FALSE
    BY <1>7, AloneEffect DEF Signal, mainVars
  <2>2. QED
    BY <2>1
<1>8. CASE UNCHANGED vars
  BY <1>8, AloneEffect DEF vars, flags, mainVars
<1>9. QED
  BY <1>1, <1>2, <1>3, <1>4, <1>5, <1>6, <1>7, <1>8, NextCases

LEMMA StepsLeftAt ==
  \A r : /\ StepsLeft("none", r) = 0 /\ StepsLeft("ended", r) = 0
         /\ StepsLeft("count", r) = 1 /\ StepsLeft("test", r) = 2
         /\ StepsLeft("pop", r) = 3 /\ StepsLeft("popping", r) = 3
         /\ StepsLeft("post", r) = 2 * r + 2
         /\ StepsLeft("sleep", r) = 2 * r + 3
BY DEF StepsLeft

\* Every step of the worker counts.
LEMMA WorkerAdvances ==
  ASSUME QueueInv, Phases, Tries, Closing, QP!ShutdownWakesAll, mpc = "join", count = 0
  PROVE  /\ where[Worker] \in {"out", "woken"}
         /\ Remaining \in Nat
         /\ WorkerStep => Remaining' \in 0 .. Remaining - 1
<1>1. shutdown /\ ~gRunning
  BY DEF Closing
<1>2. where[Worker] \in {"out", "woken"}
  <2>1. where \in [{Main, Worker} -> {"out", "waiting", "timed", "woken"}]
    BY DEF QueueInv, Q!TypeOK, Q!Thread, Q!Place
  <2>2. where[Worker] \notin {"waiting", "timed"}
    BY <1>1 DEF QP!ShutdownWakesAll, QP!Blocked, QP!Thread
  <2>3. QED
    BY <2>1, <2>2
<1>3. wpc \in {"post", "sleep"} => retries \in Nat /\ retries >= 1
  BY AuditorAssumption DEF Tries, Hand
<1>4. Remaining \in Nat
  BY <1>3, StepsLeftAt DEF Remaining, Phases, WorkerPlace
<1>5. CASE TestRunning
  <2>1. wpc = "test" /\ wpc' = "count"
    BY <1>1, <1>5 DEF TestRunning
  <2>2. Remaining = 2 /\ Remaining' = 1
    BY <2>1, StepsLeftAt DEF Remaining
  <2>3. QED
    BY <1>2, <1>4, <2>2
<1>6. CASE TestCount
  <2>1. wpc = "count" /\ wpc' = "ended"
    BY <1>6 DEF TestCount
  <2>2. Remaining = 1 /\ Remaining' = 0
    BY <2>1, StepsLeftAt DEF Remaining
  <2>3. QED
    BY <1>2, <1>4, <2>2
<1>7. CASE Pop
  <2>1. wpc \in {"pop", "popping"} /\ wpc' = "test"
    BY <1>1, <1>7, PopsNothing DEF Pop
  <2>2. Remaining = 3 /\ Remaining' = 2
    BY <2>1, StepsLeftAt DEF Remaining
  <2>3. QED
    BY <1>2, <1>4, <2>2
<1>8. CASE PopTimeout
  BY <1>2, <1>8 DEF PopTimeout, Q!PopTimeout
<1>9. CASE PostAnswered
  <2>1. wpc = "post" /\ wpc' = "test"
    BY <1>9 DEF PostAnswered, LeaveRetryLoop
  <2>2. Remaining = 2 * retries + 2 /\ Remaining' = 2
    BY <2>1, StepsLeftAt DEF Remaining
  <2>3. QED
    BY <1>2, <1>3, <1>4, <2>1, <2>2
<1>10. CASE PostFailed
  <2>1. wpc = "post" /\ wpc' \in {"sleep", "test"} /\ retries' = retries - 1
    BY <1>10 DEF PostFailed, LeaveRetryLoop
  <2>2. Remaining = 2 * retries + 2 /\ (Remaining' = 2 \/ Remaining' = 2 * (retries - 1) + 3)
    BY <2>1, StepsLeftAt DEF Remaining
  <2>3. QED
    BY <1>2, <1>3, <1>4, <2>1, <2>2
<1>11. CASE Sleep
  <2>1. wpc = "sleep" /\ wpc' = "post" /\ retries' = retries
    BY <1>11 DEF Sleep
  <2>2. Remaining = 2 * retries + 3 /\ Remaining' = 2 * retries + 2
    BY <2>1, StepsLeftAt DEF Remaining
  <2>3. QED
    BY <1>2, <1>3, <1>4, <2>1, <2>2
<1>12. QED
  BY <1>2, <1>4, <1>5, <1>6, <1>7, <1>8, <1>9, <1>10, <1>11 DEF WorkerStep

(* The safety half of DrainedRunExits, whose other half is that the two    *)
(* threads are scheduled.                                                  *)
THEOREM AlwaysNearsExit == Spec => NearsExit
<1>1. Spec => []QP!ShutdownWakesAll
  <2>1. QP!Spec => []QP!ShutdownWakesAll
    BY QueueConstants, QP!ShutdownAlwaysWakesAll
  <2>2. QED
    BY <2>1, QueueSteps, PTL
<1>2. Spec => []Closing
  <2>1. Init => Closing
    BY DEF Init, Closing
  <2>2. QueueInv /\ Numbered /\ IInv /\ Closing /\ [Next]_vars => Closing'
    BY ClosingStep DEF IInv, vars, queueVars, mainVars, flags, Closing
  <2>3. QED
    BY <2>1, <2>2, Invariance, PTL DEF Spec
<1>3. ASSUME QueueInv, Numbered, IInv, Closing, QP!ShutdownWakesAll, mpc = "join", count = 0, [Next]_vars
      PROVE  /\ count' = 0
             /\ wpc = "popping" => where[Worker] = "woken"
             /\ Remaining \in Nat /\ Remaining' \in 0 .. Remaining
             /\ WorkerStep => Remaining' < Remaining
  <2>1. count' = 0
    BY <1>3, ShutdownFreezes DEF IInv, Closing
  <2>2. /\ Remaining \in Nat
        /\ WorkerStep => Remaining' \in 0 .. Remaining - 1
        /\ wpc = "popping" => where[Worker] = "woken"
    BY <1>3, WorkerAdvances DEF IInv, Threads
  <2>3. CASE WorkerStep
    BY <2>1, <2>2, <2>3
  <2>4. CASE ~WorkerStep
    <3>1. UNCHANGED <<wpc, retries>>
      BY <1>3, <2>4 DEF Next, MainStep, Push, LogWrite, Stop, ShutdownQueue, Join, Destroy, Capture, CaptureEnds,
                        Signal, SpuriousWake, GatewayStores, Terminated, vars, workerVars, IInv, Phases
    <3>2. Remaining' = Remaining
      BY <3>1 DEF Remaining
    <3>3. QED
      BY <2>1, <2>2, <2>4, <3>2
  <2>5. QED
    BY <2>3, <2>4
<1>4. QueueInv /\ Numbered /\ IInv /\ Closing /\ QP!ShutdownWakesAll /\ [Next]_vars
        => [mpc = "join" /\ count = 0 =>
              /\ count' = 0
              /\ wpc = "popping" => where[Worker] = "woken"
              /\ Remaining \in Nat /\ Remaining' \in 0 .. Remaining
              /\ WorkerStep => Remaining' < Remaining]_vars
  BY <1>3
<1>5. QED
  BY <1>1, <1>2, <1>4, Invariance, PTL DEF Spec, NearsExit
=============================================================================
