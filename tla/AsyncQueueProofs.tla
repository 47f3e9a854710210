-------------------------- MODULE AsyncQueueProofs --------------------------
EXTENDS AsyncQueue, FiniteSetTheorems, TLAPS

(* Indices never run further ahead than one lap, where % is a subtraction. *)
LEMMA Wrap ==
  ASSUME NEW x \in 0 .. 2 * Size - 1, Size > 0
  PROVE  x % Size = IF x < Size THEN x ELSE x - Size
<1>1. Size \in Nat
  BY QueueAssumption
<1>2. CASE x < Size
  BY <1>1, <1>2
<1>3. CASE x >= Size
  BY <1>1, <1>3
<1>4. QED
  BY <1>1, <1>2, <1>3

(* A successor index stays in the ring.                                    *)
LEMMA AdvanceInRing ==
  ASSUME NEW i \in Slot
  PROVE  Advance(i) \in Slot
BY Wrap, QueueAssumption DEF Slot, Advance

-----------------------------------------------------------------------------
(* Type correctness: every field of the queue and every thread's state     *)
(* keeps its type, and a thread inside queue_push has an event to push.    *)
THEOREM TypeCorrect == Spec => []TypeOK
<1>1. Init => TypeOK
  <2>1. 0 \in 0 .. Size /\ FALSE \in BOOLEAN
    BY QueueAssumption
  <2>2. QED
    BY <2>1, Zenon DEF Init, TypeOK, Place, Thread
<1>2. TypeOK /\ [Next]_vars => TypeOK'
  <2> SUFFICES ASSUME TypeOK, [Next]_vars
               PROVE  TypeOK'
    OBVIOUS
  <2> USE QueueAssumption DEF TypeOK, Place, Thread, ring
  <2>1. ASSUME NEW t \in Thread, NEW T, LeaveSignalling(t, T), T \subseteq Thread
        PROVE  /\ where' \in [Thread -> Place]
               /\ \A u \in Thread : where'[u] # "out" => where[u] # "out"
    BY <2>1 DEF LeaveSignalling, Blocked
  <2>2. ASSUME NEW p \in Producers, NEW x \in Item, PushSection(p, x),
               arg' \in [Producers -> Item \cup {NoItem}], arg'[p] = x,
               \A q \in Producers \ {p} : arg'[q] = arg[q]
        PROVE  TypeOK'
    <3>1. CASE PushWait(p)
      BY <2>2, <3>1 DEF PushWait
    <3>2. CASE PushRefused(p)
      BY <2>2, <3>2 DEF PushRefused, Return
    <3>3. CASE PushStore(p, x)
      <4>1. /\ where' \in [Thread -> Place]
            /\ \A u \in Thread : where'[u] # "out" => where[u] # "out"
        BY <2>1, <3>3 DEF PushStore
      <4>2. tail' \in Slot /\ count' \in 0 .. Size
        BY <3>3, AdvanceInRing DEF PushStore, PushMustWait, Slot
      <4>3. QED
        BY <2>2, <3>3, <4>1, <4>2 DEF PushStore, Return
    <3>4. QED
      BY <2>2, <3>1, <3>2, <3>3 DEF PushSection
  <2>3. ASSUME NEW c \in Consumers, PopFinish(c), UNCHANGED arg
        PROVE  TypeOK'
    <3>1. CASE PopNothing(c)
      BY <2>3, <3>1 DEF PopNothing, Return
    <3>2. CASE PopTake(c)
      <4>1. /\ where' \in [Thread -> Place]
            /\ \A u \in Thread : where'[u] # "out" => where[u] # "out"
        BY <2>1, <3>2 DEF PopTake
      <4>2. head \in Slot /\ head' \in Slot /\ count' \in 0 .. Size
        BY <3>2, AdvanceInRing DEF PopTake, PopFails, Slot
      <4>3. QED
        BY <2>3, <3>2, <4>1, <4>2 DEF PopTake, Return
    <3>3. QED
      BY <2>3, <3>1, <3>2 DEF PopFinish
  <2>4. ASSUME NEW t \in Thread, Wake(t), where[t] # "out"
        PROVE  TypeOK'
    BY <2>4 DEF Wake
  <2>5. ASSUME NEW p \in Producers, NEW x \in Item, PushEnter(p, x)
        PROVE  TypeOK'
    BY <2>2, <2>5 DEF PushEnter
  <2>6. ASSUME NEW p \in Producers, PushResume(p)
        PROVE  TypeOK'
    BY <2>2, <2>6 DEF PushResume
  <2>7. ASSUME NEW c \in Consumers, NEW how \in {"waiting", "timed"}, PopEnter(c, how)
        PROVE  TypeOK'
    BY <2>3, <2>7 DEF PopEnter, PopWait
  <2>8. ASSUME NEW c \in Consumers, PopResume(c)
        PROVE  TypeOK'
    BY <2>3, <2>8 DEF PopResume
  <2>9. ASSUME NEW c \in Consumers, PopTimeout(c)
        PROVE  TypeOK'
    BY <2>4, <2>9 DEF PopTimeout
  <2>10. ASSUME NEW t \in Thread, SpuriousWake(t)
         PROVE  TypeOK'
    BY <2>4, <2>10 DEF SpuriousWake, Blocked
  <2>11. CASE Shutdown
    BY <2>11 DEF Shutdown, Blocked
  <2>12. CASE UNCHANGED vars
    BY <2>12 DEF vars
  <2>13. QED
    BY <2>5, <2>6, <2>7, <2>8, <2>9, <2>10, <2>11, <2>12
       DEF Next, ProducerStep, ConsumerStep
<1>3. QED
  BY <1>1, <1>2, PTL DEF Spec

-----------------------------------------------------------------------------
(* How one push and one pop change the contents of the ring.               *)

LEMMA StoreContents ==
  ASSUME TypeOK, RingConsistent, NEW p \in Producers, NEW x \in Item, PushStore(p, x)
  PROVE  /\ count' = count + 1
         /\ tail' = (head' + count') % Size
         /\ Contents' = [i \in 1 .. count + 1 |-> IF i <= count THEN Contents[i] ELSE x]
<1> USE QueueAssumption DEF TypeOK, RingConsistent, PushStore, PushMustWait, Slot
<1>1. /\ Size \in Nat /\ Size > 0 /\ count \in 0 .. Size - 1
      /\ head \in Slot /\ tail \in Slot /\ tail = (head + count) % Size
      /\ head' = head /\ count' = count + 1 /\ tail' = (tail + 1) % Size
  BY DEF Advance
<1>2. tail = IF head + count < Size THEN head + count ELSE head + count - Size
  BY <1>1, Wrap, head + count \in 0 .. 2 * Size - 1
<1>3. tail' = (head' + count') % Size
  <2>1. tail' = IF tail + 1 < Size THEN tail + 1 ELSE tail + 1 - Size
    BY <1>1, Wrap, tail + 1 \in 0 .. 2 * Size - 1
  <2>2. (head + count + 1) % Size = IF head + count + 1 < Size THEN head + count + 1
                                    ELSE head + count + 1 - Size
    BY <1>1, Wrap, head + count + 1 \in 0 .. 2 * Size - 1
  <2>3. QED
    BY <1>1, <1>2, <2>1, <2>2
<1>4. ASSUME NEW i \in 1 .. count + 1
      PROVE  buffer'[(head' + i - 1) % Size] = IF i <= count THEN Contents[i] ELSE x
  <2>1. (head + i - 1) % Size = IF head + i - 1 < Size THEN head + i - 1
                                ELSE head + i - 1 - Size
    BY <1>1, <1>4, Wrap, head + i - 1 \in 0 .. 2 * Size - 1
  <2>2. (head + i - 1) % Size \in Slot
    BY <1>1, <1>4, <2>1
  <2>3. CASE i <= count
    <3>1. (head + i - 1) % Size # tail
      BY <1>1, <1>2, <1>4, <2>1, <2>3
    <3>2. Contents[i] = buffer[(head + i - 1) % Size]
      BY <1>1, <1>4, <2>3 DEF Contents
    <3>3. QED
      BY <1>1, <2>2, <2>3, <3>1, <3>2
  <2>4. CASE i = count + 1
    <3>1. (head + i - 1) % Size = tail
      BY <1>1, <1>2, <2>1, <2>4
    <3>2. QED
      BY <1>1, <2>4, <3>1
  <2>5. QED
    BY <1>1, <1>4, <2>3, <2>4
<1>5. Contents' = [i \in 1 .. count + 1 |-> buffer'[(head' + i - 1) % Size]]
  BY <1>1 DEF Contents
<1>6. Contents' = [i \in 1 .. count + 1 |-> IF i <= count THEN Contents[i] ELSE x]
  BY <1>4, <1>5, Zenon
<1>7. QED
  BY <1>1, <1>3, <1>6

LEMMA TakeContents ==
  ASSUME TypeOK, RingConsistent, NEW c \in Consumers, PopTake(c)
  PROVE  /\ count \in Nat \ {0}
         /\ count' = count - 1
         /\ tail' = (head' + count') % Size
         /\ buffer[head] = Contents[1]
         /\ Contents' = [i \in 1 .. count - 1 |-> Contents[i + 1]]
<1> USE QueueAssumption DEF TypeOK, RingConsistent, PopTake, PopFails, Slot
<1>1. /\ Size \in Nat /\ Size > 0 /\ count \in 1 .. Size
      /\ head \in Slot /\ tail \in Slot /\ tail = (head + count) % Size
      /\ tail' = tail /\ count' = count - 1 /\ head' = (head + 1) % Size
      /\ buffer' = buffer
  BY DEF Advance
<1>2. head' = IF head + 1 < Size THEN head + 1 ELSE head + 1 - Size
  BY <1>1, Wrap, head + 1 \in 0 .. 2 * Size - 1
<1>3. tail' = (head' + count') % Size
  <2>1. tail = IF head + count < Size THEN head + count ELSE head + count - Size
    BY <1>1, Wrap, head + count \in 0 .. 2 * Size - 1
  <2>2. (head' + count') % Size = IF head' + count' < Size THEN head' + count'
                                  ELSE head' + count' - Size
    BY <1>1, <1>2, Wrap, head' + count' \in 0 .. 2 * Size - 1
  <2>3. QED
    BY <1>1, <1>2, <2>1, <2>2
<1>4. buffer[head] = Contents[1]
  <2>1. head % Size = head
    BY <1>1, Wrap, head \in 0 .. 2 * Size - 1
  <2>2. QED
    BY <1>1, <2>1 DEF Contents
<1>5. ASSUME NEW i \in 1 .. count - 1
      PROVE  buffer'[(head' + i - 1) % Size] = Contents[i + 1]
  <2>1. (head' + i - 1) % Size = IF head' + i - 1 < Size THEN head' + i - 1
                                 ELSE head' + i - 1 - Size
    BY <1>1, <1>2, <1>5, Wrap, head' + i - 1 \in 0 .. 2 * Size - 1
  <2>2. (head + i) % Size = IF head + i < Size THEN head + i ELSE head + i - Size
    BY <1>1, <1>5, Wrap, head + i \in 0 .. 2 * Size - 1
  <2>3. (head' + i - 1) % Size = (head + i) % Size
    BY <1>1, <1>2, <1>5, <2>1, <2>2
  <2>4. Contents[i + 1] = buffer[(head + i) % Size]
    BY <1>1, <1>5 DEF Contents
  <2>5. QED
    BY <1>1, <2>3, <2>4
<1>6. Contents' = [i \in 1 .. count - 1 |-> buffer'[(head' + i - 1) % Size]]
  BY <1>1 DEF Contents
<1>7. Contents' = [i \in 1 .. count - 1 |-> Contents[i + 1]]
  BY <1>5, <1>6, Zenon
<1>8. QED
  BY <1>1, <1>3, <1>4, <1>7

(* Only a successful push or pop touches the ring or hands an event out.   *)
LEMMA RingStep ==
  ASSUME TypeOK, [Next]_vars
  PROVE  \/ \E p \in Producers, x \in Item : PushStore(p, x)
         \/ \E c \in Consumers : PopTake(c)
         \/ UNCHANGED <<ring, got>> /\ shutdown' \in {shutdown, TRUE}
<1>1. ASSUME NEW p \in Producers, NEW x \in Item, PushSection(p, x)
      PROVE  PushStore(p, x) \/ UNCHANGED <<ring, got, shutdown>>
  BY <1>1 DEF PushSection, PushWait, PushRefused
<1>2. ASSUME NEW c \in Consumers, PopFinish(c)
      PROVE  PopTake(c) \/ UNCHANGED <<ring, got, shutdown>>
  BY <1>2 DEF PopFinish, PopNothing
<1>3. ASSUME NEW p \in Producers, ProducerStep(p)
      PROVE  \E x \in Item : PushSection(p, x)
  BY <1>3, Zenon DEF ProducerStep, PushEnter, PushResume, TypeOK, Thread
<1>4. ASSUME NEW c \in Consumers, ConsumerStep(c)
      PROVE  PopFinish(c) \/ UNCHANGED <<ring, got, shutdown>>
  BY <1>4 DEF ConsumerStep, PopEnter, PopResume, PopTimeout, PopWait, Wake
<1>5. CASE \E p \in Producers : ProducerStep(p)
  BY <1>1, <1>3, <1>5
<1>6. CASE \E c \in Consumers : ConsumerStep(c)
  BY <1>2, <1>4, <1>6
<1>7. CASE \E t \in Thread : SpuriousWake(t)
  BY <1>7 DEF SpuriousWake, Wake
<1>8. CASE Shutdown
  BY <1>8 DEF Shutdown
<1>9. CASE UNCHANGED vars
  BY <1>9 DEF vars
<1>10. QED
  BY <1>5, <1>6, <1>7, <1>8, <1>9 DEF Next

-----------------------------------------------------------------------------
(* The two indices and the counter agree, and every slot between them was  *)
(* written, for every capacity and every number of threads.                *)
THEOREM RingAlwaysConsistent == Spec => []RingConsistent
<1>1. Init => RingConsistent
  <2> SUFFICES ASSUME Init, Size > 0
               PROVE  tail = (head + count) % Size /\ \A i \in 1 .. count : Contents[i] \in Item
    BY DEF RingConsistent
  <2>1. (0 + 0) % Size = 0
    BY Wrap, QueueAssumption, 0 \in 0 .. 2 * Size - 1
  <2>2. 1 .. 0 = {}
    OBVIOUS
  <2>3. QED
    BY <2>1, <2>2 DEF Init
<1>2. TypeOK /\ RingConsistent /\ [Next]_vars => RingConsistent'
  <2> SUFFICES ASSUME TypeOK, RingConsistent, [Next]_vars, Size > 0
               PROVE  /\ tail' = (head' + count') % Size
                      /\ \A i \in 1 .. count' : Contents'[i] \in Item
    BY DEF RingConsistent
  <2>0. count \in 0 .. Size /\ Size \in Nat
    BY QueueAssumption DEF TypeOK
  <2>1. ASSUME NEW p \in Producers, NEW x \in Item, PushStore(p, x)
        PROVE  /\ tail' = (head' + count') % Size
               /\ \A i \in 1 .. count' : Contents'[i] \in Item
    <3>1. ASSUME NEW i \in 1 .. count'
          PROVE  Contents'[i] \in Item
      BY <2>0, <2>1, <3>1, StoreContents DEF RingConsistent
    <3>2. QED
      BY <2>1, <3>1, StoreContents
  <2>2. ASSUME NEW c \in Consumers, PopTake(c)
        PROVE  /\ tail' = (head' + count') % Size
               /\ \A i \in 1 .. count' : Contents'[i] \in Item
    <3>1. ASSUME NEW i \in 1 .. count'
          PROVE  Contents'[i] \in Item
      BY <2>0, <2>2, <3>1, TakeContents DEF RingConsistent
    <3>2. QED
      BY <2>2, <3>1, TakeContents
  <2>3. ASSUME UNCHANGED <<ring, got>>
        PROVE  /\ tail' = (head' + count') % Size
               /\ \A i \in 1 .. count' : Contents'[i] \in Item
    BY <2>3 DEF RingConsistent, Contents, ring
  <2>4. QED
    BY <2>1, <2>2, <2>3, RingStep
<1>3. QED
  BY <1>1, <1>2, TypeCorrect, PTL DEF Spec

-----------------------------------------------------------------------------
(* The ring buffer, for every capacity, set of threads and set of events,  *)
(* is a bounded first-in first-out queue that shutdown freezes.            *)
THEOREM QueueImplementsFifo == Spec => ImplementsFifo
<1>1. Init => Fifo!Init
  <2>1. ASSUME Init
        PROVE  Contents = <<>>
    BY <2>1 DEF Init, Contents
  <2>2. QED
    BY <2>1 DEF Init, Fifo!Init
<1>2. TypeOK /\ RingConsistent /\ [Next]_vars => [Fifo!Next]_Fifo!fifoVars
  <2> SUFFICES ASSUME TypeOK, RingConsistent, [Next]_vars
               PROVE  [Fifo!Next]_Fifo!fifoVars
    OBVIOUS
  <2>0. count \in 0 .. Size /\ Size \in Nat
    BY QueueAssumption DEF TypeOK
  <2>1. Contents \in Seq(Item) /\ Len(Contents) = count
    <3>1. CASE Size = 0
      BY <2>0, <3>1 DEF Contents
    <3>2. CASE Size > 0
      BY <2>0, <3>2 DEF Contents, RingConsistent
    <3>3. QED
      BY <2>0, <3>1, <3>2
  <2>2. ASSUME NEW p \in Producers, NEW x \in Item, PushStore(p, x)
        PROVE  Fifo!Put(x)
    <3>1. Contents' = Append(Contents, x)
      BY <2>0, <2>1, <2>2, StoreContents
    <3>2. Len(Contents) < Size /\ ~shutdown /\ UNCHANGED <<shutdown, got>>
      BY <2>0, <2>1, <2>2 DEF PushStore, PushMustWait
    <3>3. QED
      BY <3>1, <3>2 DEF Fifo!Put
  <2>3. ASSUME NEW c \in Consumers, PopTake(c)
        PROVE  Fifo!Take(c)
    <3>1. Contents # <<>> /\ Head(Contents) = buffer[head]
      BY <2>0, <2>1, <2>3, TakeContents
    <3>2. Contents' = Tail(Contents)
      BY <2>0, <2>1, <2>3, TakeContents
    <3>3. QED
      BY <2>3, <3>1, <3>2 DEF Fifo!Take, PopTake, PopFails
  <2>4. ASSUME UNCHANGED <<ring, got>>, shutdown' \in {shutdown, TRUE}
        PROVE  Fifo!Close \/ UNCHANGED Fifo!fifoVars
    <3>1. Contents' = Contents
      BY <2>4 DEF Contents, ring
    <3>2. QED
      BY <2>4, <3>1 DEF Fifo!Close, Fifo!fifoVars
  <2>5. QED
    BY <2>2, <2>3, <2>4, RingStep DEF Fifo!Next
<1>3. QED
  BY <1>1, <1>2, TypeCorrect, RingAlwaysConsistent, PTL
     DEF Spec, ImplementsFifo, Fifo!Spec

-----------------------------------------------------------------------------
(* After queue_shutdown nobody is blocked on either condition, for any     *)
(* number of threads.                                                      *)
THEOREM ShutdownAlwaysWakesAll == Spec => []ShutdownWakesAll
<1> USE DEF ShutdownWakesAll, Blocked, Thread
<1>1. Init => ShutdownWakesAll
  BY DEF Init
<1>2. TypeOK /\ ShutdownWakesAll /\ [Next]_vars => ShutdownWakesAll'
  <2> SUFFICES ASSUME TypeOK, ShutdownWakesAll, [Next]_vars, shutdown'
               PROVE  \A u \in Thread : where'[u] \notin {"waiting", "timed"}
    OBVIOUS
  <2>0. where \in [Thread -> Place]
    BY DEF TypeOK
  <2>1. ASSUME NEW p \in Producers, NEW x, PushSection(p, x)
        PROVE  \A u \in Thread : where'[u] \notin {"waiting", "timed"}
    BY <2>0, <2>1 DEF PushSection, PushWait, PushMustWait, PushRefused, PushStore
  <2>2. ASSUME NEW c \in Consumers, PopFinish(c)
        PROVE  \A u \in Thread : where'[u] \notin {"waiting", "timed"}
    BY <2>0, <2>2 DEF PopFinish, PopNothing, PopTake, PopFails
  <2>3. ASSUME NEW t \in Thread, Wake(t)
        PROVE  \A u \in Thread : where'[u] \notin {"waiting", "timed"}
    BY <2>0, <2>3 DEF Wake
  <2>4. ASSUME NEW p \in Producers, ProducerStep(p)
        PROVE  \A u \in Thread : where'[u] \notin {"waiting", "timed"}
    BY <2>1, <2>4 DEF ProducerStep, PushEnter, PushResume
  <2>5. ASSUME NEW c \in Consumers, ConsumerStep(c)
        PROVE  \A u \in Thread : where'[u] \notin {"waiting", "timed"}
    BY <2>2, <2>3, <2>5
       DEF ConsumerStep, PopEnter, PopWait, PopMustWait, PopResume, PopTimeout
  <2>6. CASE \E t \in Thread : SpuriousWake(t)
    BY <2>3, <2>6 DEF SpuriousWake
  <2>7. CASE Shutdown
    BY <2>0, <2>7 DEF Shutdown, Broadcast
  <2>8. CASE UNCHANGED vars
    BY <2>8 DEF vars
  <2>9. QED
    BY <2>4, <2>5, <2>6, <2>7, <2>8 DEF Next
<1>3. QED
  BY <1>1, <1>2, TypeCorrect, PTL DEF Spec

-----------------------------------------------------------------------------
(* Counting the woken threads.                                             *)

LEMMA WokenFinite ==
  ASSUME NEW T \in SUBSET Thread
  PROVE  IsFiniteSet(Woken(T)) /\ Cardinality(Woken(T)) \in Nat
<1>1. IsFiniteSet(Thread)
  BY QueueAssumption, FS_Union DEF Thread
<1>2. IsFiniteSet(Woken(T))
  BY <1>1, FS_Subset, Woken(T) \subseteq Thread DEF Woken
<1>3. QED
  BY <1>2, FS_CardinalityType

LEMMA WokenCounts ==
  ASSUME NEW T \in SUBSET Thread
  PROVE  Cardinality(Woken(T)) \in Nat /\ Cardinality(Woken(T)') \in Nat
<1>1. IsFiniteSet(Thread)
  BY QueueAssumption, FS_Union DEF Thread
<1>2. IsFiniteSet(Woken(T)')
  BY <1>1, FS_Subset, Woken(T)' \subseteq Thread DEF Woken
<1>3. QED
  BY <1>2, WokenFinite, FS_CardinalityType

\* One thread of T starts, or stops, being woken; the others stay.
LEMMA OneWakes ==
  ASSUME NEW T \in SUBSET Thread, NEW t \in T, where[t] # "woken", where'[t] = "woken",
         \A u \in T \ {t} : where'[u] = where[u]
  PROVE  Cardinality(Woken(T)') = Cardinality(Woken(T)) + 1
<1>1. Woken(T)' = Woken(T) \cup {t} /\ t \notin Woken(T)
  BY DEF Woken
<1>2. QED
  BY <1>1, WokenFinite, FS_AddElement

LEMMA OneLeaves ==
  ASSUME NEW T \in SUBSET Thread, NEW t \in T, where'[t] # "woken",
         \A u \in T \ {t} : where'[u] = where[u]
  PROVE  Cardinality(Woken(T)') = IF where[t] = "woken" THEN Cardinality(Woken(T)) - 1
                                  ELSE Cardinality(Woken(T))
<1>1. CASE where[t] = "woken"
  <2>1. Woken(T)' = Woken(T) \ {t} /\ t \in Woken(T)
    BY <1>1 DEF Woken
  <2>2. QED
    BY <1>1, <2>1, WokenFinite, FS_RemoveElement
<1>2. CASE where[t] # "woken"
  <2>1. Woken(T)' = Woken(T)
    BY <1>2 DEF Woken
  <2>2. QED
    BY <1>2, <2>1
<1>3. QED
  BY <1>1, <1>2

(* A thread that leaves and signals either wakes one thread of the other   *)
(* side, or there was nobody to wake there.                                *)
LEMMA SignalWakesOne ==
  ASSUME TypeOK, NEW T \in SUBSET Thread, NEW S \in SUBSET Thread, S \cap T = {},
         NEW t \in S, LeaveSignalling(t, T)
  PROVE  /\ where'[t] = "out"
         /\ \A u \in S \ {t} : where'[u] = where[u]
         /\ Blocked(T)' # {} => Cardinality(Woken(T)') = Cardinality(Woken(T)) + 1
<1> USE DEF TypeOK
<1>1. CASE Blocked(T) = {} /\ where' = [where EXCEPT ![t] = "out"]
  BY <1>1 DEF Blocked
<1>2. ASSUME NEW w \in Blocked(T), where' = [where EXCEPT ![t] = "out", ![w] = "woken"]
      PROVE  /\ where'[t] = "out"
             /\ \A u \in S \ {t} : where'[u] = where[u]
             /\ Cardinality(Woken(T)') = Cardinality(Woken(T)) + 1
  <2>1. w \in T /\ w # t /\ where[w] # "woken" /\ where'[w] = "woken"
    BY <1>2 DEF Blocked
  <2>2. \A u \in T \ {w} : where'[u] = where[u]
    BY <1>2
  <2>3. /\ where'[t] = "out"
        /\ \A u \in S \ {t} : where'[u] = where[u]
    BY <1>2, <2>1
  <2>4. QED
    BY <2>1, <2>2, <2>3, OneWakes
<1>3. QED
  BY <1>1, <1>2 DEF LeaveSignalling

-----------------------------------------------------------------------------
(* No wakeup is lost, for any capacity and any number of producers and     *)
(* consumers: one signal per push and per pop is enough.                   *)
THEOREM NeverLosesWakeup == Spec => []NoLostWakeup
<1>1. Init => NoLostWakeup
  BY DEF Init, NoLostWakeup, Blocked, Thread
<1>2. TypeOK /\ NoLostWakeup /\ [Next]_vars => NoLostWakeup'
  <2> SUFFICES ASSUME TypeOK, NoLostWakeup, [Next]_vars, ~shutdown'
               PROVE  NoLostWakeup'
    BY DEF NoLostWakeup
  <2> DEFINE P == Producers
             C == Consumers
             Balanced == /\ Blocked(P)' # {} => Size - count' <= Cardinality(Woken(P)')
                         /\ Blocked(C)' # {} => count' <= Cardinality(Woken(C)')
  <2>0. /\ where \in [Thread -> Place] /\ count \in 0 .. Size /\ Size \in Nat
        /\ P \in SUBSET Thread /\ C \in SUBSET Thread /\ P \cap C = {}
        /\ Cardinality(Woken(P)) \in Nat /\ Cardinality(Woken(C)) \in Nat
    BY QueueAssumption, WokenFinite DEF TypeOK, Thread
  <2> HIDE DEF P, C, Balanced
  <2>1. /\ ~shutdown
        /\ Blocked(P) # {} => Size - count <= Cardinality(Woken(P))
        /\ Blocked(C) # {} => count <= Cardinality(Woken(C))
    <3>1. ~shutdown
      BY RingStep DEF PushStore, PopTake, TypeOK
    <3>2. QED
      BY <3>1 DEF NoLostWakeup, P, C
  <2>2. ASSUME NEW p \in P, NEW x, PushSection(p, x), where[p] \in {"out", "woken"}
        PROVE  Balanced
    <3>1. CASE PushWait(p)
      <4>1. where'[p] = "waiting" /\ \A u \in Thread \ {p} : where'[u] = where[u]
        BY <2>0, <3>1 DEF PushWait
      <4>2. Size - count' <= 0 /\ count' = count
        BY <2>0, <3>1 DEF PushWait, PushMustWait, ring
      <4>3. Cardinality(Woken(P)') \in Nat
        BY <2>0, <4>1, OneLeaves, WokenCounts
      <4>4. Woken(C)' = Woken(C) /\ Blocked(C)' = Blocked(C)
        BY <2>0, <4>1 DEF Woken, Blocked
      <4>5. QED
        BY <2>0, <2>1, <4>2, <4>3, <4>4 DEF Balanced
    <3>2. CASE PushStore(p, x)
      <4>1. LeaveSignalling(p, C) /\ count' = count + 1
        BY <3>2 DEF PushStore, C
      <4>2. /\ where'[p] = "out"
            /\ \A u \in P \ {p} : where'[u] = where[u]
            /\ Blocked(C)' # {} => Cardinality(Woken(C)') = Cardinality(Woken(C)) + 1
        BY <2>0, <4>1, SignalWakesOne
      <4>3. Cardinality(Woken(P)') >= Cardinality(Woken(P)) - 1
        BY <2>0, <4>2, OneLeaves
      <4>4. Blocked(P)' \subseteq Blocked(P)
        BY <2>0, <4>2 DEF Blocked
      <4>5. Blocked(C)' # {} => Blocked(C) # {}
        BY <2>0, <4>1 DEF LeaveSignalling, Blocked
      <4>6. Cardinality(Woken(P)') \in Nat /\ Cardinality(Woken(C)') \in Nat
        BY <2>0, WokenCounts
      <4>7. QED
        BY <2>0, <2>1, <4>1, <4>2, <4>3, <4>4, <4>5, <4>6 DEF Balanced
    <3>3. QED
      BY <2>1, <2>2, <3>1, <3>2 DEF PushSection, PushRefused
  <2>3. ASSUME NEW c \in C, PopFinish(c)
        PROVE  Balanced
    <3>1. CASE PopNothing(c)
      <4>1. where'[c] = "out" /\ \A u \in Thread \ {c} : where'[u] = where[u]
        BY <2>0, <3>1 DEF PopNothing
      <4>2. count' = 0 /\ count' = count
        BY <2>0, <2>1, <3>1 DEF PopNothing, PopFails, ring
      <4>3. Woken(P)' = Woken(P) /\ Blocked(P)' = Blocked(P)
        BY <2>0, <4>1 DEF Woken, Blocked
      <4>4. QED
        BY <2>0, <2>1, <4>2, <4>3, WokenCounts DEF Balanced
    <3>2. CASE PopTake(c)
      <4>1. LeaveSignalling(c, P) /\ count' = count - 1
        BY <3>2 DEF PopTake, P
      <4>2. /\ where'[c] = "out"
            /\ \A u \in C \ {c} : where'[u] = where[u]
            /\ Blocked(P)' # {} => Cardinality(Woken(P)') = Cardinality(Woken(P)) + 1
        BY <2>0, <4>1, SignalWakesOne
      <4>3. Cardinality(Woken(C)') >= Cardinality(Woken(C)) - 1
        BY <2>0, <4>2, OneLeaves
      <4>4. Blocked(C)' \subseteq Blocked(C)
        BY <2>0, <4>2 DEF Blocked
      <4>5. Blocked(P)' # {} => Blocked(P) # {}
        BY <2>0, <4>1 DEF LeaveSignalling, Blocked
      <4>6. Cardinality(Woken(P)') \in Nat /\ Cardinality(Woken(C)') \in Nat
        BY <2>0, WokenCounts
      <4>7. QED
        BY <2>0, <2>1, <4>1, <4>2, <4>3, <4>4, <4>5, <4>6 DEF Balanced
    <3>3. QED
      BY <2>3, <3>1, <3>2 DEF PopFinish
  <2>4. ASSUME NEW t \in Thread, Wake(t), where[t] # "woken"
        PROVE  Balanced
    <3>1. /\ where'[t] = "woken" /\ \A u \in Thread \ {t} : where'[u] = where[u]
          /\ count' = count
      BY <2>0, <2>4 DEF Wake, ring
    <3>2. ASSUME NEW T \in SUBSET Thread
          PROVE  /\ Cardinality(Woken(T)') >= Cardinality(Woken(T))
                 /\ Blocked(T)' \subseteq Blocked(T)
      <4>1. Blocked(T)' \subseteq Blocked(T)
        BY <3>1 DEF Blocked
      <4>2. CASE t \in T
        BY <2>4, <3>1, <4>1, <4>2, OneWakes, WokenCounts
      <4>3. CASE t \notin T
        <5>1. Woken(T)' = Woken(T)
          BY <3>1, <4>3 DEF Woken
        <5>2. QED
          BY <4>1, <5>1, WokenCounts
      <4>4. QED
        BY <4>2, <4>3
    <3>3. /\ Cardinality(Woken(P)') >= Cardinality(Woken(P))
          /\ Cardinality(Woken(C)') >= Cardinality(Woken(C))
          /\ Blocked(P)' \subseteq Blocked(P)
          /\ Blocked(C)' \subseteq Blocked(C)
      BY <2>0, <3>2
    <3>4. QED
      BY <2>0, <2>1, <3>1, <3>3, WokenCounts DEF Balanced
  <2>5. ASSUME NEW c \in C, NEW how \in {"waiting", "timed"}, PopWait(c, how), where[c] = "out"
        PROVE  Balanced
    <3>1. /\ where'[c] = how /\ \A u \in Thread \ {c} : where'[u] = where[u]
          /\ count' = 0 /\ count' = count
      BY <2>0, <2>5 DEF PopWait, PopMustWait, ring
    <3>2. Woken(P)' = Woken(P) /\ Blocked(P)' = Blocked(P)
      BY <2>0, <3>1 DEF Woken, Blocked
    <3>3. QED
      BY <2>0, <2>1, <3>1, <3>2, WokenCounts DEF Balanced
  <2>6. ASSUME NEW p \in P, ProducerStep(p)
        PROVE  Balanced
    BY <2>2, <2>6 DEF ProducerStep, PushEnter, PushResume
  <2>7. ASSUME NEW c \in C, ConsumerStep(c)
        PROVE  Balanced
    <3>1. CASE \E how \in {"waiting", "timed"} : PopEnter(c, how)
      BY <2>3, <2>5, <2>7, <3>1 DEF PopEnter
    <3>2. CASE PopResume(c)
      BY <2>3, <2>7, <3>2 DEF PopResume
    <3>3. CASE PopTimeout(c)
      BY <2>0, <2>4, <2>7, <3>3 DEF PopTimeout
    <3>4. QED
      BY <2>7, <3>1, <3>2, <3>3 DEF ConsumerStep
  <2>8. ASSUME NEW t \in Thread, SpuriousWake(t)
        PROVE  Balanced
    BY <2>4, <2>8 DEF SpuriousWake, Blocked
  <2>9. ASSUME Shutdown
        PROVE  Balanced
    BY <2>9 DEF Shutdown
  <2>10. ASSUME UNCHANGED vars
         PROVE  Balanced
    <3>1. /\ UNCHANGED <<where, count>>
          /\ Blocked(P)' = Blocked(P) /\ Blocked(C)' = Blocked(C)
          /\ Woken(P)' = Woken(P) /\ Woken(C)' = Woken(C)
      BY <2>10 DEF vars, ring, Blocked, Woken
    <3>2. QED
      BY <2>1, <3>1 DEF Balanced
  <2>11. Balanced
    BY <2>6, <2>7, <2>8, <2>9, <2>10 DEF Next, P, C
  <2>12. QED
    BY <2>11 DEF NoLostWakeup, Balanced, P, C
<1>3. QED
  BY <1>1, <1>2, TypeCorrect, PTL DEF Spec

(* Producers and consumers never all wait for each other: while some of    *)
(* both are blocked, a thread that was woken is on its way to the mutex    *)
(* (queue.c:39-41, 52, 61-76, 87).  A queue of size 0 would not do.        *)
NeverStandsStill ==
  Size > 0 /\ Blocked(Producers) # {} /\ Blocked(Consumers) # {} => Woken(Thread) # {}

THEOREM NeverAllBlocked == Spec => []NeverStandsStill
<1>1. TypeOK /\ NoLostWakeup /\ ShutdownWakesAll => NeverStandsStill
  <2> SUFFICES ASSUME TypeOK, NoLostWakeup, ShutdownWakesAll, Size > 0,
                      Blocked(Producers) # {}, Blocked(Consumers) # {}, Woken(Thread) = {}
               PROVE  FALSE
    BY DEF NeverStandsStill
  <2>1. ~shutdown
    BY DEF ShutdownWakesAll, Blocked, Thread
  <2>2. Woken(Producers) = {} /\ Woken(Consumers) = {}
    BY DEF Woken, Thread
  <2>3. Size - count <= 0 /\ count <= 0
    BY <2>1, <2>2, FS_EmptySet DEF NoLostWakeup
  <2>4. QED
    BY <2>3, QueueAssumption DEF TypeOK
<1>2. QED
  BY <1>1, TypeCorrect, NeverLosesWakeup, ShutdownAlwaysWakesAll, PTL

(* queue_pop has an if where queue_push has a while: a pop waits at most   *)
(* once.  Whatever wakes it and whoever takes the event before it, it goes *)
(* on to return (queue.c:61-81).                                           *)
PopWaitsOnce ==
  [][\A c \in Consumers :
       /\ where[c] \in {"waiting", "timed"} => where'[c] \in {where[c], "woken"}
       /\ where[c] = "woken" => where'[c] \in {"woken", "out"}]_vars

\* The safety half of TimedPopReturns.
THEOREM AlwaysPopWaitsOnce == Spec => PopWaitsOnce
<1>1. ASSUME TypeOK, Next, NEW c \in Consumers
      PROVE  /\ where[c] \in {"waiting", "timed"} => where'[c] \in {where[c], "woken"}
             /\ where[c] = "woken" => where'[c] \in {"woken", "out"}
  <2>1. where \in [Thread -> Place] /\ c \in Thread /\ Producers \subseteq Thread
    BY <1>1 DEF TypeOK, Thread
  <2>2. ASSUME NEW p \in Producers, ProducerStep(p)
        PROVE  where'[c] = where[c] \/ (where[c] \in {"waiting", "timed"} /\ where'[c] = "woken")
    <3>1. p # c /\ p \in Thread
      BY <2>2, QueueAssumption DEF Thread
    <3>2. \E x : PushSection(p, x)
      BY <2>2 DEF ProducerStep, PushEnter, PushResume
    <3>3. CASE PushWait(p) \/ PushRefused(p)
      BY <2>1, <3>1, <3>3 DEF PushWait, PushRefused
    <3>4. CASE LeaveSignalling(p, Consumers)
      BY <2>1, <3>1, <3>4 DEF LeaveSignalling, Blocked, Thread
    <3>5. QED
      BY <3>2, <3>3, <3>4 DEF PushSection, PushStore
  <2>3. ASSUME NEW d \in Consumers, NEW how \in {"waiting", "timed"}, PopEnter(d, how)
        PROVE  IF d = c THEN where[c] = "out"
               ELSE where'[c] = where[c]
    <3>1. where[d] = "out" /\ d \in Thread
      BY <2>3 DEF PopEnter, Thread
    <3>2. CASE PopWait(d, how) \/ PopNothing(d)
      BY <2>1, <3>1, <3>2 DEF PopWait, PopNothing
    <3>3. CASE LeaveSignalling(d, Producers)
      BY <2>1, <3>1, <3>3, QueueAssumption DEF LeaveSignalling, Blocked
    <3>4. QED
      BY <2>3, <3>2, <3>3 DEF PopEnter, PopFinish, PopTake
  <2>4. ASSUME NEW d \in Consumers, PopResume(d)
        PROVE  IF d = c THEN where[c] = "woken" /\ where'[c] = "out"
               ELSE where'[c] = where[c]
    <3>1. where[d] = "woken" /\ d \in Thread
      BY <2>4 DEF PopResume, Thread
    <3>2. CASE PopNothing(d)
      BY <2>1, <3>1, <3>2 DEF PopNothing
    <3>3. CASE LeaveSignalling(d, Producers)
      BY <2>1, <3>1, <3>3, QueueAssumption DEF LeaveSignalling, Blocked
    <3>4. QED
      BY <2>4, <3>2, <3>3 DEF PopResume, PopFinish, PopTake
  <2>5. ASSUME NEW t \in Thread, where[t] \in {"waiting", "timed"}, Wake(t)
        PROVE  where'[c] = where[c] \/ (where[c] \in {"waiting", "timed"} /\ where'[c] = "woken")
    BY <2>1, <2>5 DEF Wake
  <2>6. CASE \E t \in Thread : PopTimeout(t) \/ SpuriousWake(t)
    BY <2>5, <2>6 DEF PopTimeout, SpuriousWake, Blocked
  <2>7. CASE Shutdown
    BY <2>1, <2>7 DEF Shutdown, Broadcast, Blocked
  <2>8. QED
    BY <1>1, <2>2, <2>3, <2>4, <2>6, <2>7 DEF Next, ConsumerStep, Thread
<1>2. TypeOK /\ [Next]_vars
        => [\A c \in Consumers :
              /\ where[c] \in {"waiting", "timed"} => where'[c] \in {where[c], "woken"}
              /\ where[c] = "woken" => where'[c] \in {"woken", "out"}]_vars
  BY <1>1
<1>3. QED
  BY <1>2, TypeCorrect, PTL DEF Spec, PopWaitsOnce
=============================================================================
