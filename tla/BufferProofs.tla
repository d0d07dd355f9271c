---------------------------- MODULE BufferProofs ----------------------------
(***************************************************************************)
(* Proofs about the two places where an event waits for the sender.        *)
(* PhQueue, the ring in memory, for every capacity, batch size, threshold  *)
(* and set of producers: its type invariant, and that the circular array   *)
(* implements the drop-oldest FIFO.  CrashRecord, the file a crash leaves, *)
(* for every number of crashes: what was published stays whole, and the    *)
(* record implements a box of one report.                                  *)
(***************************************************************************)
EXTENDS PhQueue, CrashRecord, TLAPS, SequenceTheorems

(* The type invariant is not inductive: a pop hands out Events only if     *)
(* every live slot is filled, and end_push stays within the array only if  *)
(* the mutex was free when its begin_push made room.                       *)
MutexOK ==
  /\ \A p \in Producers : ppc[p] = "fill" <=> lock = p
  /\ lock # Nobody => filling \in Events /\ size < Cap

LiveSlotsFilled == \A k \in 0 .. size - 1 : slots[Slot(k)] \in Events

IInv == TypeOK /\ MutexOK /\ LiveSlotsFilled

(* The index arithmetic of ph_queue.c: one conditional subtraction.        *)
LEMMA ModCap ==
  \A c \in Nat \ {0} : \A h \in 0 .. c - 1 : \A k \in 0 .. c :
     (h + k) % c = IF h + k < c THEN h + k ELSE h + k - c
<1> TAKE c \in Nat \ {0}
<1> TAKE h \in 0 .. c - 1
<1> TAKE k \in 0 .. c
<1>1. CASE h + k < c BY <1>1
<1>2. CASE h + k >= c BY <1>2
<1> QED BY <1>1, <1>2

(* Slots stay inside the array, distinct offsets name distinct slots, and  *)
(* offset k counted from the slot at offset n is offset n + k.             *)
LEMMA SlotProperties ==
  ASSUME NEW c \in Nat \ {0}, NEW h \in 0 .. c - 1
  PROVE  /\ \A k \in 0 .. c : (h + k) % c \in 0 .. c - 1
         /\ \A j, k \in 0 .. c - 1 : j # k => (h + j) % c # (h + k) % c
         /\ \A n \in 0 .. c : \A k \in 0 .. c - n :
               (((h + n) % c) + k) % c = (h + (n + k)) % c
<1>1. ASSUME NEW k \in 0 .. c PROVE (h + k) % c \in 0 .. c - 1
  BY ModCap
<1>2. ASSUME NEW j \in 0 .. c - 1, NEW k \in 0 .. c - 1, j # k
      PROVE  (h + j) % c # (h + k) % c
  <2>1. /\ (h + j) % c = IF h + j < c THEN h + j ELSE h + j - c
        /\ (h + k) % c = IF h + k < c THEN h + k ELSE h + k - c
    <3>1. j \in 0 .. c /\ k \in 0 .. c OBVIOUS
    <3> QED BY <3>1, ModCap
  <2> QED BY <1>2, <2>1
<1>3. ASSUME NEW n \in 0 .. c, NEW k \in 0 .. c - n
      PROVE  (((h + n) % c) + k) % c = (h + (n + k)) % c
  <2>1. (h + n) % c = IF h + n < c THEN h + n ELSE h + n - c
    BY ModCap
  <2>2. (h + n) % c \in 0 .. c - 1 /\ k \in 0 .. c /\ n + k \in 0 .. c
    BY <1>1
  <2>3. (((h + n) % c) + k) % c = IF ((h + n) % c) + k < c
                                  THEN ((h + n) % c) + k
                                  ELSE ((h + n) % c) + k - c
    BY <2>2, ModCap
  <2>4. (h + (n + k)) % c = IF h + (n + k) < c THEN h + (n + k)
                                               ELSE h + (n + k) - c
    BY <2>2, ModCap
  <2> QED BY <2>1, <2>3, <2>4
<1> QED BY <1>1, <1>2, <1>3

(* What IInv says of slots and of the window, in the form the steps use.   *)
LEMMA RingFacts ==
  ASSUME IInv
  PROVE  /\ \A k \in 0 .. Cap : Slot(k) \in 0 .. Cap - 1
         /\ \A j, k \in 0 .. Cap - 1 : j # k => Slot(j) # Slot(k)
         /\ \A n \in 0 .. Cap : \A k \in 0 .. Cap - n :
               (Slot(n) + k) % Cap = Slot(n + k)
BY SlotProperties, QueueAssumption DEF IInv, TypeOK, Slot

LEMMA BeginPushInv ==
  ASSUME IInv, NEW p \in Producers, NEW e \in Events, BeginPush(p, e)
  PROVE  IInv'
<1> DEFINE full == size = Cap
           h == IF full THEN (head + 1) % Cap ELSE head
           s == IF full THEN size - 1 ELSE size
<1>1. /\ lock = Nobody /\ lock' = p /\ p # Nobody
      /\ filling' = e /\ head' = h /\ size' = s
      /\ slots' = [slots EXCEPT ![(h + s) % Cap] = Blank]
      /\ ppc[p] = "out" /\ ppc' = [ppc EXCEPT ![p] = "fill"]
  BY QueueAssumption DEF BeginPush, Goto
<1>2. h \in 0 .. Cap - 1 /\ s \in 0 .. Cap - 1
  <2>1. Slot(1) \in 0 .. Cap - 1
    BY RingFacts, QueueAssumption
  <2> QED BY <2>1, QueueAssumption DEF IInv, TypeOK, Slot
<1>3. /\ (h + s) % Cap \in 0 .. Cap - 1
      /\ \A k \in 0 .. s - 1 : (h + k) % Cap # (h + s) % Cap
      /\ \A k \in 0 .. s - 1 : (h + k) % Cap \in 0 .. Cap - 1
  BY <1>2, SlotProperties, QueueAssumption
<1>4. TypeOK'
  <2>1. slots' \in [0 .. Cap - 1 -> Events \cup {Blank}]
    BY <1>1, <1>3 DEF IInv, TypeOK
  <2>2. pushes' \in [Producers -> 0 .. MaxPushes]
    BY QueueAssumption DEF IInv, TypeOK, BeginPush
  <2>3. ppc' \in [Producers -> {"out", "fill", "measure", "wake"}]
    BY <1>1 DEF IInv, TypeOK
  <2>4. dropped' \in Nat
    BY DEF IInv, TypeOK, BeginPush
  <2>5. head' \in 0 .. Cap - 1 /\ size' \in 0 .. Cap
    BY <1>1, <1>2, QueueAssumption
  <2> QED
    BY <1>1, <2>1, <2>2, <2>3, <2>4, <2>5 DEF IInv, TypeOK, BeginPush
<1>5. MutexOK'
  <2>1. \A q \in Producers : ppc'[q] = "fill" <=> lock' = q
    BY <1>1, QueueAssumption DEF IInv, TypeOK, MutexOK
  <2> QED BY <1>1, <1>2, <2>1, QueueAssumption DEF MutexOK
<1>6. LiveSlotsFilled'
  <2> SUFFICES ASSUME NEW k \in 0 .. s - 1
               PROVE  slots'[(h + k) % Cap] \in Events
    BY <1>1 DEF LiveSlotsFilled, Slot
  <2>1. slots'[(h + k) % Cap] = slots[(h + k) % Cap]
    BY <1>1, <1>3 DEF IInv, TypeOK
  <2>2. CASE ~full
    BY <2>1, <2>2 DEF IInv, LiveSlotsFilled, Slot
  <2>3. CASE full
    <3>1. 1 + k \in 0 .. size - 1 /\ 1 \in 0 .. Cap /\ k \in 0 .. Cap - 1
      BY <1>2, <2>3, QueueAssumption
    <3>2. (Slot(1) + k) % Cap = Slot(1 + k)
      BY <3>1, RingFacts
    <3> QED BY <2>1, <2>3, <3>1, <3>2 DEF IInv, LiveSlotsFilled, Slot
  <2> QED BY <2>2, <2>3
<1> QED BY <1>4, <1>5, <1>6 DEF IInv

LEMMA EndPushInv ==
  ASSUME IInv, NEW p \in Producers, EndPush(p)
  PROVE  IInv'
<1>1. /\ lock = p /\ lock # Nobody /\ lock' = Nobody /\ filling' = Blank
      /\ head' = head /\ size' = size + 1 /\ size < Cap
      /\ filling \in Events
      /\ slots' = [slots EXCEPT ![Slot(size)] = filling]
      /\ ppc' = [ppc EXCEPT ![p] = "measure"]
  BY QueueAssumption DEF EndPush, Goto, IInv, MutexOK
<1>2. size \in 0 .. Cap - 1 /\ Slot(size) \in 0 .. Cap - 1
  <2>1. size \in 0 .. Cap - 1 /\ size \in 0 .. Cap
    BY <1>1, QueueAssumption DEF IInv, TypeOK
  <2> QED BY <2>1, RingFacts
<1>3. TypeOK'
  <2>1. slots' \in [0 .. Cap - 1 -> Events \cup {Blank}]
    BY <1>1, <1>2 DEF IInv, TypeOK
  <2>2. ppc' \in [Producers -> {"out", "fill", "measure", "wake"}]
    BY <1>1 DEF IInv, TypeOK
  <2>3. size' \in 0 .. Cap
    BY <1>1, <1>2, QueueAssumption
  <2> QED BY <1>1, <2>1, <2>2, <2>3 DEF IInv, TypeOK, EndPush
<1>4. MutexOK'
  BY <1>1, QueueAssumption DEF IInv, TypeOK, MutexOK
<1>5. LiveSlotsFilled'
  <2> SUFFICES ASSUME NEW k \in 0 .. size PROVE slots'[Slot(k)] \in Events
    BY <1>1, <1>2 DEF LiveSlotsFilled, Slot
  <2>1. CASE k = size
    BY <1>1, <1>2, <2>1 DEF IInv, TypeOK
  <2>2. CASE k # size
    <3>1. k \in 0 .. size - 1 /\ k \in 0 .. Cap - 1
      BY <1>2, <2>2, QueueAssumption
    <3>2. k \in 0 .. Cap
      BY <3>1, QueueAssumption
    <3>3. Slot(k) # Slot(size) /\ Slot(k) \in 0 .. Cap - 1
      BY <1>2, <2>2, <3>1, <3>2, RingFacts
    <3> QED BY <1>1, <3>1, <3>3 DEF IInv, TypeOK, LiveSlotsFilled
  <2> QED BY <2>1, <2>2
<1> QED BY <1>3, <1>4, <1>5 DEF IInv

LEMMA PopBatchInv ==
  ASSUME IInv, PopBatch
  PROVE  IInv'
<1> DEFINE n == IF size < MaxBatch THEN size ELSE MaxBatch
<1>1. /\ lock = Nobody /\ lock' = Nobody /\ slots' = slots
      /\ head' = Slot(n) /\ size' = size - n /\ ppc' = ppc
      /\ out' = [i \in 1 .. n |-> slots[Slot(i - 1)]]
  BY DEF PopBatch, producerVars
<1>2. n \in 0 .. size /\ n \in 0 .. Cap
  BY QueueAssumption DEF IInv, TypeOK
<1>3. out' \in Seq(Events)
  <2>1. \A i \in 1 .. n : slots[Slot(i - 1)] \in Events
    <3> SUFFICES ASSUME NEW i \in 1 .. n PROVE slots[Slot(i - 1)] \in Events
      OBVIOUS
    <3>1. i - 1 \in 0 .. size - 1
      BY <1>2, QueueAssumption DEF IInv, TypeOK
    <3> QED BY <3>1 DEF IInv, LiveSlotsFilled
  <2> QED BY <1>1, <1>2, <2>1
<1>4. TypeOK'
  <2>1. Slot(n) \in 0 .. Cap - 1
    BY <1>2, RingFacts
  <2>2. size' \in 0 .. Cap
    BY <1>1, <1>2, QueueAssumption DEF IInv, TypeOK
  <2> QED BY <1>1, <1>3, <2>1, <2>2 DEF IInv, TypeOK, PopBatch, producerVars
<1>5. MutexOK'
  BY <1>1 DEF IInv, MutexOK
<1>6. LiveSlotsFilled'
  <2> SUFFICES ASSUME NEW k \in 0 .. (size - n) - 1
               PROVE  slots[(Slot(n) + k) % Cap] \in Events
    BY <1>1 DEF LiveSlotsFilled, Slot
  <2>1. k \in 0 .. Cap - n /\ n + k \in 0 .. size - 1
    BY <1>2, QueueAssumption DEF IInv, TypeOK
  <2>2. (Slot(n) + k) % Cap = Slot(n + k)
    BY <1>2, <2>1, RingFacts
  <2> QED BY <2>1, <2>2 DEF IInv, LiveSlotsFilled
<1> QED BY <1>4, <1>5, <1>6 DEF IInv

(* The other steps leave the ring alone and move control only.             *)
LEMMA ControlInv ==
  ASSUME IInv, UNCHANGED <<ringVars, lock, filling, pushes, out>>,
         ppc' \in [Producers -> {"out", "fill", "measure", "wake"}],
         \A p \in Producers : ppc'[p] = "fill" <=> ppc[p] = "fill",
         woken' \in BOOLEAN, signalled' \in BOOLEAN,
         spc' \in {"wait", "asleep", "drain"}
  PROVE  IInv'
BY DEF IInv, TypeOK, MutexOK, LiveSlotsFilled, Slot, ringVars

LEMMA NextInv == IInv /\ [Next]_vars => IInv'
<1> SUFFICES ASSUME IInv, [Next]_vars PROVE IInv'
  OBVIOUS
<1> USE DEF ringVars, producerVars
<1>1. ASSUME NEW p \in Producers, NEW e \in Events, BeginPush(p, e) PROVE IInv'
  BY <1>1, BeginPushInv
<1>2. ASSUME NEW p \in Producers, EndPush(p) PROVE IInv'
  BY <1>2, EndPushInv
<1>3. ASSUME NEW p \in Producers, Measure(p) PROVE IInv'
  <2>1. ppc' \in [Producers -> {"out", "fill", "measure", "wake"}]
    BY <1>3 DEF IInv, TypeOK, Measure, Goto
  <2>2. \A q \in Producers : ppc'[q] = "fill" <=> ppc[q] = "fill"
    BY <1>3 DEF IInv, TypeOK, Measure, Goto
  <2> QED BY <1>3, <2>1, <2>2, ControlInv DEF IInv, TypeOK, Measure
<1>4. ASSUME NEW p \in Producers, ProducerWake(p) PROVE IInv'
  <2>1. ppc' \in [Producers -> {"out", "fill", "measure", "wake"}]
    BY <1>4 DEF IInv, TypeOK, ProducerWake, Goto
  <2>2. \A q \in Producers : ppc'[q] = "fill" <=> ppc[q] = "fill"
    BY <1>4 DEF IInv, TypeOK, ProducerWake, Goto
  <2> QED BY <1>4, <2>1, <2>2, ControlInv DEF IInv, TypeOK, ProducerWake, Wake
<1>5. CASE ExternalWake
  BY <1>5, ControlInv DEF IInv, TypeOK, ExternalWake, Wake
<1>6. CASE BeginWait
  BY <1>6, ControlInv DEF IInv, TypeOK, BeginWait
<1>7. CASE Awakened \/ TimedOut
  BY <1>7, ControlInv DEF IInv, TypeOK, Awakened, TimedOut, EndWait
<1>8. CASE PopBatch
  BY <1>8, PopBatchInv
<1>9. CASE UNCHANGED vars
  BY <1>9, ControlInv DEF IInv, TypeOK, vars
<1> QED
  BY <1>1, <1>2, <1>3, <1>4, <1>5, <1>6, <1>7, <1>8, <1>9 DEF Next, Producer

(* IInv, and with it the type invariant, holds in every reachable state:   *)
(* no call of ph_queue.c leaves the array or exposes an unfilled slot.     *)
THEOREM RingInvariant == Spec => []IInv
<1>1. Init => IInv
  <2> SUFFICES ASSUME Init PROVE IInv
    OBVIOUS
  <2>1. TypeOK
    <3>1. slots \in [0 .. Cap - 1 -> Events \cup {Blank}]
      BY DEF Init
    <3>2. ppc \in [Producers -> {"out", "fill", "measure", "wake"}]
      BY DEF Init
    <3>3. pushes \in [Producers -> 0 .. MaxPushes]
      BY QueueAssumption DEF Init
    <3>4. head \in 0 .. Cap - 1 /\ size \in 0 .. Cap /\ dropped \in Nat
      BY QueueAssumption DEF Init
    <3>5. out \in Seq(Events)
      BY DEF Init
    <3> QED BY <3>1, <3>2, <3>3, <3>4, <3>5 DEF Init, TypeOK
  <2>2. MutexOK
    BY QueueAssumption DEF Init, MutexOK
  <2>3. LiveSlotsFilled
    BY DEF Init, LiveSlotsFilled
  <2> QED BY <2>1, <2>2, <2>3 DEF IInv
<1> QED BY <1>1, NextInv, PTL DEF Spec

(* The type invariant of the ring, checked by the run of MCPhQueue.        *)
THEOREM TypeCorrect == Spec => []TypeOK
<1>1. IInv => TypeOK
  BY DEF IInv
<1> QED BY <1>1, RingInvariant, PTL

(* The window is the sequence of live slots.                               *)
WindowIsLive ==
  /\ Window \in Seq(Events)
  /\ Len(Window) = size
  /\ \A i \in 1 .. size : Window[i] = slots[Slot(i - 1)]

LEMMA WindowFacts == IInv => WindowIsLive
<1> SUFFICES ASSUME IInv PROVE WindowIsLive
  OBVIOUS
<1>1. size \in Nat
  BY QueueAssumption DEF IInv, TypeOK
<1>2. \A i \in 1 .. size : slots[Slot(i - 1)] \in Events
  <2> SUFFICES ASSUME NEW i \in 1 .. size PROVE slots[Slot(i - 1)] \in Events
    OBVIOUS
  <2>1. i - 1 \in 0 .. size - 1
    BY <1>1
  <2> QED BY <2>1 DEF IInv, LiveSlotsFilled
<1> QED BY <1>1, <1>2 DEF Window, WindowIsLive

LEMMA WindowFactsPrime == IInv' => WindowIsLive'
BY WindowFacts, PTL

(* begin_push is the abstract push: a full window loses its first element, *)
(* and the event being filled is the new last one.                         *)
LEMMA BeginPushRefines ==
  ASSUME IInv, IInv', NEW p \in Producers, NEW e \in Events, BeginPush(p, e)
  PROVE  Abstract!Push(e)
<1>1. /\ lock = Nobody /\ lock' = p /\ p # Nobody /\ filling' = e
      /\ dropped' = (IF size = Cap THEN dropped + 1 ELSE dropped) /\ out' = out
  BY QueueAssumption DEF BeginPush, Goto
<1>2. Contents = Window /\ Contents' = Append(Window', e)
  BY <1>1 DEF Contents
<1>3. size \in 0 .. Cap /\ slots \in [0 .. Cap - 1 -> Events \cup {Blank}]
  BY DEF IInv, TypeOK
<1>4. Abstract!Full(Window) <=> size = Cap
  BY WindowFacts DEF Abstract!Full, WindowIsLive
<1>5. CASE size = Cap
  <2>1. /\ head' = Slot(1) /\ size' = Cap - 1
        /\ slots' = [slots EXCEPT ![(Slot(1) + (Cap - 1)) % Cap] = Blank]
    BY <1>5 DEF BeginPush, Slot
  <2>2. (Slot(1) + (Cap - 1)) % Cap = Slot(Cap)
    <3>1. 1 \in 0 .. Cap /\ Cap - 1 \in 0 .. Cap - 1 /\ 1 + (Cap - 1) = Cap
      BY QueueAssumption
    <3> QED BY <3>1, RingFacts
  <2>3. Slot(Cap) = Slot(0) /\ Slot(0) \in 0 .. Cap - 1
    <3>1. head \in 0 .. Cap - 1 /\ 0 \in 0 .. Cap /\ Cap \in 0 .. Cap
      BY QueueAssumption DEF IInv, TypeOK
    <3>2. (head + Cap) % Cap = head + Cap - Cap /\ (head + 0) % Cap = head + 0
      <4>1. ~(head + Cap < Cap) /\ head + 0 < Cap
        BY <3>1, QueueAssumption
      <4> QED BY <3>1, <4>1, ModCap, QueueAssumption
    <3> QED BY <3>1, <3>2, QueueAssumption DEF Slot
  <2>4. Window' = Tail(Window)
    <3>1. Window # <<>> /\ Window \in Seq(Events) /\ Len(Window) = Cap
      BY <1>5, WindowFacts, QueueAssumption DEF WindowIsLive
    <3>2. /\ Tail(Window) \in Seq(Events)
          /\ Len(Tail(Window)) = Cap - 1
          /\ \A i \in 1 .. Cap - 1 : Tail(Window)[i] = Window[i + 1]
      BY <3>1, HeadTailProperties
    <3>3. /\ Window' \in Seq(Events)
          /\ Len(Window') = Cap - 1
          /\ \A i \in 1 .. Cap - 1 : Window'[i] = slots'[(Slot(1) + (i - 1)) % Cap]
      BY <2>1, WindowFactsPrime DEF WindowIsLive, Slot
    <3>4. ASSUME NEW i \in 1 .. Cap - 1 PROVE Window'[i] = Tail(Window)[i]
      <4>1. /\ 1 \in 0 .. Cap /\ i - 1 \in 0 .. Cap - 1 /\ i \in 0 .. Cap - 1
            /\ 1 + (i - 1) = i /\ i \in 0 .. Cap /\ 0 \in 0 .. Cap - 1 /\ i # 0
            /\ i + 1 \in 1 .. size /\ (i + 1) - 1 = i
        BY <1>5, QueueAssumption
      <4>2. (Slot(1) + (i - 1)) % Cap = Slot(i)
        BY <4>1, RingFacts
      <4>3. Slot(i) \in 0 .. Cap - 1 /\ Slot(i) # Slot(0)
        BY <4>1, RingFacts
      <4>4. slots'[Slot(i)] = slots[Slot(i)]
        BY <1>3, <2>1, <2>2, <2>3, <4>3
      <4>5. Window[i + 1] = slots[Slot(i)]
        BY <4>1, WindowFacts DEF WindowIsLive
      <4> QED BY <3>2, <3>3, <4>2, <4>4, <4>5
    <3> QED BY <3>2, <3>3, <3>4, SeqEqual
  <2> QED BY <1>1, <1>2, <1>4, <1>5, <2>4
        DEF Abstract!Push, Abstract!Pushed, Abstract!Full
<1>6. CASE size # Cap
  <2>1. /\ head' = head /\ size' = size /\ size \in 0 .. Cap - 1
        /\ slots' = [slots EXCEPT ![Slot(size)] = Blank]
    BY <1>3, <1>6, QueueAssumption DEF BeginPush, Slot
  <2>2. Window' = Window
    <3>1. /\ Window \in Seq(Events) /\ Len(Window) = size
          /\ Window' \in Seq(Events) /\ Len(Window') = size
      BY <2>1, WindowFacts, WindowFactsPrime DEF WindowIsLive
    <3>2. ASSUME NEW i \in 1 .. size PROVE Window'[i] = Window[i]
      <4>1. i - 1 \in 0 .. Cap - 1 /\ i - 1 # size /\ i - 1 \in 0 .. Cap
        BY <2>1, QueueAssumption
      <4>2. Slot(i - 1) # Slot(size) /\ Slot(i - 1) \in 0 .. Cap - 1
        BY <2>1, <4>1, RingFacts
      <4>3. slots'[Slot(i - 1)] = slots[Slot(i - 1)]
        BY <1>3, <2>1, <4>2
      <4>4. Window'[i] = slots'[Slot(i - 1)] /\ Window[i] = slots[Slot(i - 1)]
        BY <2>1, WindowFacts, WindowFactsPrime DEF WindowIsLive, Slot
      <4> QED BY <4>3, <4>4
    <3> QED BY <3>1, <3>2, SeqEqual
  <2> QED BY <1>1, <1>2, <1>4, <1>6, <2>2
        DEF Abstract!Push, Abstract!Pushed, Abstract!Full
<1> QED BY <1>5, <1>6

(* end_push changes nothing the abstract queue shows: the event was in     *)
(* since begin_push, and its slot now holds it.                            *)
LEMMA EndPushRefines ==
  ASSUME IInv, IInv', NEW p \in Producers, EndPush(p)
  PROVE  Contents' = Contents
<1>1. /\ lock = p /\ lock # Nobody /\ lock' = Nobody /\ head' = head
      /\ size' = size + 1 /\ size < Cap /\ filling \in Events
      /\ slots' = [slots EXCEPT ![Slot(size)] = filling]
  BY QueueAssumption DEF EndPush, Goto, IInv, MutexOK
<1>2. Contents = Append(Window, filling) /\ Contents' = Window'
  BY <1>1 DEF Contents
<1>3. /\ slots \in [0 .. Cap - 1 -> Events \cup {Blank}]
      /\ size \in 0 .. Cap - 1 /\ size \in 0 .. Cap
  BY <1>1, QueueAssumption DEF IInv, TypeOK
<1>4. /\ Append(Window, filling) \in Seq(Events)
      /\ Len(Append(Window, filling)) = size + 1
      /\ \A i \in 1 .. size : Append(Window, filling)[i] = slots[Slot(i - 1)]
      /\ Append(Window, filling)[size + 1] = filling
  BY <1>1, WindowFacts, AppendProperties DEF WindowIsLive
<1>5. /\ Window' \in Seq(Events) /\ Len(Window') = size + 1
      /\ \A i \in 1 .. size + 1 : Window'[i] = slots'[Slot(i - 1)]
  BY <1>1, WindowFactsPrime DEF WindowIsLive, Slot
<1>6. ASSUME NEW i \in 1 .. size + 1
      PROVE  Window'[i] = Append(Window, filling)[i]
  <2>1. CASE i = size + 1
    <3>1. i - 1 = size /\ Slot(size) \in 0 .. Cap - 1
      BY <1>3, <2>1, RingFacts
    <3> QED BY <1>1, <1>3, <1>4, <1>5, <2>1, <3>1
  <2>2. CASE i # size + 1
    <3>1. /\ i \in 1 .. size /\ i - 1 \in 0 .. Cap - 1 /\ i - 1 # size
          /\ i - 1 \in 0 .. Cap
      BY <1>3, <2>2, QueueAssumption
    <3>2. Slot(i - 1) # Slot(size) /\ Slot(i - 1) \in 0 .. Cap - 1
      BY <1>3, <3>1, RingFacts
    <3>3. slots'[Slot(i - 1)] = slots[Slot(i - 1)]
      BY <1>1, <1>3, <3>2
    <3> QED BY <1>4, <1>5, <3>1, <3>3
  <2> QED BY <2>1, <2>2
<1> QED BY <1>2, <1>4, <1>5, <1>6, SeqEqual

(* pop_batch is the abstract pop: it hands over a prefix of the window and *)
(* leaves the remainder.                                                   *)
LEMMA PopBatchRefines ==
  ASSUME IInv, IInv', PopBatch
  PROVE  Abstract!PopBatch
<1> DEFINE n == IF size < MaxBatch THEN size ELSE MaxBatch
<1>1. /\ lock = Nobody /\ lock' = Nobody /\ slots' = slots
      /\ head' = Slot(n) /\ size' = size - n /\ dropped' = dropped
      /\ out' = [i \in 1 .. n |-> slots[Slot(i - 1)]]
  BY DEF PopBatch
<1>2. Contents = Window /\ Contents' = Window'
  BY <1>1 DEF Contents
<1>3. size \in 0 .. Cap /\ n \in 0 .. size /\ n \in 0 .. Cap /\ Cap \in Nat
  BY QueueAssumption DEF IInv, TypeOK
<1>4. /\ Window \in Seq(Events) /\ Len(Window) = size
      /\ \A i \in 1 .. size : Window[i] = slots[Slot(i - 1)] /\ Window[i] \in Events
  BY WindowFacts, ElementOfSeq DEF WindowIsLive
<1>5. Abstract!Taken(Window, MaxBatch) = n
  BY <1>4 DEF Abstract!Taken
<1> HIDE DEF n
<1>6. out' = SubSeq(Window, 1, n)
  <2>1. /\ SubSeq(Window, 1, n) \in Seq(Events)
        /\ Len(SubSeq(Window, 1, n)) = n
        /\ \A i \in 1 .. n : SubSeq(Window, 1, n)[i] = Window[i]
    <3>1. \A i \in 1 .. n : Window[i] \in Events
      BY <1>3, <1>4
    <3>2. 1 \in Int /\ n \in Int /\ n - 1 + 1 = n /\ (IF 1 <= n THEN n ELSE 0) = n
          /\ \A i \in 1 .. n : 1 + i - 1 = i
      BY <1>3
    <3> QED BY <3>1, <3>2, SubSeqProperties
  <2>2. /\ out' \in Seq(Events) /\ Len(out') = n
        /\ \A i \in 1 .. n : out'[i] = Window[i]
    <3>1. out' \in Seq(Events)
      BY DEF IInv, TypeOK
    <3> QED BY <1>1, <1>3, <1>4, <3>1
  <2> QED BY <2>1, <2>2, SeqEqual
<1>7. Window' = SubSeq(Window, n + 1, size)
  <2>1. /\ SubSeq(Window, n + 1, size) \in Seq(Events)
        /\ Len(SubSeq(Window, n + 1, size)) = size - n
        /\ \A i \in 1 .. size - n :
               SubSeq(Window, n + 1, size)[i] = Window[n + i]
    <3>1. \A i \in n + 1 .. size : Window[i] \in Events
      BY <1>3, <1>4
    <3>2. /\ n + 1 \in Int /\ size \in Int /\ size - (n + 1) + 1 = size - n
          /\ (IF n + 1 <= size THEN size - n ELSE 0) = size - n
          /\ \A i \in 1 .. size - n : (n + 1) + i - 1 = n + i
      BY <1>3
    <3> QED BY <3>1, <3>2, SubSeqProperties
  <2>2. /\ Window' \in Seq(Events) /\ Len(Window') = size - n
        /\ \A i \in 1 .. size - n : Window'[i] = slots[(Slot(n) + (i - 1)) % Cap]
    BY <1>1, WindowFactsPrime DEF WindowIsLive, Slot
  <2>3. ASSUME NEW i \in 1 .. size - n PROVE Window'[i] = Window[n + i]
    <3>1. /\ i - 1 \in 0 .. Cap - n /\ n + i \in 1 .. size
          /\ n + (i - 1) = (n + i) - 1
      BY <1>3
    <3>2. (Slot(n) + (i - 1)) % Cap = Slot((n + i) - 1)
      BY <1>3, <3>1, RingFacts
    <3> QED BY <1>4, <2>2, <3>1, <3>2
  <2> QED BY <2>1, <2>2, <2>3, SeqEqual
<1> QED BY <1>1, <1>2, <1>4, <1>5, <1>6, <1>7
      DEF Abstract!PopBatch, Abstract!Batch, Abstract!Rest

(* Every behaviour of the ring is a behaviour of the drop-oldest FIFO      *)
(* (RefinesDropOldestQueue, checked by the run of MCPhQueue).              *)
THEOREM RingIsDropOldestQueue == Spec => RefinesDropOldestQueue
<1>1. Init => Abstract!Init
  BY DEF Init, Abstract!Init, Contents, Window
<1>2. IInv /\ IInv' /\ [Next]_vars => [Abstract!Next]_(Abstract!vars)
  <2> SUFFICES ASSUME IInv, IInv', [Next]_vars
               PROVE  [Abstract!Next]_(Abstract!vars)
    OBVIOUS
  <2>1. ASSUME NEW p \in Producers, NEW e \in Events, BeginPush(p, e)
        PROVE  Abstract!Next
    BY <2>1, BeginPushRefines DEF Abstract!Next
  <2>2. ASSUME NEW p \in Producers, EndPush(p)
        PROVE  UNCHANGED Abstract!vars
    BY <2>2, EndPushRefines DEF EndPush, Abstract!vars
  <2>3. CASE PopBatch
    BY <2>3, PopBatchRefines DEF Abstract!Next
  <2>4. ASSUME UNCHANGED <<ringVars, lock, filling, out>>
        PROVE  UNCHANGED Abstract!vars
    BY <2>4 DEF Abstract!vars, Contents, Window, Slot, ringVars
  <2>5. ASSUME NEW p \in Producers, Measure(p) \/ ProducerWake(p)
        PROVE  UNCHANGED Abstract!vars
    BY <2>4, <2>5 DEF Measure, ProducerWake, Wake
  <2>6. CASE \/ ExternalWake \/ BeginWait \/ Awakened \/ TimedOut
             \/ UNCHANGED vars
    BY <2>4, <2>6 DEF ExternalWake, Wake, BeginWait, Awakened, TimedOut,
                      EndWait, vars, ringVars
  <2> QED BY <2>1, <2>2, <2>3, <2>5, <2>6 DEF Next, Producer
<1> QED BY <1>1, <1>2, RingInvariant, PTL DEF Spec, RefinesDropOldestQueue, Abstract!Spec

-----------------------------------------------------------------------------
(* CrashRecord, for every number of crashes, when the unlink that follows  *)
(* a link always happens.                                                  *)

(* The names are distinct files except while the record is being linked.   *)
NamesOK == tmp # NoFile /\ tmp = path => hpc = "unlink"

(* What the handler has prepared when it gets to the link.                 *)
HandlerOK ==
  /\ hpc \in {"open", "write", "sync", "link", "unlink", "raise"} => faults # 0
  /\ hpc \in {"write", "sync", "link"} => tmp # NoFile
  /\ hpc \in {"sync", "link"} => data[tmp] = faults

(* The report the sender holds is the one on disk.                         *)
OfferOK == queued # NoReport => path # NoFile /\ data[path] = queued

RecordIInv == RecordTypeOK /\ NamesOK /\ HandlerOK /\ OfferOK /\ PublishedIsWhole

USE DEF NoFile, NoReport, Torn

LEMMA RecordInitInv == RecordInit => RecordIInv
<1> SUFFICES ASSUME RecordInit PROVE RecordIInv
  OBVIOUS
<1>1. data \in [Inodes -> 0 .. faults] /\ faults \in 0 .. MaxFaults
  BY CrashAssumption DEF RecordInit
<1>2. inHandler \in BOOLEAN
  BY Zenon DEF RecordInit
<1> QED BY <1>1, <1>2
   DEF RecordInit, RecordIInv, RecordTypeOK, NamesOK, HandlerOK, OfferOK, PublishedIsWhole

(* The end of a process, its names apart.                                  *)
LEMMA EndsInv ==
  ASSUME RecordIInv, Ends, tmp # NoFile => tmp # path
  PROVE  RecordIInv'
<1>1. inHandler' \in BOOLEAN
  BY Zenon DEF Ends
<1>2. 0 \in 0 .. faults
  BY CrashAssumption DEF RecordIInv, RecordTypeOK
<1> QED BY <1>1, <1>2 DEF Ends, fileVars, RecordIInv, RecordTypeOK, NamesOK, HandlerOK,
              OfferOK, PublishedIsWhole

(* Steps that leave the files and the handler alone, or only remove names. *)
LEMMA NormalInv ==
  ASSUME RecordIInv, ~UnlinkSkipped,
         \/ Start \/ Replay \/ Install \/ HandoffComplete \/ EventLost
         \/ Uninstall \/ Stopped \/ Killed
  PROVE  RecordIInv'
<1> USE DEF RecordIInv, RecordTypeOK, NamesOK, HandlerOK, OfferOK, PublishedIsWhole, fileVars
<1>1. CASE Start BY <1>1 DEF Start
<1>2. CASE ReplayNothing BY <1>2 DEF ReplayNothing
<1>3. CASE ReplayDiscards BY <1>3 DEF ReplayDiscards
<1>4. CASE ReplayQueues BY <1>4 DEF ReplayQueues
<1>5. CASE Install BY <1>5 DEF Install
<1>6. CASE HandoffComplete BY <1>6 DEF HandoffComplete
<1>7. CASE EventLost BY <1>7 DEF EventLost
<1>8. CASE Uninstall BY <1>8 DEF Uninstall
<1>9. CASE Stopped BY <1>9 DEF Stopped
<1>10. CASE Killed BY <1>10, EndsInv DEF Killed
<1> QED BY <1>1, <1>2, <1>3, <1>4, <1>5, <1>6, <1>7, <1>8, <1>9, <1>10 DEF Replay

(* Steps of the handler.                                                   *)
LEMMA HandlerInv ==
  ASSUME RecordIInv, ~UnlinkSkipped, Handler
  PROVE  RecordIInv'
<1> USE DEF RecordIInv, RecordTypeOK, NamesOK, HandlerOK, OfferOK, PublishedIsWhole,
            fileVars, HandlerFrame
<1>1. CASE Fault BY <1>1, CrashAssumption DEF Fault
<1>2. CASE FaultAgain BY <1>2, EndsInv DEF FaultAgain
<1>3. CASE Open BY <1>3, CrashAssumption DEF Open, Inodes
<1>4. CASE OpenFails BY <1>4 DEF OpenFails
<1>5. CASE WriteRecord BY <1>5, CrashAssumption DEF WriteRecord
<1>6. CASE WriteRecordFails BY <1>6 DEF WriteRecordFails
<1>7. CASE Sync BY <1>7 DEF Sync
<1>8. CASE Link BY <1>8 DEF Link
<1>9. CASE Unlink BY <1>9 DEF Unlink
<1>10. CASE Raise
  <2>1. CASE Ends BY <1>10, <2>1, EndsInv DEF Raise
  <2>2. CASE hpc' = "idle" /\ UNCHANGED <<tmp, data>> /\ HandlerFrame
    BY <1>10, <2>2 DEF Raise
  <2> QED BY <1>10, <2>1, <2>2 DEF Raise
<1> QED BY <1>1, <1>2, <1>3, <1>4, <1>5, <1>6, <1>7, <1>8, <1>9, <1>10 DEF Handler

LEMMA RecordNextInv ==
  ASSUME RecordIInv, ~UnlinkSkipped, [RecordNext]_recordVars
  PROVE  RecordIInv'
<1>1. CASE UNCHANGED recordVars
  BY <1>1 DEF recordVars, fileVars, RecordIInv, RecordTypeOK, NamesOK, HandlerOK, OfferOK,
              PublishedIsWhole
<1> QED BY <1>1, NormalInv, HandlerInv DEF RecordNext

(* RecordIInv holds in every reachable state: the published record is whole and  *)
(* no other name reaches its inode, so nothing the handler opens, empties  *)
(* or writes can change it.                                                *)
THEOREM RecordInvariant ==
  ASSUME ~UnlinkSkipped
  PROVE  RecordSpec => []RecordIInv
<1>1. RecordIInv /\ [RecordNext]_recordVars => RecordIInv'
  BY RecordNextInv
<1> QED BY <1>1, RecordInitInv, PTL DEF RecordSpec

(* The state of handler, files and sender always has its type.             *)
THEOREM RecordTypeCorrect ==
  ASSUME ~UnlinkSkipped
  PROVE  RecordSpec => []RecordTypeOK
<1>1. RecordIInv => RecordTypeOK
  BY DEF RecordIInv
<1> QED BY <1>1, RecordInvariant, PTL

(* However many runs crash, and wherever in the handler they die, the      *)
(* published record is whole.                                              *)
THEOREM PublishedStaysWhole ==
  ASSUME ~UnlinkSkipped
  PROVE  RecordSpec => []PublishedIsWhole
<1>1. RecordIInv => PublishedIsWhole
  BY DEF RecordIInv
<1> QED BY <1>1, RecordInvariant, PTL

(* Every step is a step of the box or leaves it alone.                     *)
LEMMA StepRefines ==
  ASSUME RecordIInv, RecordIInv', ~UnlinkSkipped, [RecordNext]_recordVars
  PROVE  [Box!Next]_<<Report, queued>>
<1> USE DEF Report, Box!Next, Box!Publish, Box!Offer, Box!Acknowledge,
            Box!Forget, Box!Refuse, fileVars
<1>1. CASE UNCHANGED recordVars BY <1>1 DEF recordVars
<1>2. CASE Start BY <1>2 DEF Start
<1>3. CASE ReplayNothing BY <1>3 DEF ReplayNothing
<1>4. CASE ReplayDiscards
  <2>1. queued = NoReport
    BY <1>4 DEF ReplayDiscards, RecordIInv, RecordTypeOK
  <2> QED BY <1>4, <2>1 DEF ReplayDiscards, RecordIInv, PublishedIsWhole
<1>5. CASE ReplayQueues
  <2>1. queued = NoReport
    BY <1>5 DEF ReplayQueues, RecordIInv, RecordTypeOK
  <2> QED BY <1>5, <2>1 DEF ReplayQueues
<1>6. CASE Install BY <1>6 DEF Install
<1>7. CASE HandoffComplete BY <1>7 DEF HandoffComplete, RecordIInv, OfferOK
<1>8. CASE EventLost BY <1>8 DEF EventLost
<1>9. CASE Uninstall BY <1>9 DEF Uninstall
<1>10. CASE Stopped BY <1>10 DEF Stopped
<1>11. CASE Ends BY <1>11 DEF Ends
<1>12. CASE Fault BY <1>12 DEF Fault
<1>13. CASE Open
  BY <1>13 DEF Open, HandlerFrame, RecordIInv, NamesOK, RecordTypeOK
<1>14. CASE OpenFails BY <1>14 DEF OpenFails, HandlerFrame
<1>15. CASE WriteRecord
  BY <1>15 DEF WriteRecord, HandlerFrame, RecordIInv, NamesOK, HandlerOK, RecordTypeOK
<1>16. CASE WriteRecordFails BY <1>16 DEF WriteRecordFails, HandlerFrame
<1>17. CASE Sync BY <1>17 DEF Sync, HandlerFrame
<1>18. CASE Link
  <2>1. tmp # NoFile /\ data[tmp] \in 1 .. MaxFaults
    BY <1>18, CrashAssumption DEF Link, RecordIInv, HandlerOK, RecordTypeOK
  <2> QED BY <1>18, <2>1 DEF Link
<1>19. CASE Unlink BY <1>19 DEF Unlink, HandlerFrame
<1>20. CASE Raise BY <1>20, <1>11 DEF Raise, HandlerFrame
<1>21. CASE Killed BY <1>21, <1>11 DEF Killed
<1>22. CASE FaultAgain BY <1>22, <1>11 DEF FaultAgain
<1> QED BY <1>1, <1>2, <1>3, <1>4, <1>5, <1>6, <1>7, <1>8, <1>9, <1>10, <1>12,
           <1>13, <1>14, <1>15, <1>16, <1>17, <1>18, <1>19, <1>20, <1>21, <1>22
       DEF RecordNext, Replay, Handler

(* The file dance of handler, replay and hand-off implements the box that  *)
(* keeps the first report until it was handed off.                         *)
THEOREM RecordIsReportBox ==
  ASSUME ~UnlinkSkipped
  PROVE  RecordSpec => RefinesReportBox
<1>1. RecordInit => Box!Init
  BY DEF RecordInit, Box!Init, Report
<1>2. RecordIInv /\ RecordIInv' /\ [RecordNext]_recordVars => [Box!Next]_<<Report, queued>>
  BY StepRefines
<1> QED BY <1>1, <1>2, RecordInvariant, PTL DEF RecordSpec, RefinesReportBox, Box!Spec
=============================================================================
