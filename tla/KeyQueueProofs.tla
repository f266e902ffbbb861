--------------------------- MODULE KeyQueueProofs ---------------------------
(***************************************************************************)
(* Theorems about KeyQueue, for every size of the queue, every set of keys *)
(* and every placement of the interrupts.                                  *)
(***************************************************************************)
EXTENDS KeyQueue, SequenceTheorems, TLAPS

(* The inductive invariant: where start may be out of range, what the      *)
(* tests of the main loop have established, and what the register holds.   *)
IndInv ==
    /\ TypeOK
    /\ TestStaysGood
    /\ start = KEYQUEUE_SIZE => pc \in {"fetch", "wrap"}
    /\ pc = "fetch" => reg \in Slots /\ start = reg + 1

(* A remainder lies in the range of the slots. *)
LEMMA ModInSlots == \A n \in Nat : n % KEYQUEUE_SIZE \in Slots
BY QueueAssumption, SMT DEF Slots

(* Before interrupts are enabled the queue is empty and the cursor of the  *)
(* main loop is outside pop_key_queue.                                     *)
LEMMA InitInv == Init => IndInv
BY QueueAssumption, SMT
DEF Init, IndInv, TypeOK, TestStaysGood, Slots, Labels

(* Whenever the interrupt comes, it keeps the invariant: it stores within  *)
(* the array and only ever makes length larger, up to the size.            *)
LEMMA InterruptKeepsInv ==
    ASSUME IndInv, NEW k \in Keys, push_key_queue(k)
    PROVE  IndInv'
<1>1. CASE key_queue_isfull
    BY <1>1, SMT
    DEF push_key_queue, IndInv, TypeOK, TestStaysGood
<1>2. CASE ~key_queue_isfull
  <2> DEFINE at == (start + length) % KEYQUEUE_SIZE
  <2>1. at \in Slots
      BY ModInSlots, QueueAssumption, SMT DEF IndInv, TypeOK
  <2>2. queue' = [queue EXCEPT ![at] = k] /\ length' = length + 1
      BY <1>2 DEF push_key_queue
  <2>3. UNCHANGED <<start, pc, reg, key>>
      BY DEF push_key_queue
  <2>4. length' \in 0 .. KEYQUEUE_SIZE
      BY <1>2, <2>2, QueueAssumption, SMT
      DEF IndInv, TypeOK, key_queue_isfull
  <2>5. queue' \in [Slots -> Keys \cup {NUL}]
      BY <2>1, <2>2 DEF IndInv, TypeOK
  <2>6. TypeOK'
      BY <2>3, <2>4, <2>5 DEF IndInv, TypeOK
  <2>7. TestStaysGood'
      BY <2>2, <2>3, QueueAssumption, SMT DEF IndInv, TypeOK, TestStaysGood
  <2>. QED
      BY <2>3, <2>6, <2>7 DEF IndInv
<1>. QED
    BY <1>1, <1>2

(* Every statement of the main loop keeps the invariant. *)
LEMMA MainStepKeepsInv == IndInv /\ MainStep => IndInv'
<1>. SUFFICES ASSUME IndInv, MainStep PROVE IndInv'
    OBVIOUS
<1>. USE QueueAssumption DEF IndInv, TypeOK, TestStaysGood, Slots, Labels
<1>1. CASE Redraw
    BY <1>1, SMT DEF Redraw
<1>2. CASE TestEmpty
    BY <1>2, SMT DEF TestEmpty, key_queue_isempty
<1>3. CASE GuardEmpty
    BY <1>3, SMT DEF GuardEmpty, key_queue_isempty
<1>4. CASE LoadLength
    BY <1>4, SMT DEF LoadLength
<1>5. CASE StoreLength
    BY <1>5, SMT DEF StoreLength, Dec
<1>6. CASE AdvanceStart
    BY <1>6, SMT DEF AdvanceStart
<1>7. CASE FetchSlot
    BY <1>7, SMT DEF FetchSlot
<1>8. CASE WrapStart
    BY <1>8, ModInSlots, SMT DEF WrapStart
<1>9. CASE UseKey
    BY <1>9, SMT DEF UseKey
<1>. QED
    BY <1>1, <1>2, <1>3, <1>4, <1>5, <1>6, <1>7, <1>8, <1>9 DEF MainStep

(* Every step keeps the invariant. *)
LEMMA NextKeepsInv == IndInv /\ [Next]_vars => IndInv'
<1>. SUFFICES ASSUME IndInv, [Next]_vars PROVE IndInv'
    OBVIOUS
<1>1. CASE MainStep
    BY <1>1, MainStepKeepsInv
<1>2. CASE Interrupt
    BY <1>2, InterruptKeepsInv DEF Interrupt
<1>3. CASE UNCHANGED vars
    BY <1>3 DEF vars, IndInv, TypeOK, TestStaysGood
<1>. QED
    BY <1>1, <1>2, <1>3 DEF Next

(* The invariant holds at every moment of every execution. *)
THEOREM Invariance == Spec => []IndInv
BY InitInv, NextKeepsInv, PTL DEF Spec

(* The fields of the queue keep their ranges whenever interrupts come: the *)
(* number of keys never exceeds the size and never wraps below zero.       *)
THEOREM TypeCorrect == Spec => []TypeOK
<1>1. IndInv => TypeOK
    BY DEF IndInv
<1>. QED
    BY <1>1, Invariance, PTL

(* pop_key_queue never reads outside the array (keyboard.c:48). *)
THEOREM ReadsInBoundsAlways == Spec => []ReadsInBounds
<1>1. IndInv => ReadsInBounds
    BY DEF IndInv, ReadsInBounds
<1>. QED
    BY <1>1, Invariance, PTL

(* The empty test of the main loop is still good when pop acts on it, so   *)
(* that `length--` (keyboard.c:47) never wraps below zero.                 *)
THEOREM TestStaysGoodAlways == Spec => []TestStaysGood
<1>1. IndInv => TestStaysGood
    BY DEF IndInv
<1>. QED
    BY <1>1, Invariance, PTL

-----------------------------------------------------------------------------
(* The ring buffer as a queue.                                             *)

(* The indices of the buffer stay below twice its size, where a remainder  *)
(* is at most one subtraction.                                             *)
LEMMA ModOneWrap ==
    \A n \in 0 .. 2 * KEYQUEUE_SIZE - 1 :
        n % KEYQUEUE_SIZE = IF n < KEYQUEUE_SIZE THEN n ELSE n - KEYQUEUE_SIZE
<1>. TAKE n \in 0 .. 2 * KEYQUEUE_SIZE - 1
<1>1. CASE n < KEYQUEUE_SIZE
    BY <1>1, QueueAssumption, SMT
<1>2. CASE n >= KEYQUEUE_SIZE
    BY <1>2, QueueAssumption, SMT
<1>. QED
    BY <1>1, <1>2, QueueAssumption, SMT

(* The slot of the i-th key that waits. *)
SlotOf(i) == (FirstWaiting + i - 1) % KEYQUEUE_SIZE

(* The abstract queue is a sequence of as many keys as length says. *)
LEMMA WaitingSeq ==
    ASSUME IndInv
    PROVE  /\ Waiting \in Seq(Keys \cup {NUL})
           /\ Len(Waiting) = length
           /\ \A i \in 1 .. length : Waiting[i] = queue[SlotOf(i)]
           /\ \A i \in 1 .. length : SlotOf(i) \in Slots
<1>1. FirstWaiting \in 0 .. KEYQUEUE_SIZE /\ length \in 0 .. KEYQUEUE_SIZE
    BY QueueAssumption, SMT DEF IndInv, TypeOK, FirstWaiting
<1>2. \A i \in 1 .. length : SlotOf(i) \in Slots
    BY <1>1, ModInSlots, QueueAssumption, SMT DEF SlotOf
<1>3. queue \in [Slots -> Keys \cup {NUL}]
    BY DEF IndInv, TypeOK
<1>4. Waiting = [i \in 1 .. length |-> queue[SlotOf(i)]]
    BY DEF Waiting, SlotOf
<1>5. \A i \in 1 .. length : queue[SlotOf(i)] \in Keys \cup {NUL}
    BY <1>2, <1>3
<1>6. length \in Nat
    BY <1>1, QueueAssumption, SMT
<1>7. Waiting \in [1 .. length -> Keys \cup {NUL}]
    BY <1>4, <1>5
<1>8. Waiting \in Seq(Keys \cup {NUL}) /\ Len(Waiting) = length
    BY <1>6, <1>7, SMT
<1>. QED
    BY <1>2, <1>4, <1>8

(* What Append builds, position by position. *)
LEMMA AppendAsFunction ==
    ASSUME NEW S, NEW s \in Seq(S), NEW e, e \in S
    PROVE  Append(s, e) = [i \in 1 .. Len(s) + 1 |->
                             IF i = Len(s) + 1 THEN e ELSE s[i]]
<1>1. /\ Append(s, e) \in Seq(S)
      /\ Len(Append(s, e)) = Len(s) + 1
      /\ \A i \in 1 .. Len(s) : Append(s, e)[i] = s[i]
      /\ Append(s, e)[Len(s) + 1] = e
    BY AppendProperties
<1>2. Append(s, e) \in [1 .. Len(s) + 1 -> S]
    BY <1>1, LenProperties
<1>3. \A i \in 1 .. Len(s) + 1 : i # Len(s) + 1 => i \in 1 .. Len(s)
    BY LenProperties, SMT
<1>. QED
    BY <1>1, <1>2, <1>3

(* Outside the three windows the interrupt appends its key to the abstract *)
(* queue, or drops it when the queue is full.                              *)
LEMMA PushRefines ==
    ASSUME IndInv, Harmless, NEW k \in Keys, push_key_queue(k)
    PROVE  Fifo!Push(k)
<1>. DEFINE at == (start + length) % KEYQUEUE_SIZE
<1>1. /\ start \in 0 .. KEYQUEUE_SIZE
      /\ length \in 0 .. KEYQUEUE_SIZE
      /\ FirstWaiting = start
      /\ UNCHANGED <<start, pc, reg, key>>
      /\ FirstWaiting' = start
    BY DEF IndInv, TypeOK, Harmless, push_key_queue, FirstWaiting
<1>2. CASE key_queue_isfull
  <2>1. UNCHANGED <<queue, length, start, pc, reg, key>>
      BY <1>1, <1>2 DEF push_key_queue
  <2>2. Waiting' = Waiting /\ Popped' = Popped
      BY <1>1, <2>1 DEF Waiting, Popped
  <2>3. Len(Waiting) = length
      BY WaitingSeq
  <2>4. ~(Len(Waiting) < KEYQUEUE_SIZE)
      BY <1>1, <1>2, <2>3, QueueAssumption, SMT DEF key_queue_isfull
  <2>. QED
      BY <2>2, <2>4 DEF Fifo!Push
<1>3. CASE ~key_queue_isfull
  <2>1. queue' = [queue EXCEPT ![at] = k] /\ length' = length + 1
      BY <1>3 DEF push_key_queue
  <2>2. length < KEYQUEUE_SIZE
      BY <1>1, <1>3, QueueAssumption, SMT DEF key_queue_isfull
  <2>3. at \in Slots
      BY <1>1, ModInSlots, QueueAssumption, SMT
  <2>4. queue \in [Slots -> Keys \cup {NUL}]
      BY DEF IndInv, TypeOK
  <2>5. \A i \in 1 .. length : SlotOf(i) # at
      BY <1>1, <2>2, ModOneWrap, QueueAssumption, SMT DEF SlotOf
  <2>6. Popped' = Popped
    <3>1. CASE pc = "fetch"
      <4>1. reg \in Slots /\ start = reg + 1 /\ length < KEYQUEUE_SIZE - 1
          BY <3>1 DEF IndInv, Harmless
      <4>2. at # reg
          BY <1>1, <4>1, ModOneWrap, QueueAssumption, SMT DEF Slots
      <4>. QED
          BY <1>1, <2>1, <2>4, <3>1, <4>1, <4>2 DEF Popped
    <3>2. CASE pc # "fetch"
        BY <1>1, <3>2 DEF Popped, Harmless
    <3>. QED
        BY <3>1, <3>2
  <2>7. IndInv'
      BY InterruptKeepsInv
  <2>8. Waiting' = Append(Waiting, k)
    <3>1. Waiting' = [i \in 1 .. length + 1 |->
                        [queue EXCEPT ![at] = k][(start + i - 1) % KEYQUEUE_SIZE]]
        BY <1>1, <2>1 DEF Waiting
    <3>2. \A i \in 1 .. length :
             [queue EXCEPT ![at] = k][(start + i - 1) % KEYQUEUE_SIZE] = Waiting[i]
      <4>. TAKE i \in 1 .. length
      <4>1. SlotOf(i) = (start + i - 1) % KEYQUEUE_SIZE
          BY <1>1 DEF SlotOf
      <4>2. SlotOf(i) \in Slots /\ Waiting[i] = queue[SlotOf(i)]
          BY WaitingSeq
      <4>. QED
          BY <2>4, <2>5, <4>1, <4>2
    <3>3. [queue EXCEPT ![at] = k][(start + (length + 1) - 1) % KEYQUEUE_SIZE] = k
      <4>1. start + (length + 1) - 1 = start + length
          BY <1>1, QueueAssumption, SMT
      <4>. QED
          BY <2>3, <2>4, <4>1
    <3>4. Waiting \in Seq(Keys \cup {NUL}) /\ Len(Waiting) = length
        BY WaitingSeq
    <3>5. length \in Nat
        BY <1>1, QueueAssumption, SMT
    <3>. HIDE DEF at
    <3>6. Append(Waiting, k) = [i \in 1 .. length + 1 |->
                                  IF i = length + 1 THEN k ELSE Waiting[i]]
        BY <3>4, AppendAsFunction
    <3>7. \A i \in 1 .. length + 1 : i # length + 1 => i \in 1 .. length
        BY <3>5, SMT
    <3>8. \A i \in 1 .. length + 1 :
             [queue EXCEPT ![at] = k][(start + i - 1) % KEYQUEUE_SIZE]
               = IF i = length + 1 THEN k ELSE Waiting[i]
        BY <3>2, <3>3, <3>7
    <3>. QED
        BY <3>1, <3>6, <3>8
  <2>9. Len(Waiting) < KEYQUEUE_SIZE
      BY <2>2, WaitingSeq
  <2>. QED
      BY <2>6, <2>8, <2>9 DEF Fifo!Push
<1>. QED
    BY <1>2, <1>3

(* However earlier interrupts have damaged the queue, one that comes       *)
(* outside the three windows of pop_key_queue appends its key to it.       *)
THEOREM HarmlessPushAlways == Spec => HarmlessPush
<1>1. IndInv => [\A k \in Keys : Harmless /\ push_key_queue(k) => Fifo!Push(k)]_vars
    BY PushRefines
<1>. QED
    BY <1>1, Invariance, PTL DEF HarmlessPush

-----------------------------------------------------------------------------
(* The ring buffer implements the abstract queue when no key arrives in    *)
(* one of the three windows.                                               *)

(* With the windows closed, the register holds the current length and      *)
(* there is room for the key being popped until it has been read.          *)
QuietInv ==
    /\ IndInv
    /\ pc = "store" => reg = length
    /\ pc \in {"advance", "fetch"} => length < KEYQUEUE_SIZE

(* With the windows closed the empty queue has the stronger invariant ... *)
LEMMA QuietInitInv == Init => QuietInv
BY InitInv DEF Init, QuietInv

(* ... and no step that spares them breaks it. *)
LEMMA QuietNextKeepsInv == QuietInv /\ [QuietNext]_vars => QuietInv'
<1>. SUFFICES ASSUME QuietInv, [QuietNext]_vars PROVE QuietInv'
    OBVIOUS
<1>1. IndInv'
  <2>1. [Next]_vars
      BY DEF QuietNext, Next
  <2>. QED
      BY <2>1, NextKeepsInv DEF QuietInv
<1>2. CASE Harmless /\ Interrupt
    BY <1>1, <1>2, QueueAssumption, SMT
    DEF QuietInv, IndInv, TypeOK, Interrupt, push_key_queue, Harmless
<1>3. CASE MainStep
  <2>1. CASE LoadLength
      BY <1>1, <2>1 DEF QuietInv, LoadLength
  <2>2. CASE StoreLength
    <3>1. reg \in 1 .. KEYQUEUE_SIZE /\ length' = Dec(reg) /\ pc' = "advance"
        BY <2>2, QueueAssumption, SMT
        DEF QuietInv, IndInv, TypeOK, TestStaysGood, StoreLength
    <3>2. length' < KEYQUEUE_SIZE
        BY <3>1, QueueAssumption, SMT DEF Dec
    <3>. QED
        BY <1>1, <3>1, <3>2 DEF QuietInv
  <2>3. CASE AdvanceStart
      BY <1>1, <2>3 DEF QuietInv, AdvanceStart
  <2>4. CASE Redraw \/ TestEmpty \/ GuardEmpty \/ FetchSlot \/ WrapStart \/ UseKey
    <3>1. pc' \notin {"store", "advance", "fetch"}
        BY <2>4 DEF Redraw, TestEmpty, GuardEmpty, FetchSlot, WrapStart, UseKey
    <3>. QED
        BY <1>1, <3>1 DEF QuietInv
  <2>. QED
      BY <1>3, <2>1, <2>2, <2>3, <2>4 DEF MainStep
<1>4. CASE UNCHANGED vars
    BY <1>1, <1>4 DEF QuietInv, vars
<1>. QED
    BY <1>2, <1>3, <1>4 DEF QuietNext

(* A step that leaves the buffer and its first waiting slot alone leaves   *)
(* the abstract queue alone.                                               *)
LEMMA SameWaiting ==
    ASSUME UNCHANGED <<queue, length>>, FirstWaiting' = FirstWaiting
    PROVE  Waiting' = Waiting
BY DEF Waiting

(* Wrapping start changes no slot of the abstract queue. *)
LEMMA WrapKeepsWaiting ==
    ASSUME IndInv, WrapStart
    PROVE  Waiting' = Waiting
<1>1. /\ start \in 0 .. KEYQUEUE_SIZE
      /\ length \in 0 .. KEYQUEUE_SIZE
      /\ FirstWaiting = start
      /\ FirstWaiting' = start % KEYQUEUE_SIZE
      /\ UNCHANGED <<queue, length>>
    BY DEF IndInv, TypeOK, WrapStart, FirstWaiting
<1>2. \A i \in 1 .. length :
         ((start % KEYQUEUE_SIZE) + i - 1) % KEYQUEUE_SIZE
           = (start + i - 1) % KEYQUEUE_SIZE
    BY <1>1, ModOneWrap, QueueAssumption, SMT
<1>. QED
    BY <1>1, <1>2 DEF Waiting

(* The store of the decremented length is the moment of the pop: it takes  *)
(* the oldest key off the abstract queue.                                  *)
LEMMA StorePops ==
    ASSUME QuietInv, StoreLength
    PROVE  Fifo!Pop
<1>1. /\ IndInv
      /\ start \in Slots
      /\ length \in 1 .. KEYQUEUE_SIZE
      /\ length' = length - 1
      /\ UNCHANGED <<queue, start, reg, key>>
      /\ FirstWaiting = start
      /\ FirstWaiting' = start + 1
      /\ pc' = "advance"
    BY QueueAssumption, SMT
    DEF QuietInv, IndInv, TypeOK, TestStaysGood, StoreLength, Dec, Slots,
        FirstWaiting
<1>2. /\ Waiting \in Seq(Keys \cup {NUL})
      /\ Len(Waiting) = length
      /\ \A i \in 1 .. length : Waiting[i] = queue[SlotOf(i)]
    BY <1>1, WaitingSeq
<1>3. Waiting # <<>>
    BY <1>1, <1>2, QueueAssumption, SMT
<1>4. Popped' = Head(Waiting)
  <2>1. SlotOf(1) = start
      BY <1>1, ModOneWrap, QueueAssumption, SMT DEF SlotOf, Slots
  <2>2. 1 \in 1 .. length
      BY <1>1, QueueAssumption, SMT
  <2>3. Waiting[1] = queue[start]
      BY <1>2, <2>1, <2>2
  <2>4. Popped' = queue[start]
      BY <1>1 DEF Popped
  <2>5. Head(Waiting) = Waiting[1]
      BY <1>2, <1>3, SMT
  <2>. QED
      BY <2>3, <2>4, <2>5
<1>5. Waiting' = Tail(Waiting)
  <2>1. IndInv'
      BY <1>1, MainStepKeepsInv DEF MainStep
  <2>2. /\ Waiting' \in Seq(Keys \cup {NUL})
        /\ Len(Waiting') = length - 1
        /\ \A i \in 1 .. length - 1 :
              Waiting'[i] = queue[(start + 1 + i - 1) % KEYQUEUE_SIZE]
    <3>1. Waiting' = [i \in 1 .. length - 1 |->
                        queue[(start + 1 + i - 1) % KEYQUEUE_SIZE]]
        BY <1>1 DEF Waiting
    <3>2. \A i \in 1 .. length - 1 :
            /\ (start + 1 + i - 1) % KEYQUEUE_SIZE \in Slots
            /\ queue[(start + 1 + i - 1) % KEYQUEUE_SIZE] \in Keys \cup {NUL}
      <4>. TAKE i \in 1 .. length - 1
      <4>1. start + 1 + i - 1 \in Nat
          BY <1>1, QueueAssumption, SMT DEF Slots
      <4>2. queue \in [Slots -> Keys \cup {NUL}]
          BY <1>1 DEF IndInv, TypeOK
      <4>. QED
          BY <4>1, <4>2, ModInSlots
    <3>3. length - 1 \in Nat
        BY <1>1, QueueAssumption, SMT
    <3>4. Waiting' \in [1 .. length - 1 -> Keys \cup {NUL}]
        BY <3>1, <3>2
    <3>5. Waiting' \in Seq(Keys \cup {NUL}) /\ Len(Waiting') = length - 1
        BY <3>3, <3>4, SMT
    <3>. QED
        BY <3>1, <3>5
  <2>3. /\ Tail(Waiting) \in Seq(Keys \cup {NUL})
        /\ Len(Tail(Waiting)) = length - 1
        /\ \A i \in 1 .. length - 1 : Tail(Waiting)[i] = Waiting[i + 1]
      BY <1>2, <1>3, HeadTailProperties
  <2>4. \A i \in 1 .. length - 1 : Waiting'[i] = Tail(Waiting)[i]
    <3>. TAKE i \in 1 .. length - 1
    <3>1. i + 1 \in 1 .. length
        BY <1>1, QueueAssumption, SMT
    <3>2. Waiting[i + 1] = queue[SlotOf(i + 1)]
        BY <1>2, <3>1
    <3>3. SlotOf(i + 1) = (start + 1 + i - 1) % KEYQUEUE_SIZE
      <4>1. start + (i + 1) - 1 = start + 1 + i - 1
          BY <1>1, QueueAssumption, SMT DEF Slots
      <4>. QED
          BY <1>1, <4>1 DEF SlotOf
    <3>. QED
        BY <2>2, <2>3, <3>2, <3>3
  <2>. QED
      BY <2>2, <2>3, <2>4, SeqEqual
<1>. QED
    BY <1>3, <1>4, <1>5 DEF Fifo!Pop

(* Every other statement of the main loop is a stutter of the queue. *)
LEMMA OthersStutter ==
    ASSUME QuietInv, MainStep, ~StoreLength
    PROVE  UNCHANGED <<Waiting, Popped>>
<1>1. IndInv
    BY DEF QuietInv
<1>2. CASE Redraw \/ TestEmpty \/ LoadLength \/ UseKey
  <2>1. /\ UNCHANGED <<queue, start, length, key>>
        /\ pc \notin {"advance", "fetch"}
        /\ pc' \notin {"advance", "fetch"}
      BY <1>2 DEF Redraw, TestEmpty, LoadLength, UseKey
  <2>. QED
      BY <2>1, SameWaiting DEF FirstWaiting, Popped
<1>3. CASE GuardEmpty
  <2>1. length # 0
      BY <1>1, <1>3, QueueAssumption, SMT
      DEF IndInv, TypeOK, TestStaysGood, GuardEmpty
  <2>2. /\ UNCHANGED <<queue, start, length, key>>
        /\ pc \notin {"advance", "fetch"}
        /\ pc' \notin {"advance", "fetch"}
      BY <1>3, <2>1 DEF GuardEmpty, key_queue_isempty
  <2>. QED
      BY <2>2, SameWaiting DEF FirstWaiting, Popped
<1>4. CASE AdvanceStart
  <2>1. /\ pc = "advance" /\ pc' = "fetch"
        /\ reg' = start /\ start' = start + 1
        /\ UNCHANGED <<queue, length>>
      BY <1>4 DEF AdvanceStart
  <2>. QED
      BY <2>1, SameWaiting DEF FirstWaiting, Popped
<1>5. CASE FetchSlot
  <2>1. /\ pc = "fetch" /\ pc' = "wrap"
        /\ key' = queue[reg]
        /\ UNCHANGED <<queue, start, length>>
      BY <1>5 DEF FetchSlot
  <2>. QED
      BY <2>1, SameWaiting DEF FirstWaiting, Popped
<1>6. CASE WrapStart
  <2>1. pc = "wrap" /\ pc' = "use" /\ UNCHANGED key
      BY <1>6 DEF WrapStart
  <2>. QED
      BY <1>1, <1>6, <2>1, WrapKeepsWaiting DEF Popped
<1>. QED
    BY <1>2, <1>3, <1>4, <1>5, <1>6 DEF MainStep

(* When no key arrives in one of the three windows, the ring buffer is a   *)
(* bounded first-in first-out queue: no key is lost, repeated, overtaken   *)
(* or made up.                                                             *)
THEOREM QuietImplementsFifo == QuietSpec => Fifo!Safety
<1>1. Init => Fifo!Init
  <2>. SUFFICES ASSUME Init PROVE Fifo!Init
      OBVIOUS
  <2>1. IndInv /\ length = 0
      BY InitInv DEF Init
  <2>2. Waiting = <<>>
    <3>1. Waiting \in Seq(Keys \cup {NUL}) /\ Len(Waiting) = 0
        BY <2>1, WaitingSeq
    <3>. QED
        BY <3>1, EmptySeq
  <2>3. Popped \notin Keys
      BY QueueAssumption DEF Init, Popped
  <2>. QED
      BY <2>2, <2>3 DEF Fifo!Init
<1>2. QuietInv /\ [QuietNext]_vars => [Fifo!Next]_(Fifo!vars)
  <2>. SUFFICES ASSUME QuietInv, [QuietNext]_vars
                PROVE  Fifo!Next \/ UNCHANGED <<Waiting, Popped>>
      BY DEF Fifo!vars
  <2>1. CASE Harmless /\ Interrupt
      BY <2>1, PushRefines DEF QuietInv, Interrupt, Fifo!Next
  <2>2. CASE StoreLength
      BY <2>2, StorePops DEF Fifo!Next
  <2>3. CASE MainStep /\ ~StoreLength
      BY <2>3, OthersStutter
  <2>4. CASE UNCHANGED vars
      BY <2>4 DEF vars, Waiting, Popped, FirstWaiting
  <2>. QED
      BY <2>1, <2>2, <2>3, <2>4 DEF QuietNext
<1>. QED
    BY <1>1, <1>2, QuietInitInv, QuietNextKeepsInv, PTL
    DEF QuietSpec, Fifo!Safety
=============================================================================
