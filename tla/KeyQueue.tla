------------------------------ MODULE KeyQueue ------------------------------
(***************************************************************************)
(* The ring buffer `struct KeyQueue` of kernel/keyboard.c, shared between  *)
(* the keyboard interrupt (producer, push_key_queue) and the main loop of  *)
(* _start (consumer, key_queue_isempty and pop_key_queue).                 *)
(*                                                                         *)
(* The interrupt enters through an interrupt gate, so it runs to its end   *)
(* with interrupts off: push_key_queue is one action.  The main loop runs  *)
(* with interrupts on and takes no lock, so the interrupt may come between *)
(* any two memory accesses of pop_key_queue: each access to a field the    *)
(* interrupt reads or writes is an action of its own, in the order of the  *)
(* statements (and of the unoptimised code of build/kernel.o, where        *)
(* `length--` is a load, a decrement and a store).  Loads of `start` are   *)
(* joined with the store that follows: only the main loop writes `start`.  *)
(***************************************************************************)
EXTENDS Naturals, Sequences

CONSTANTS KEYQUEUE_SIZE,  \* 128 in kernel/headers/keyboard.h
          Keys,           \* the non-zero characters the interrupt pushes
          NUL,            \* the character '\0'
          MaxU32          \* the largest u32

ASSUME QueueAssumption == /\ KEYQUEUE_SIZE \in Nat \ {0}
                          /\ MaxU32 \in Nat
                          /\ MaxU32 > KEYQUEUE_SIZE
                          /\ NUL \notin Keys

VARIABLES queue,   \* KeyQueue.queue
          start,   \* KeyQueue.start
          length,  \* KeyQueue.length
          pc,      \* the statement the main loop executes next
          reg,     \* the register a load of the main loop went to
          key      \* the local `key` of _start, through pop's `val`

vars == <<queue, start, length, pc, reg, key>>

Slots == 0 .. KEYQUEUE_SIZE - 1

(* Where the main loop is:
     "loop"     while (!key_queue_isempty(..))      kernel.c:534
     "guard"    if (key_queue_isempty(queue))       keyboard.c:45
     "load"     queue->length--, the load           keyboard.c:47
     "store"    queue->length--, the store          keyboard.c:47
     "advance"  queue->start++                      keyboard.c:48
     "fetch"    val = queue->queue[..]              keyboard.c:48
     "wrap"     queue->start %= KEYQUEUE_SIZE       keyboard.c:49
     "use"      the switch on key                   kernel.c:537
     "redraw"   the rest of the main loop           kernel.c:496-533       *)
Labels == {"loop", "guard", "load", "store", "advance", "fetch", "wrap",
           "use", "redraw"}

(* u32 arithmetic of `length--`: decrementing 0 wraps to the largest u32. *)
Dec(x) == IF x = 0 THEN MaxU32 ELSE x - 1

(* init_ps2_keyboard, before interrupts are enabled. *)
Init == /\ queue = [i \in Slots |-> NUL]
        /\ start = 0
        /\ length = 0
        /\ pc = "redraw"
        /\ reg = 0
        /\ key = NUL

key_queue_isfull == length >= KEYQUEUE_SIZE
key_queue_isempty == length = 0

-----------------------------------------------------------------------------
(* Faulty variants of the steps below.  No specification uses them: a run  *)
(* that put one in the place of its original must fail.                    *)

push_pre_increment(k) ==
    /\ IF length >= KEYQUEUE_SIZE
         THEN UNCHANGED <<queue, length>>
         ELSE /\ queue' = [queue EXCEPT
                             ![(start + length + 1) % KEYQUEUE_SIZE] = k]
              /\ length' = length + 1
    /\ UNCHANGED <<start, pc, reg, key>>

TestAlwaysPops == /\ pc = "loop"
                  /\ pc' = "load"
                  /\ UNCHANGED <<queue, start, length, reg, key>>

StoreForgotten == /\ pc = "store"
                  /\ pc' = "advance"
                  /\ UNCHANGED <<queue, start, length, reg, key>>

FetchAdvanced == /\ pc = "fetch"
                 /\ key' = queue[start % KEYQUEUE_SIZE]
                 /\ pc' = "wrap"
                 /\ UNCHANGED <<queue, start, length, reg>>

WrapForgotten == /\ pc = "wrap"
                 /\ pc' = "use"
                 /\ UNCHANGED <<queue, start, length, reg, key>>

-----------------------------------------------------------------------------
(* The keyboard interrupt.                                                 *)

push_key_queue(k) ==
    /\ IF key_queue_isfull
         THEN UNCHANGED <<queue, length>>
         ELSE /\ queue' = [queue EXCEPT
                             ![(start + length) % KEYQUEUE_SIZE] = k]
              /\ length' = length + 1
    /\ UNCHANGED <<start, pc, reg, key>>

-----------------------------------------------------------------------------
(* The main loop.                                                          *)

Redraw == /\ pc = "redraw"
          /\ pc' = "loop"
          /\ UNCHANGED <<queue, start, length, reg, key>>

TestEmpty == /\ pc = "loop"
             /\ pc' = IF key_queue_isempty THEN "redraw" ELSE "guard"
             /\ UNCHANGED <<queue, start, length, reg, key>>

(* pop's own guard returns '\0' from an empty queue. *)
GuardEmpty == /\ pc = "guard"
              /\ IF key_queue_isempty
                   THEN pc' = "use" /\ key' = NUL
                   ELSE pc' = "load" /\ UNCHANGED key
              /\ UNCHANGED <<queue, start, length, reg>>

LoadLength == /\ pc = "load"
              /\ reg' = length
              /\ pc' = "store"
              /\ UNCHANGED <<queue, start, length, key>>

StoreLength == /\ pc = "store"
               /\ length' = Dec(reg)
               /\ pc' = "advance"
               /\ UNCHANGED <<queue, start, reg, key>>

(* The old value of start stays in the register as the slot to read. *)
AdvanceStart == /\ pc = "advance"
                /\ reg' = start
                /\ start' = start + 1
                /\ pc' = "fetch"
                /\ UNCHANGED <<queue, length, key>>

FetchSlot == /\ pc = "fetch"
             /\ key' = queue[reg]
             /\ pc' = "wrap"
             /\ UNCHANGED <<queue, start, length, reg>>

WrapStart == /\ pc = "wrap"
             /\ start' = start % KEYQUEUE_SIZE
             /\ pc' = "use"
             /\ UNCHANGED <<queue, length, reg, key>>

UseKey == /\ pc = "use"
          /\ pc' = "loop"
          /\ UNCHANGED <<queue, start, length, reg, key>>

MainStep == \/ Redraw \/ TestEmpty \/ GuardEmpty
            \/ LoadLength \/ StoreLength
            \/ AdvanceStart \/ FetchSlot \/ WrapStart
            \/ UseKey

Interrupt == \E k \in Keys : push_key_queue(k)

Next == MainStep \/ Interrupt

(* The CPU always executes the next instruction of the main loop in the    *)
(* end: every interrupt returns.  Nothing makes anybody press a key.       *)
Spec == Init /\ [][Next]_vars /\ WF_vars(MainStep)

-----------------------------------------------------------------------------
(* The abstract queue behind the buffer.                                   *)

(* From the store of the decremented length to the increment of start the  *)
(* slot of the key being popped is still the one start names.              *)
FirstWaiting == IF pc = "advance" THEN start + 1 ELSE start

Waiting == [i \in 1 .. length |->
              queue[(FirstWaiting + i - 1) % KEYQUEUE_SIZE]]

Popped == CASE pc = "advance" -> queue[start]
            [] pc = "fetch"   -> queue[reg]
            [] OTHER          -> key

Fifo == INSTANCE KeyFifo WITH Capacity <- KEYQUEUE_SIZE,
                              fifo <- Waiting, popped <- Popped

(* The moments at which an interrupt leaves the queue's promise intact.    *)
(* It does not                                                             *)
(*   - between the load and the store of `length--`: the store erases the  *)
(*     increment of the interrupt, and with it the key;                    *)
(*   - between the store of length and the increment of start: the key     *)
(*     goes to the slot of the newest waiting key, and a stale slot is     *)
(*     counted as a key;                                                   *)
(*   - between the increment of start and the read of the slot, when every *)
(*     other slot is in use: the key goes to the very slot being read.     *)
Harmless == /\ pc \notin {"store", "advance"}
            /\ pc = "fetch" => length < KEYQUEUE_SIZE - 1

(* The system in an environment where no key arrives at another moment.    *)
QuietNext == MainStep \/ (Harmless /\ Interrupt)

QuietSpec == Init /\ [][QuietNext]_vars /\ WF_vars(MainStep)

-----------------------------------------------------------------------------
(* Properties.                                                             *)

(* The fields of the queue and the locals of the main loop hold values of  *)
(* their types; start leaves the range of the slots for one statement.     *)
TypeOK == /\ queue \in [Slots -> Keys \cup {NUL}]
          /\ start \in 0 .. KEYQUEUE_SIZE
          /\ length \in 0 .. KEYQUEUE_SIZE
          /\ pc \in Labels
          /\ reg \in 0 .. KEYQUEUE_SIZE
          /\ key \in Keys \cup {NUL}

(* Wherever interrupts fall, pop_key_queue reads a slot of the array: the  *)
(* build's bounds check on queue->queue[..] never traps (keyboard.c:48).   *)
ReadsInBounds == pc = "fetch" => reg \in Slots

(* The test of kernel.c:534 is still good when pop acts on it, whatever    *)
(* interrupts did in between: pop finds a key, its guard never returns     *)
(* '\0', and `length--` (keyboard.c:47) never wraps below zero.            *)
TestStaysGood == /\ pc \in {"guard", "load"} => length > 0
                 /\ pc = "store" => 0 < reg /\ reg <= length

(* An interrupt outside the three windows appends its key behind the keys  *)
(* that wait, or drops it when the queue is full, and disturbs nothing     *)
(* else, even after earlier interrupts have damaged the queue.             *)
HarmlessPush ==
    [][\A k \in Keys : Harmless /\ push_key_queue(k) => Fifo!Push(k)]_vars

(* Once no key arrives any more, the inner loop of kernel.c:534 empties    *)
(* the queue and stays out of it.                                          *)
Drains == <>[][MainStep]_vars => <>[](key_queue_isempty /\ pc \in {"loop", "redraw"})

(* When no key arrives in one of the three windows, the ring buffer is the *)
(* promised queue: no key is lost, repeated or overtaken, and every key    *)
(* that waits is taken in the end.                                         *)
RefinesFifo == Fifo!Spec

(* The same promise with no restriction on when keys arrive; pop_key_queue *)
(* runs with interrupts on and breaks it.                                  *)
FifoDespiteInterrupts == Fifo!Safety
=============================================================================
