------------------------------ MODULE KeyFifo -------------------------------
(***************************************************************************)
(* What the kernel's key queue promises: a bounded first-in first-out      *)
(* queue between the keyboard interrupt and the main loop.  A key that     *)
(* arrives while the queue is full is dropped; every other key is handed   *)
(* to the main loop exactly once, in the order it was pushed.              *)
(***************************************************************************)
EXTENDS Naturals, Sequences

CONSTANTS Capacity,  \* how many keys the queue holds
          Keys       \* the characters the keyboard interrupt pushes

VARIABLES fifo,      \* the keys waiting, oldest first
          popped     \* the key the main loop took last

vars == <<fifo, popped>>

Init == /\ fifo = <<>>
        /\ popped \notin Keys

(* A full queue drops the new key and keeps the old ones. *)
Push(k) == /\ fifo' = IF Len(fifo) < Capacity THEN Append(fifo, k) ELSE fifo
           /\ UNCHANGED popped

Pop == /\ fifo # <<>>
       /\ popped' = Head(fifo)
       /\ fifo' = Tail(fifo)

Next == Pop \/ \E k \in Keys : Push(k)

Safety == Init /\ [][Next]_vars

(* The consumer never gives up: a waiting key is taken in the end. *)
Spec == Safety /\ WF_vars(Pop)
=============================================================================
