---------------------------- MODULE MCInterrupts ----------------------------
(* The instances of the interrupt system that TLC explores. *)
EXTENDS Interrupts
=============================================================================
