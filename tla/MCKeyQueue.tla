----------------------------- MODULE MCKeyQueue -----------------------------
(* The instances of the key queue that TLC explores. *)
EXTENDS KeyQueue
=============================================================================
