------------------------------- MODULE MCBoot -------------------------------
(* The way from the sources to the running kernel that TLC explores. *)
EXTENDS Boot
=============================================================================
