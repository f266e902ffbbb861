------------------------------- MODULE MCAhci -------------------------------
(* The instances of the AHCI driver that TLC explores. *)
EXTENDS Ahci
=============================================================================
