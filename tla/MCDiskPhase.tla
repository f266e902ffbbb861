---------------------------- MODULE MCDiskPhase -----------------------------
(* The instances of the boot's disk phase that TLC explores. *)
EXTENDS DiskPhase
=============================================================================
