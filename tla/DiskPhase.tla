----------------------------- MODULE DiskPhase ------------------------------
(***************************************************************************)
(* The part of the boot that reads from the disk (kernel.c:386-484): the   *)
(* scan for a SATA controller and its setup (Pci), and then, if there is   *)
(* one, the AHCI driver (Ahci).  The driver reaches the registers of the   *)
(* HBA at the address Pci has read, and the HBA reaches memory only while  *)
(* it is a bus master.                                                     *)
(***************************************************************************)
EXTENDS Ahci

CONSTANTS BusCount, DeviceCount, SlotCount, FnCount, MaxDevices

VARIABLES step, at, found, bar_val, functions

P == INSTANCE Pci

ASSUME DiskPhaseAssumption == P!PciAssumption

pciVars == <<step, at, found, bar_val, functions>>
ahciVars == <<vars, frail>>

-----------------------------------------------------------------------------
DiskInit == Init /\ P!Init

(* if (found == 0) goto exit_pci_section; *)
SkipDriver == /\ step = "exit" /\ found = P!NotFound
              /\ pc = "stop ST" /\ pc' = "loop"
              /\ UNCHANGED <<port, ghc, hba, spin, slot, buf, answer, memory, frail>>

HbaInUse == step = "exit" /\ found # P!NotFound

DiskNext == \/ P!Next /\ UNCHANGED ahciVars
            \/ SkipDriver /\ UNCHANGED pciVars
            \/ HbaInUse /\ Next /\ UNCHANGED pciVars

(* The kernel runs, and the HBA goes on with what it has begun. *)
DiskSpec == /\ DiskInit
            /\ [][DiskNext]_<<ahciVars, pciVars>>
            /\ WF_pciVars(P!Next)
            /\ WF_vars(SkipDriver)
            /\ WF_vars(HbaInUse /\ Driver)
            /\ WF_vars(HbaInUse /\ EnginesFollow)
            /\ WF_vars(HbaInUse /\ ResetDone)
            /\ WF_vars(HbaInUse /\ Fetch)
            /\ WF_vars(HbaInUse /\ Transfer)
            /\ WF_vars(HbaInUse /\ Complete)

-----------------------------------------------------------------------------
(* Properties, besides those of Ahci.                                      *)

(* The scan ends with a controller if there is one, on whatever bus it is, *)
(* although function 0 of its device may be something else; and what it    *)
(* ends with is a controller (kernel.c:393-410).                           *)
FindsController == P!FindsController

(* While the driver runs, the controller answers at the address the driver *)
(* uses, which is the one the BIOS gave it, although its address register  *)
(* has been overwritten to learn its size, and every transfer finds it     *)
(* allowed to reach memory (kernel.c:425-440).                             *)
HbaReachable ==
    HbaInUse => /\ functions[P!Controller].bar = bar_val
                /\ bar_val = "bios"
                /\ hba \in {"running", "transferred"} =>
                     functions[P!Controller].busMaster
=============================================================================
