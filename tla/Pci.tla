-------------------------------- MODULE Pci ---------------------------------
(***************************************************************************)
(* Finding the SATA controller and setting it up: the configuration        *)
(* accesses of kernel/pci.c and their use in _start (kernel.c).            *)
(*                                                                         *)
(* The bus is modelled by the functions on it and four of their registers: *)
(* the class, base address register 5, and of the command and status       *)
(* registers, which share a double word, the bits that matter here.        *)
(* A status bit is cleared by writing a one to it; an address register     *)
(* that is written with ones reads as the mask of its size; a function     *)
(* that is not there reads as ones.                                        *)
(***************************************************************************)
EXTENDS Naturals, FiniteSets

CONSTANTS BusCount,     \* buses, 256 in the code
          DeviceCount,  \* devices on a bus: 32, as the address has 5 bits
          SlotCount,    \* slots the scan looks at, 256 in the code
          FnCount,      \* functions of a device, 8
          MaxDevices    \* bound on the devices there are

(* DiskPhase assumes it. *)
PciAssumption ==
    /\ {BusCount, DeviceCount, SlotCount, FnCount} \subseteq Nat \ {0}
    /\ BusCount <= 256
    /\ DeviceCount <= SlotCount
    /\ SlotCount <= DeviceCount * BusCount

VARIABLES step,      \* what _start does next
          at,        \* l, i and fn of the three loops
          found,     \* pci_bus, pci_slot and pci_fn, or NotFound
          bar_val,   \* the address register as it was read
          functions  \* the registers of each function on the bus

vars == <<step, at, found, bar_val, functions>>

Locations == [bus : 0 .. BusCount - 1, device : 0 .. DeviceCount - 1,
              fn : 0 .. FnCount - 1]

Scanned == [bus : 0 .. BusCount - 1, slot : 0 .. SlotCount - 1,
            fn : 0 .. FnCount - 1]

NotFound == [bus |-> 0, slot |-> SlotCount, fn |-> 0]

SATA == "0x0106"

(* Function 0 is there on every device. *)
DevicesOf(S) == {[loc EXCEPT !.fn = 0] : loc \in S}

Init == /\ step = "scan"
        /\ at = [bus |-> 0, slot |-> 0, fn |-> 0]
        /\ found = NotFound
        /\ bar_val = "unset"
        /\ \E there \in {S \in SUBSET Locations : Cardinality(S) <= MaxDevices * FnCount} :
             /\ DevicesOf(there) \subseteq there
             /\ Cardinality(DevicesOf(there)) <= MaxDevices
             /\ \E sata \in SUBSET there, errors \in BOOLEAN :
                  functions = [loc \in there |->
                      [class |-> IF loc \in sata THEN SATA ELSE "other",
                       bar |-> "bios", intxOff |-> TRUE, busMaster |-> FALSE,
                       errors |-> errors]]

-----------------------------------------------------------------------------
(* Configuration accesses.                                                 *)

(* Bitwise or of two bytes.  (That of the module Bitwise is recursive,     *)
(* which the provers cannot expand.)                                       *)
Weights == {1, 2, 4, 8, 16, 32, 64, 128}
Bit(n, weight) == (n \div weight) % 2

BitOr(m, n) == CHOOSE k \in 0 .. 255 :
    \A w \in Weights : Bit(k, w) = 1 <=> Bit(m, w) = 1 \/ Bit(n, w) = 1

(* The address ORs the slot, shifted by 11, to the bus, shifted by 16: a   *)
(* slot beyond the 5 bits of the device number goes on into those of the   *)
(* bus number.  This is how the scan finds controllers on other buses, and *)
(* it prints them as slots of bus 0.                                       *)
Address(bus, slot, fn) ==
    [bus |-> BitOr(bus, slot \div DeviceCount), device |-> slot % DeviceCount,
     fn |-> fn]

(* pci_config_read_u16 of the class, at offset 10. *)
read_class(bus, slot, fn) ==
    LET loc == Address(bus, slot, fn)
    IN  IF loc \in DOMAIN functions THEN functions[loc].class ELSE "0xffff"

pci_device_exists(bus, slot) == Address(bus, slot, 0) \in DOMAIN functions

(* The function of the controller that was found. *)
Controller == Address(found.bus, found.slot, found.fn)

-----------------------------------------------------------------------------
(* The scan.                                                               *)

(* The next turn of the three loops. *)
Following(p) ==
    CASE p.fn < FnCount - 1 -> [p EXCEPT !.fn = @ + 1]
      [] p.fn = FnCount - 1 /\ p.slot < SlotCount - 1 ->
           [p EXCEPT !.fn = 0, !.slot = @ + 1]
      [] OTHER -> [bus |-> p.bus + 1, slot |-> 0, fn |-> 0]

\* Faulty variants, here and below, are in no specification: a run that put
\* one in the place of its original must fail.
\* Faulty: the other functions of a device are looked at only when function 0
\* is a controller.
scan_first_function ==
    /\ step = "scan"
    /\ IF /\ pci_device_exists(at.bus, at.slot)
          /\ read_class(at.bus, at.slot, 0) = SATA
         THEN step' = "size" /\ found' = at /\ UNCHANGED at
         ELSE /\ step' = IF Following(at).bus = BusCount THEN "exit" ELSE "scan"
              /\ at' = Following(at)
              /\ UNCHANGED found
    /\ UNCHANGED <<bar_val, functions>>

Scan ==
    /\ step = "scan"
    /\ IF /\ pci_device_exists(at.bus, at.slot)
          /\ read_class(at.bus, at.slot, at.fn) = SATA
         THEN step' = "size" /\ found' = at /\ UNCHANGED at
         ELSE /\ step' = IF Following(at).bus = BusCount THEN "exit" ELSE "scan"
              /\ at' = Following(at)
              /\ UNCHANGED found
    /\ UNCHANGED <<bar_val, functions>>

-----------------------------------------------------------------------------
(* Setting the controller up.                                              *)

(* The base address is read, and replaced by ones to learn the size. *)
SizeBar == /\ step = "size"
           /\ bar_val' = functions[Controller].bar
           /\ functions' = [functions EXCEPT ![Controller].bar = "mask"]
           /\ step' = "restore"
           /\ UNCHANGED <<at, found>>

\* Faulty: what is written back was read after the ones were written.
RestoreMask == /\ step = "restore"
               /\ bar_val' = functions[Controller].bar
               /\ functions' = [functions EXCEPT ![Controller].bar = bar_val']
               /\ step' = "command"
               /\ UNCHANGED <<at, found>>

RestoreBar == /\ step = "restore"
              /\ functions' = [functions EXCEPT ![Controller].bar = bar_val]
              /\ step' = "command"
              /\ UNCHANGED <<at, found, bar_val>>

(* pci_config_write_u16 writes both halves of the double word, the status  *)
(* half as it has read it: this clears the error bits that are set.        *)
SetCommand ==
    /\ step = "command"
    /\ functions' = [functions EXCEPT ![Controller].intxOff = FALSE,
                                      ![Controller].busMaster = TRUE,
                                      ![Controller].errors = FALSE]
    /\ step' = "exit"
    /\ UNCHANGED <<at, found, bar_val>>

Next == Scan \/ SizeBar \/ RestoreBar \/ SetCommand

Spec == Init /\ [][Next]_vars

-----------------------------------------------------------------------------
(* Properties.                                                             *)

Controllers == {loc \in DOMAIN functions : functions[loc].class = SATA}

(* The scan ends with a controller if there is one, on whatever bus it is, *)
(* although function 0 of its device may be something else; and what it    *)
(* ends with is a controller.                                              *)
FindsController ==
    /\ found # NotFound => Controller \in Controllers
    /\ step = "exit" /\ Controllers # {} => found # NotFound
=============================================================================
