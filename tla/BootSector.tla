----------------------------- MODULE BootSector -----------------------------
(***************************************************************************)
(* boot_sect.asm: the BIOS has loaded the first sector of the disk and     *)
(* jumps to it; it reads KERNEL_SIZE sectors from the second one on with   *)
(* int 0x13, looks at the result, enters protected mode and calls what it  *)
(* has read.  The display strings and the descriptor tables are left out.  *)
(*                                                                         *)
(* The BIOS: when it can read all that is asked for it clears the carry    *)
(* flag and returns the number of sectors in al.  Otherwise it sets the    *)
(* carry flag; some of the sectors may have been read, and what al tells   *)
(* is up to the BIOS.  A disk that ends before the last sector asked for   *)
(* is such a failure: the image has no more sectors than the kernel fills. *)
(***************************************************************************)
EXTENDS Naturals

CONSTANT KERNEL_SIZE  \* sectors to read, 127 in the code

VARIABLES sector,  \* the next step of the boot sector
          disk,    \* sectors on the disk after the boot sector
          dh,      \* the number of sectors it has asked for
          al,      \* the number the BIOS says it has read
          carry,   \* the carry flag
          reported,\* history: the BIOS has reported an error
          memory   \* sectors of the kernel that are in memory

sectorVars == <<sector, disk, dh, al, carry, reported, memory>>

Min2(a, b) == IF a < b THEN a ELSE b

SectorInit ==
    /\ sector = "off"
    /\ disk = 0
    /\ dh = 0 /\ al = 0 /\ carry = FALSE
    /\ reported = FALSE
    /\ memory = 0

(* qemu starts with an image of n sectors behind the boot sector. *)
PowerOn(n) ==
    /\ sector = "off" /\ sector' = "disk_load"
    /\ disk' = n
    /\ UNCHANGED <<dh, al, carry, reported, memory>>

\* Faulty variants, here and below, are in no specification: a run that put
\* one in the place of its original must fail.
\* Faulty: KERNEL_SIZE counts the boot sector, too.
ReadOneLess ==
    /\ sector = "disk_load"
    /\ dh' = KERNEL_SIZE - 1
    /\ \/ /\ dh' <= disk
          /\ al' = dh' /\ carry' = FALSE /\ memory' = dh'
       \/ /\ carry' = TRUE
          /\ al' \in 0 .. KERNEL_SIZE + 1
          /\ memory' \in 0 .. Min2(dh', disk)
    /\ reported' = carry'
    /\ sector' = "compare"
    /\ UNCHANGED disk

(* mov dh, KERNEL_SIZE; mov al, dh; int 0x13 *)
ReadSectors ==
    /\ sector = "disk_load"
    /\ dh' = KERNEL_SIZE
    /\ \/ /\ dh' <= disk
          /\ al' = dh' /\ carry' = FALSE /\ memory' = dh'
       \/ /\ carry' = TRUE
          /\ al' \in 0 .. KERNEL_SIZE + 1
          /\ memory' \in 0 .. Min2(dh', disk)
    /\ reported' = carry'
    /\ sector' = "compare"
    /\ UNCHANGED disk

\* Faulty: `; jc disk_error' of line 106 is no comment.
CompareCarryFirst ==
    /\ sector = "compare"
    /\ carry' = (dh < al)
    /\ sector' = IF carry THEN "disk_error" ELSE "branch"
    /\ UNCHANGED <<disk, dh, al, reported, memory>>

(* pop dx; cmp dh, al: the carry flag is now that of the comparison. *)
Compare ==
    /\ sector = "compare"
    /\ carry' = (dh < al)
    /\ sector' = "branch"
    /\ UNCHANGED <<disk, dh, al, reported, memory>>

(* je disk_load_end; jc disk_error.  popa restores the registers. *)
Branch ==
    /\ sector = "branch"
    /\ IF carry /\ dh # al
         THEN sector' = "disk_error" /\ UNCHANGED <<dh, al, carry>>
         ELSE sector' = "protected_mode" /\ dh' = 0 /\ al' = 0 /\ carry' = FALSE
    /\ UNCHANGED <<disk, reported, memory>>

(* switch_to_pm, protected_mode: call KERNEL_OFFSET *)
CallKernel ==
    /\ sector = "protected_mode" /\ sector' = "kernel"
    /\ UNCHANGED <<disk, dh, al, carry, reported, memory>>

SectorStep == ReadSectors \/ Compare \/ Branch \/ CallKernel

-----------------------------------------------------------------------------
(* Properties.                                                             *)

(* The boot sector stops only where the BIOS says that it has read more    *)
(* than it was asked for: `ignore error if it is about wrong number of     *)
(* sectors read' (boot_sect.asm:119).  It must go on after the error that  *)
(* every image shorter than KERNEL_SIZE causes.                            *)
StopsOnExcessOnly ==
    sector = "disk_error" => reported /\ al > KERNEL_SIZE

=============================================================================
