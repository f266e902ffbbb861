-------------------------------- MODULE Boot --------------------------------
(***************************************************************************)
(* From the sources to a kernel that serves interrupts: run.py builds the  *)
(* image (BuildScript) and starts qemu with it, the boot sector loads the  *)
(* kernel from it (BootSector), and the kernel sets up its interrupts and  *)
(* serves them (Interrupts).  Each stage takes what the one before it has  *)
(* left: the image, the sectors in memory.  What an incomplete kernel does *)
(* is not followed.                                                        *)
(***************************************************************************)
EXTENDS Interrupts, BuildScript, BootSector

CONSTANT KernelSizes  \* sectors a kernel may fill, 81 in the repository

ASSUME BootAssumption == /\ KERNEL_SIZE \in Nat \ {0}
                         /\ KernelSizes \subseteq Nat \ {0}

VARIABLE kernel  \* the sectors the kernel fills

machineVars == <<vars, user>>
bootVars == <<machineVars, buildVars, sectorVars, kernel>>

-----------------------------------------------------------------------------
BootInit == /\ Init /\ BuildInit /\ SectorInit
            /\ kernel \in KernelSizes

Building == BuildNext /\ UNCHANGED <<machineVars, sectorVars, kernel>>

(* run(), after build() has returned. *)
StartQemu ==
    /\ script = "built"
    /\ \E n \in IF image.whole THEN {kernel} ELSE 0 .. kernel - 1 : PowerOn(n)
    /\ UNCHANGED <<machineVars, buildVars, kernel>>

Loading == SectorStep /\ UNCHANGED <<machineVars, buildVars, kernel>>

WholeKernelRuns == sector = "kernel" /\ memory = kernel

Kernel(A) == WholeKernelRuns /\ A /\ UNCHANGED <<user, buildVars, sectorVars, kernel>>

BootNext == \/ Building
            \/ StartQemu
            \/ Loading
            \/ Kernel(BootStep)
            \/ Kernel(Handler)
            \/ Kernel(AcceptHighest)
            \/ Kernel(PitTick)
            \/ Kernel(TimerTick)
            \/ Kernel(KeyboardActs)

(* The script, its compilers and the machine run; for the kernel's part    *)
(* see Interrupts.                                                         *)
BootSpec == /\ BootInit /\ [][BootNext]_bootVars
            /\ WF_bootVars(Building)
            /\ WF_bootVars(StartQemu)
            /\ WF_bootVars(Loading)
            /\ SF_bootVars(Kernel(BootStep))
            /\ WF_bootVars(Kernel(Handler))
            /\ WF_bootVars(Kernel(AcceptHighest))
            /\ WF_bootVars(Kernel(PitTick))
            /\ WF_bootVars(Kernel(TimerTick))

-----------------------------------------------------------------------------
(* Properties, besides those of the three stages.                          *)

(* An incomplete kernel is called only if the BIOS has reported an error,  *)
(* cat has failed or the kernel is larger than KERNEL_SIZE; no failed      *)
(* compilation, unfinished object file or miscounted sector leads to one.  *)
IncompleteHasCause ==
    sector = "kernel" /\ memory # kernel =>
        reported \/ ~image.whole \/ kernel > KERNEL_SIZE

(* When a whole kernel has been called, on CPU 0, its clock never stops    *)
(* while the keyboard sends no reply, and the lower vectors are served too *)
(* (kernel.c:77, 383).                                                     *)
ServesAll == <>WholeKernelRuns => PitKeepsCounting /\ NobodyStarves
=============================================================================
