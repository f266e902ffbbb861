-------------------------------- MODULE Ahci --------------------------------
(***************************************************************************)
(* Reading one sector through AHCI at boot: port_rebase, the HBA reset and *)
(* read_bytes (kernel.c, pci.c), against the host bus adapter, which works *)
(* at its own pace.  Every access of the driver to a register that the HBA *)
(* changes is an action.                                                   *)
(*                                                                         *)
(* The HBA is modelled as far as the driver depends on it:                 *)
(*   - PxCMD.CR and FR follow ST and FRE after a while;                    *)
(*   - a reset clears the port's registers except the table addresses;     *)
(*   - PxCI can be written only while ST is set; a command is done when    *)
(*     the HBA clears its bit, after the data has been transferred;        *)
(*   - PxIS bits are cleared by writing ones to them; a task file error    *)
(*     sets bit 30, and a fatal interface error bit 27, and both stop the  *)
(*     HBA with the command's bit in PxCI still set.                       *)
(***************************************************************************)
EXTENDS Naturals, FiniteSetsExt

CONSTANTS ScanSlots,    \* slots find_cmdslot looks at, 16 in the code
          HeaderCount,  \* command headers, 32 in the code
          SpinLimit     \* polls of a busy device, 1000000 in the code

ASSUME AhciAssumption == /\ ScanSlots \in Nat
                         /\ HeaderCount \in Nat /\ ScanSlots <= HeaderCount
                         /\ SpinLimit \in Nat \ {0}

VARIABLES pc,      \* the driver's next access
          port,    \* the registers of the port
          ghc,     \* the bits AE and HR of the global control register
          hba,     \* what the HBA is doing
          spin,    \* the polls of the busy device
          slot,    \* the command slot
          buf,     \* the sector buffer: whether it has the data of the sector,
                   \* and whether byte 10 is '\0'
          answer,  \* what read_bytes returned
          memory,  \* the command headers from AHCI_BASE on, each with the
                   \* command table it names
          frail    \* whether the link to the disk may fail fatally

vars == <<pc, port, ghc, hba, spin, slot, buf, answer, memory>>

(* Bits of PxIS. *)
DHRS == 0
INFS == 26
IFS == 27
TFES == 30

-----------------------------------------------------------------------------
(* Commands in memory.                                                     *)

Headers == 0 .. HeaderCount - 1

(* HBA_CMD_TBL: the command FIS and the one entry of the region table.     *)
NoFis == [fis_type |-> 0, c |-> 0, command |-> 0, device |-> 0,
          lba |-> [k \in 0 .. 5 |-> 0], count |-> [k \in 0 .. 1 |-> 0]]
ZeroTable == [fis |-> NoFis, dba |-> 0, dbc |-> 0]

(* HBA_CMD_HEADER, with the table its ctba names. *)
ZeroHeader == [cfl |-> 0, w |-> 0, prdtl |-> 0, table |-> ZeroTable]

FIS_TYPE_REG_H2D == 39
ATA_CMD_READ_DMA_EX == 37
SectorSize == 512
FisWords == 5     \* sizeof(FIS_REG_H2D) / sizeof(u32)
Buffer == 1       \* the address of buf

(* Byte k of a number, from the least significant on. *)
Byte(n, k) == (n \div <<1, 256, 65536, 16777216>>[k + 1]) % 256

(* What read_bytes writes to the header and the table of its slot. *)
ReadCommand(h, startl, starth, count) ==
    [h EXCEPT
       !.cfl = FisWords, !.w = 0, !.prdtl = 1,
       !.table = [fis |-> [fis_type |-> FIS_TYPE_REG_H2D, c |-> 1,
                           command |-> ATA_CMD_READ_DMA_EX, device |-> 64,
                           lba |-> [k \in 0 .. 5 |-> IF k < 4 THEN Byte(startl, k)
                                                             ELSE Byte(starth, k - 4)],
                           count |-> [k \in 0 .. 1 |-> Byte(count, k)]],
                  dba |-> Buffer,
                  dbc |-> count * SectorSize - 1]]

(* The HBA finds in header h the command to read `count' sectors to the    *)
(* buffer, from the sector on that startl and starth give.                 *)
Reads(h, startl, starth, count) ==
    LET fis == h.table.fis
        Half(bytes, k) == bytes[k] + 256 * bytes[k + 1]
    IN  /\ h.cfl = FisWords /\ h.w = 0
        /\ fis.fis_type = FIS_TYPE_REG_H2D /\ fis.c = 1
        /\ fis.command = ATA_CMD_READ_DMA_EX /\ fis.device = 64
        /\ Half(fis.lba, 0) + 65536 * Half(fis.lba, 2) = startl
        /\ Half(fis.lba, 4) = starth
        /\ Half(fis.count, 0) = count
        /\ h.prdtl = 1 /\ h.table.dba = Buffer
        /\ h.table.dbc + 1 = count * SectorSize

(* The BIOS has used the port, or has not. *)
Init == /\ pc = "stop ST"
        /\ \E running \in BOOLEAN :
             port = [ST |-> running, FRE |-> running, CR |-> running,
                     FR |-> running, clb |-> "bios", is |-> {}, ci |-> {},
                     busy |-> FALSE]
        /\ ghc = [AE |-> TRUE, HR |-> FALSE]
        /\ hba = "idle"
        /\ spin = 0
        /\ slot = 0
        /\ buf = [data |-> FALSE, terminated |-> TRUE]
        /\ answer = "none"
        /\ memory = [i \in Headers |-> ZeroHeader]
        /\ frail \in BOOLEAN

-----------------------------------------------------------------------------
(* The driver.                                                             *)

Access(from, to) == pc = from /\ pc' = to

SetPort(from, to, new) ==
    /\ Access(from, to)
    /\ port' = new
    /\ UNCHANGED <<ghc, hba, spin, slot, buf, answer, memory>>

(* A loop that polls a register goes on when the condition holds. *)
Await(from, to, condition) ==
    /\ Access(from, to)
    /\ condition
    /\ UNCHANGED <<port, ghc, hba, spin, slot, buf, answer, memory>>

\* Faulty variants, here and below, are in no specification: a run that put
\* one in the place of its original must fail.
\* Faulty: the driver does not wait for the FIS receive engine.
stop_cmd_one_flag == \/ SetPort("stop ST", "stop FRE", [port EXCEPT !.ST = FALSE])
                     \/ SetPort("stop FRE", "stop wait", [port EXCEPT !.FRE = FALSE])
                     \/ Await("stop wait", "rebase", ~port.CR)

stop_cmd == \/ SetPort("stop ST", "stop FRE", [port EXCEPT !.ST = FALSE])
            \/ SetPort("stop FRE", "stop wait", [port EXCEPT !.FRE = FALSE])
            \/ Await("stop wait", "rebase", ~port.FR /\ ~port.CR)

start_cmd == \/ Await("start wait", "start FRE", ~port.CR)
             \/ SetPort("start FRE", "start ST", [port EXCEPT !.FRE = TRUE])
             \/ SetPort("start ST", "enable", [port EXCEPT !.ST = TRUE])

(* The command list, the FIS area and the command tables, which are        *)
(* cleared; eight entries are announced for each table.                    *)
Rebase == /\ Access("rebase", "start wait")
          /\ port' = [port EXCEPT !.clb = "AHCI_BASE"]
          /\ memory' = [i \in Headers |-> [ZeroHeader EXCEPT !.prdtl = 8]]
          /\ UNCHANGED <<ghc, hba, spin, slot, buf, answer>>

port_rebase == stop_cmd \/ Rebase \/ start_cmd

SetGhc(from, to, new) ==
    /\ Access(from, to)
    /\ ghc' = new
    /\ UNCHANGED <<port, hba, spin, slot, buf, answer, memory>>

ResetHba == \/ SetGhc("enable", "reset", [ghc EXCEPT !.AE = TRUE])
            \/ SetGhc("reset", "reset wait", [ghc EXCEPT !.HR = TRUE])
            \/ Await("reset wait", "enable again", ~ghc.HR)
            \/ SetGhc("enable again", "clear is", [ghc EXCEPT !.AE = TRUE])

(* port->is = 0xffff *)
ClearStatus ==
    SetPort("clear is", "find slot",
            [port EXCEPT !.is = {bit \in @ : bit > 15}])

find_cmdslot ==
    LET free == (0 .. ScanSlots - 1) \ port.ci
    IN  /\ pc = "find slot"
        /\ IF free = {}
             THEN /\ pc' = "returned" /\ answer' = "no slot"
                  /\ UNCHANGED slot
             ELSE /\ pc' = "fill" /\ slot' = Min(free)
                  /\ UNCHANGED answer
        /\ UNCHANGED <<port, ghc, hba, spin, buf, memory>>

(* The call is read_bytes(&hba->port, 1, 0, 1, &buf). *)
FillTable == /\ Access("fill", "read FRE")
             /\ memory' = [memory EXCEPT ![slot] = ReadCommand(@, 1, 0, 1)]
             /\ UNCHANGED <<port, ghc, hba, spin, slot, buf, answer>>

\* Faulty: the reset has cleared ST, and it is not set again.
start_port_without_ST ==
    \/ SetPort("read FRE", "read ST", [port EXCEPT !.FRE = TRUE])
    \/ Await("read ST", "busy?", TRUE)

start_port ==
    \/ SetPort("read FRE", "read ST", [port EXCEPT !.FRE = TRUE])
    \/ SetPort("read ST", "busy?", [port EXCEPT !.ST = TRUE])

SpinWhileBusy ==
    /\ pc = "busy?"
    /\ IF port.busy /\ spin < SpinLimit
         THEN spin' = spin + 1 /\ UNCHANGED pc
         ELSE pc' = "hung?" /\ UNCHANGED spin
    /\ UNCHANGED <<port, ghc, hba, slot, buf, answer, memory>>

\* Faulty: a device that is still busy is given the command all the same.
HungIgnored == /\ pc = "hung?"
               /\ pc' = "issue"
               /\ UNCHANGED <<port, ghc, hba, spin, slot, buf, answer, memory>>

Hung == /\ pc = "hung?"
        /\ IF spin = SpinLimit
             THEN pc' = "returned" /\ answer' = "hung"
             ELSE pc' = "issue" /\ UNCHANGED answer
        /\ UNCHANGED <<port, ghc, hba, spin, slot, buf, memory>>

(* port->ci = 1 << slot *)
Issue == SetPort("issue", "done?",
                 IF port.ST THEN [port EXCEPT !.ci = @ \cup {slot}] ELSE port)

Done == /\ pc = "done?"
        /\ IF slot \in port.ci
             THEN pc' = "error?" /\ UNCHANGED answer
             ELSE pc' = "returned" /\ answer' = "read"
        /\ UNCHANGED <<port, ghc, hba, spin, slot, buf, memory>>

\* Faulty: any status above the lower half of the register counts as an error.
ErrorAnyBit == /\ pc = "error?"
               /\ IF \E bit \in port.is : bit > 15
                    THEN pc' = "returned" /\ answer' = "error"
                    ELSE pc' = "done?" /\ UNCHANGED answer
               /\ UNCHANGED <<port, ghc, hba, spin, slot, buf, memory>>

\* Faulty: only the command's bit is polled.
ErrorIgnored == Await("error?", "done?", TRUE)

Error == /\ pc = "error?"
         /\ IF TFES \in port.is
              THEN pc' = "returned" /\ answer' = "error"
              ELSE pc' = "done?" /\ UNCHANGED answer
         /\ UNCHANGED <<port, ghc, hba, spin, slot, buf, memory>>

read_bytes == \/ ClearStatus \/ find_cmdslot \/ FillTable \/ start_port
              \/ SpinWhileBusy \/ Hung \/ Issue
              \/ Done \/ Error

(* buf[10] = '\0'; the main loop prints buf as a string from now on. *)
Terminate == /\ Access("returned", "loop")
             /\ buf' = [buf EXCEPT !.terminated = TRUE]
             /\ UNCHANGED <<port, ghc, hba, spin, slot, answer, memory>>

Driver == port_rebase \/ ResetHba \/ read_bytes \/ Terminate

-----------------------------------------------------------------------------
(* The HBA and the disk.                                                   *)

Hba(newPort, state) ==
    /\ ~ghc.HR
    /\ port' = newPort
    /\ hba' = state
    /\ UNCHANGED <<pc, ghc, spin, slot, buf, answer, memory>>

EnginesFollow ==
    \/ port.CR # port.ST /\ Hba([port EXCEPT !.CR = port.ST], hba)
    \/ port.FR # port.FRE /\ Hba([port EXCEPT !.FR = port.FRE], hba)

(* The device is busy until its first FIS tells that it is ready. *)
ResetDone ==
    /\ ghc.HR
    /\ ghc' = [AE |-> FALSE, HR |-> FALSE]
    /\ port' = [port EXCEPT !.ST = FALSE, !.FRE = FALSE, !.CR = FALSE,
                            !.FR = FALSE, !.is = {}, !.ci = {}, !.busy = TRUE]
    /\ hba' = "link down"
    /\ UNCHANGED <<pc, spin, slot, buf, answer, memory>>

(* Errors that the link has got over may have happened before. *)
FirstFis == /\ hba = "link down"
            /\ \E noise \in SUBSET {INFS} :
                 Hba([port EXCEPT !.busy = FALSE, !.is = @ \cup noise], "idle")

Fetch == /\ hba = "idle" /\ port.CR /\ port.ci # {}
         /\ Hba([port EXCEPT !.busy = TRUE], "running")

(* The HBA finds the command through the header whose bit is set in PxCI,  *)
(* whatever slot the driver has filled.                                    *)
Transfer == /\ ~ghc.HR
            /\ hba = "running"
            /\ hba' = "transferred"
            /\ \E s \in port.ci :
                 buf' = [data |-> Reads(memory[s], 1, 0, 1), terminated |-> FALSE]
            /\ UNCHANGED <<pc, port, ghc, spin, slot, answer, memory>>

Complete == /\ hba = "transferred"
            /\ \E s \in port.ci :
                 Hba([port EXCEPT !.busy = FALSE, !.ci = @ \ {s},
                                  !.is = @ \cup {DHRS}], "idle")

DiskError == /\ hba \in {"running", "transferred"}
             /\ Hba([port EXCEPT !.busy = FALSE, !.is = @ \cup {TFES}], "stopped")

LinkNoise == /\ hba \in {"running", "transferred"}
             /\ Hba([port EXCEPT !.is = @ \cup {INFS}], hba)

LinkFails == /\ frail
             /\ hba \in {"running", "transferred"}
             /\ Hba([port EXCEPT !.is = @ \cup {IFS}], "stopped")

Works == EnginesFollow \/ ResetDone \/ Fetch \/ Transfer \/ Complete

Next == \/ Driver /\ UNCHANGED frail
        \/ Works /\ UNCHANGED frail
        \/ FirstFis /\ UNCHANGED frail
        \/ DiskError /\ UNCHANGED frail
        \/ LinkNoise /\ UNCHANGED frail
        \/ LinkFails /\ UNCHANGED frail

(* The driver runs, and the HBA goes on with what it has begun; a disk may *)
(* never get ready.                                                        *)
Spec == Init /\ [][Next]_<<vars, frail>> /\ WF_vars(Driver)
             /\ WF_vars(EnginesFollow) /\ WF_vars(ResetDone)
             /\ WF_vars(Fetch) /\ WF_vars(Transfer) /\ WF_vars(Complete)

-----------------------------------------------------------------------------
(* Properties.                                                             *)

(* The command list and the FIS area are moved only while neither engine   *)
(* of the port uses them, and stay where they are from then on.            *)
MovedWhileStopped ==
    [][port'.clb # port.clb =>
         ~port.CR /\ ~port.FR /\ port.ci = {} /\ port.clb = "bios"]_vars

(* No command is handed to a device that is not ready for it. *)
IssuedToReadyDevice ==
    [][port'.ci # {} /\ port.ci = {} =>
         /\ hba = "idle" /\ ~port.busy
         /\ port.ST /\ port.FRE /\ port.clb = "AHCI_BASE"]_vars

(* When read_bytes returns true the sector asked for is in the buffer: the *)
(* command the HBA found in memory was the one for it, and the bit of the  *)
(* command it finds cleared (pci.c:209) was set before, although the       *)
(* HBA reset between port_rebase and read_bytes has stopped the port.      *)
TrueMeansRead == answer = "read" => buf.data

(* The main loop prints the buffer as a string (kernel.c:514): whatever    *)
(* read_bytes has returned, no transfer is under way that could still put  *)
(* a byte over the terminator written after it.                            *)
NoLateTransfer == pc = "loop" => buf.terminated

(* Unless the link fails, the boot does not hang in the driver: a disk     *)
(* that never gets ready or reports an error is given up.                  *)
DriverFinishes == ~frail => <>(pc = "loop")

(* `Wait for completion, if error: return' (pci.c:223): whatever the error *)
(* is, the driver returns.                                                 *)
ReturnsOnError == <>(pc = "loop")
=============================================================================
