-------------------------- MODULE DiskPhaseProofs ---------------------------
(***************************************************************************)
(* Theorems about the disk phase of the kernel.  First the driver alone,   *)
(* for every number of command slots and headers and every patience with a *)
(* busy device; then DiskPhase, whatever functions there are on whatever   *)
(* number of buses: the scan and the setup of the controller, and what the *)
(* theorems about the driver become when it runs after them.               *)
(***************************************************************************)
EXTENDS DiskPhase, WellFoundedInduction, TLAPS

-----------------------------------------------------------------------------
(* The driver.                                                             *)

(* The accesses of the driver, cut where the port changes its state.       *)
BeforeMove == {"stop ST", "stop FRE", "stop wait", "rebase"}
BeforeReset == BeforeMove \cup
    {"start wait", "start FRE", "start ST", "enable", "reset"}
Reading == {"read FRE", "read ST", "busy?", "hung?", "issue"}
BeforeIssue == {"enable again", "clear is", "find slot", "fill"} \cup Reading
Polling == {"done?", "error?"}
Ending == {"returned", "loop"}
Accesses == BeforeReset \cup {"reset wait"} \cup BeforeIssue \cup Polling
                        \cup Ending

HeaderType ==
    [cfl : Nat, w : Nat, prdtl : Nat,
     table : [fis : [fis_type : Nat, c : Nat, command : Nat, device : Nat,
                     lba : [0 .. 5 -> Nat], count : [0 .. 1 -> Nat]],
              dba : Nat, dbc : Int]]

PortType ==
    [ST : BOOLEAN, FRE : BOOLEAN, CR : BOOLEAN, FR : BOOLEAN,
     clb : {"bios", "AHCI_BASE"}, is : SUBSET {DHRS, INFS, IFS, TFES},
     ci : SUBSET Nat, busy : BOOLEAN]

AhciTypeOK ==
    /\ pc \in Accesses
    /\ port \in PortType
    /\ ghc \in [AE : BOOLEAN, HR : BOOLEAN]
    /\ hba \in {"idle", "link down", "running", "transferred", "stopped"}
    /\ spin \in 0 .. SpinLimit
    /\ slot \in Nat
    /\ buf \in [data : BOOLEAN, terminated : BOOLEAN]
    /\ answer \in {"none", "no slot", "hung", "error", "read"}
    /\ memory \in [Headers -> HeaderType]
    /\ frail \in BOOLEAN

(* The bits of the port's command register and what follows them.          *)
Engines ==
    /\ pc \in {"stop FRE", "stop wait", "rebase", "start wait", "start FRE",
               "start ST"} => ~port.ST
    /\ pc \in {"stop wait", "rebase", "start wait", "start FRE"} => ~port.FRE
    /\ pc \in {"rebase", "start wait", "start FRE"} => ~port.FR /\ ~port.CR
    /\ pc \in {"read ST", "busy?", "hung?", "issue"} => port.FRE
    /\ pc \in {"busy?", "hung?", "issue"} => port.ST
    /\ pc \in BeforeMove => port.clb = "bios"
    /\ pc \notin BeforeMove \cup {"loop"} => port.clb = "AHCI_BASE"

(* From the reset on the device is busy until the link is up, and no       *)
(* command is there before one is issued.                                  *)
NoCommandYet ==
    /\ ghc.HR => pc = "reset wait"
    /\ pc \in BeforeReset \/ ghc.HR => hba = "idle" /\ ~port.busy
    /\ pc \in BeforeReset \cup {"reset wait"} \cup BeforeIssue =>
          /\ port.ci = {}
          /\ hba \in {"idle", "link down"}
          /\ answer = "none"
          /\ buf.terminated
    /\ hba = "idle" => ~port.busy
    /\ hba = "link down" => port.busy
    /\ pc = "hung?" /\ spin # SpinLimit => ~port.busy
    /\ pc = "issue" => ~port.busy

(* The command of the driver: it is in memory before it is issued, and its *)
(* bit is cleared only when the data is in the buffer.                     *)
CommandDone ==
    /\ pc \in Reading \cup {"fill"} => slot \in Headers
    /\ pc \in Reading \cup Polling => Reads(memory[slot], 1, 0, 1)
    /\ pc \in Polling =>
          /\ port.ci \subseteq {slot}
          /\ hba \in {"idle", "running", "transferred", "stopped"}
          /\ answer = "none"
          /\ hba = "transferred" => buf.data
          /\ hba = "idle" /\ slot \notin port.ci => buf.data
          /\ hba # "idle" => slot \in port.ci
    /\ pc \in Ending =>
          hba = "stopped" \/ (port.ci = {} /\ hba \in {"idle", "link down"})
    /\ TFES \in port.is => hba = "stopped"
    /\ answer = "read" => buf.data
    /\ pc = "loop" => buf.terminated

AhciInv == /\ AhciTypeOK
           /\ Engines
           /\ NoCommandYet
           /\ CommandDone

-----------------------------------------------------------------------------
(* Commands in memory.                                                     *)

(* The numbers of four and of two bytes.  *)
Word == {n \in Nat : n \div 16777216 \in 0 .. 255}
HalfWord == {n \in Nat : n \div 256 \in 0 .. 255}

(* A byte is its own rest. *)
LEMMA ByteRest == \A n \in 0 .. 255 : n % 256 = n
BY Z3

(* A number is made of its bytes again. *)
LEMMA HalfWordOfBytes ==
    ASSUME NEW n \in HalfWord
    PROVE  ((n \div 1) % 256) + 256 * ((n \div 256) % 256) = n
<1>. n \in Nat /\ n \div 256 \in 0 .. 255
    BY SMT DEF HalfWord
<1>1. n \div 1 = n
    BY Z3
<1>2. (n % 256) + 256 * (n \div 256) = n
    BY Z3
<1>3. (n \div 256) % 256 = n \div 256
    BY ByteRest
<1>. QED
    BY <1>1, <1>2, <1>3

(* The same for four bytes, each the rest of a quotient. *)
LEMMA WordOfBytes ==
    ASSUME NEW n \in Word
    PROVE  ((n \div 1) % 256) + 256 * ((n \div 256) % 256)
             + 65536 * (((n \div 65536) % 256) + 256 * ((n \div 16777216) % 256)) = n
<1>. DEFINE a == n \div 256
            b == n \div 65536
            c == n \div 16777216
<1>. n \in Nat
    BY SMT DEF Word
<1>1. a \in Nat /\ b \in Nat /\ c \in Nat /\ c \in 0 .. 255
    BY SMT DEF Word
<1>2. n % 256 = n - 256 * a /\ a % 256 = a - 256 * b /\ b % 256 = b - 256 * c
    BY SMT
<1>3. c % 256 = c
    BY <1>1, ByteRest
<1>4. n \div 1 = n
    BY Z3
<1>. HIDE DEF a, b, c
<1>5. n - 256 * a + 256 * (a - 256 * b) + 65536 * (b - 256 * c + 256 * c) = n
    BY <1>1, SMT
<1>6. (n % 256) + 256 * (a % 256) + 65536 * ((b % 256) + 256 * (c % 256)) = n
    BY <1>2, <1>3, <1>5, SMT
<1>. QED
    BY <1>4, <1>6, SMT DEF a, b, c

(* Whatever sectors are asked for, the HBA finds in the header what        *)
(* read_bytes has written to it (pci.c:152-189).                           *)
THEOREM ReadsWhatIsWritten ==
    ASSUME NEW h \in HeaderType,
           NEW startl \in Word, NEW starth \in HalfWord, NEW count \in HalfWord
    PROVE  Reads(ReadCommand(h, startl, starth, count), startl, starth, count)
<1>. DEFINE lba == [k \in 0 .. 5 |-> IF k < 4 THEN Byte(startl, k)
                                              ELSE Byte(starth, k - 4)]
            sectors == [k \in 0 .. 1 |-> Byte(count, k)]
            fis == [fis_type |-> FIS_TYPE_REG_H2D, c |-> 1,
                    command |-> ATA_CMD_READ_DMA_EX, device |-> 64,
                    lba |-> lba, count |-> sectors]
            table == [fis |-> fis, dba |-> Buffer,
                      dbc |-> count * SectorSize - 1]
            new == ReadCommand(h, startl, starth, count)
<1>1. new.cfl = FisWords /\ new.w = 0 /\ new.prdtl = 1 /\ new.table = table
    BY ZenonT(30) DEF ReadCommand, HeaderType
<1>2. /\ lba[0] = (startl \div 1) % 256
      /\ lba[1] = (startl \div 256) % 256
      /\ lba[2] = (startl \div 65536) % 256
      /\ lba[3] = (startl \div 16777216) % 256
      /\ lba[4] = (starth \div 1) % 256
      /\ lba[5] = (starth \div 256) % 256
      /\ sectors[0] = (count \div 1) % 256
      /\ sectors[1] = (count \div 256) % 256
    BY SMT DEF Byte
<1>. HIDE DEF lba, sectors, new
<1>3. table.fis.lba = lba /\ table.fis.count = sectors
    BY Zenon
<1>4. /\ lba[0] + 256 * lba[0+1] + 65536 * (lba[2] + 256 * lba[2+1]) = startl
      /\ lba[4] + 256 * lba[4+1] = starth
      /\ sectors[0] + 256 * sectors[0+1] = count
    BY <1>2, HalfWordOfBytes, WordOfBytes, SMT
<1>5. table.dbc + 1 = count * SectorSize
  <2>1. table.dbc = count * SectorSize - 1
      BY Zenon
  <2>2. count * SectorSize \in Nat
      BY SMT DEF SectorSize, HalfWord
  <2>. HIDE DEF table
  <2>. QED
      BY <2>1, <2>2, SMT
<1>6. /\ table.fis.fis_type = FIS_TYPE_REG_H2D /\ table.fis.c = 1
      /\ table.fis.command = ATA_CMD_READ_DMA_EX /\ table.fis.device = 64
      /\ table.dba = Buffer
    BY Zenon
<1>. HIDE DEF table
<1>. QED
    BY <1>1, <1>3, <1>4, <1>5, <1>6, SMT DEF Reads, new

(* What it writes is a header. *)
LEMMA WrittenIsHeader ==
    ASSUME NEW h \in HeaderType
    PROVE  ReadCommand(h, 1, 0, 1) \in HeaderType
<1>. DEFINE lba == [k \in 0 .. 5 |-> IF k < 4 THEN Byte(1, k)
                                              ELSE Byte(0, k - 4)]
            sectors == [k \in 0 .. 1 |-> Byte(1, k)]
<1>1. lba \in [0 .. 5 -> Nat]
    BY SMT DEF Byte
<1>2. sectors \in [0 .. 1 -> Nat]
    BY SMT DEF Byte
<1>3. 1 * SectorSize - 1 \in Int
    BY SMT DEF SectorSize
<1>4. {FisWords, FIS_TYPE_REG_H2D, ATA_CMD_READ_DMA_EX, 64, 1, 0, Buffer} \subseteq Nat
    BY SMT DEF FisWords, FIS_TYPE_REG_H2D, ATA_CMD_READ_DMA_EX, Buffer
<1>. HIDE DEF lba, sectors
<1>5. [fis |-> [fis_type |-> FIS_TYPE_REG_H2D, c |-> 1,
                command |-> ATA_CMD_READ_DMA_EX, device |-> 64,
                lba |-> lba, count |-> sectors],
       dba |-> Buffer, dbc |-> 1 * SectorSize - 1]
      \in [fis : [fis_type : Nat, c : Nat, command : Nat, device : Nat,
                  lba : [0 .. 5 -> Nat], count : [0 .. 1 -> Nat]],
           dba : Nat, dbc : Int]
    BY <1>1, <1>2, <1>3, <1>4, ZenonT(30)
<1>. QED
    BY <1>4, <1>5, ZenonT(30) DEF ReadCommand, HeaderType, lba, sectors

(* What memset and port_rebase leave in a header is one. *)
LEMMA ZeroHeaderType ==
    ZeroHeader \in HeaderType /\ [ZeroHeader EXCEPT !.prdtl = 8] \in HeaderType
BY SMT DEF ZeroHeader, ZeroTable, NoFis, HeaderType

(* The least of a set of numbers. *)
LEMMA LeastExists ==
    ASSUME NEW S \in SUBSET Nat, S # {}
    PROVE  \E x \in S : \A y \in S : x <= y
<1>1. PICK x \in S : \A y \in S : <<y, x>> \notin OpToRel(<, Nat)
    BY NatLessThanWellFounded, WFMin
<1>2. \A y \in S : ~(y < x)
    BY <1>1 DEF OpToRel
<1>. QED
    BY <1>2, SMT

(* find_cmdslot finds a header. *)
LEMMA FreeSlot ==
    ASSUME NEW S \in SUBSET (0 .. ScanSlots - 1), S # {}
    PROVE  Min(S) \in Headers
<1>1. S \in SUBSET Nat
    BY AhciAssumption, SMT DEF AhciAssumption
<1>2. Min(S) \in S
    BY <1>1, LeastExists DEF Min
<1>3. \A i \in 0 .. ScanSlots - 1 : i \in Headers
    BY AhciAssumption, SMT DEF AhciAssumption, Headers
<1>. QED
    BY <1>2, <1>3

(* The invariant holds at the start, whether or not the BIOS has used the  *)
(* port.                                                                   *)
LEMMA InitAhciInv == Init => AhciInv
<1>. SUFFICES ASSUME Init PROVE AhciInv
    OBVIOUS
<1>. PICK running \in BOOLEAN :
           port = [ST |-> running, FRE |-> running, CR |-> running,
                   FR |-> running, clb |-> "bios", is |-> {}, ci |-> {},
                   busy |-> FALSE]
    BY DEF Init
<1>1. AhciTypeOK
  <2>1. memory \in [Headers -> HeaderType]
      BY ZeroHeaderType DEF Init
  <2>2. spin \in 0 .. SpinLimit /\ slot \in Nat
    <3>1. 0 \in 0 .. SpinLimit /\ 0 \in Nat
        BY AhciAssumption, SMT DEF AhciAssumption
    <3>. QED
        BY <3>1 DEF Init
  <2>3. pc \in Accesses
      BY DEF Init, Accesses, BeforeReset, BeforeMove
  <2>4. port \in PortType
      BY Zenon DEF PortType
  <2>. QED
      BY <2>1, <2>2, <2>3, <2>4, Zenon DEF Init, AhciTypeOK
<1>2. pc = "stop ST" /\ port.clb = "bios" /\ ~port.busy /\ port.ci = {} /\ port.is = {}
    BY DEF Init
<1>3. Engines
    BY <1>2 DEF Engines, BeforeMove
<1>4. NoCommandYet
    BY <1>2 DEF NoCommandYet, Init
<1>5. CommandDone
    BY <1>2 DEF CommandDone, Init, Reading, Polling, Ending
<1>. QED
    BY <1>1, <1>3, <1>4, <1>5 DEF AhciInv

(* A step of the driver that sets or clears a bit of the port. *)
LEMMA BitStepsKeepInv ==
    ASSUME AhciInv, UNCHANGED frail,
           \/ SetPort("stop ST", "stop FRE", [port EXCEPT !.ST = FALSE])
           \/ SetPort("stop FRE", "stop wait", [port EXCEPT !.FRE = FALSE])
           \/ SetPort("start FRE", "start ST", [port EXCEPT !.FRE = TRUE])
           \/ SetPort("start ST", "enable", [port EXCEPT !.ST = TRUE])
           \/ SetPort("read FRE", "read ST", [port EXCEPT !.FRE = TRUE])
           \/ SetPort("read ST", "busy?", [port EXCEPT !.ST = TRUE])
    PROVE  AhciInv'
<1>. USE DEF AhciInv, Accesses, BeforeReset, BeforeMove, BeforeIssue, Reading,
             Polling, Ending
<1>1. CASE SetPort("stop ST", "stop FRE", [port EXCEPT !.ST = FALSE])
  <2>1. /\ pc = "stop ST" /\ pc' = "stop FRE"
        /\ UNCHANGED <<ghc, hba, spin, slot, buf, answer, memory, frail>>
      BY <1>1 DEF SetPort, Access
  <2>2. /\ port' \in PortType /\ port'.ST = FALSE
        /\ UNCHANGED <<port.FRE, port.CR, port.FR, port.clb, port.is, port.ci, port.busy>>
      BY <1>1, Zenon DEF SetPort, AhciTypeOK, PortType
  <2>3. AhciTypeOK'
      BY <2>1, <2>2, Zenon DEF AhciTypeOK
  <2>. QED
      BY <2>1, <2>2, <2>3 DEF Engines, NoCommandYet, CommandDone
<1>2. CASE SetPort("stop FRE", "stop wait", [port EXCEPT !.FRE = FALSE])
  <2>1. /\ pc = "stop FRE" /\ pc' = "stop wait"
        /\ UNCHANGED <<ghc, hba, spin, slot, buf, answer, memory, frail>>
      BY <1>2 DEF SetPort, Access
  <2>2. /\ port' \in PortType /\ port'.FRE = FALSE
        /\ UNCHANGED <<port.ST, port.CR, port.FR, port.clb, port.is, port.ci, port.busy>>
      BY <1>2, Zenon DEF SetPort, AhciTypeOK, PortType
  <2>3. AhciTypeOK'
      BY <2>1, <2>2, Zenon DEF AhciTypeOK
  <2>. QED
      BY <2>1, <2>2, <2>3 DEF Engines, NoCommandYet, CommandDone
<1>3. CASE SetPort("start FRE", "start ST", [port EXCEPT !.FRE = TRUE])
  <2>1. /\ pc = "start FRE" /\ pc' = "start ST"
        /\ UNCHANGED <<ghc, hba, spin, slot, buf, answer, memory, frail>>
      BY <1>3 DEF SetPort, Access
  <2>2. /\ port' \in PortType /\ port'.FRE = TRUE
        /\ UNCHANGED <<port.ST, port.CR, port.FR, port.clb, port.is, port.ci, port.busy>>
      BY <1>3, Zenon DEF SetPort, AhciTypeOK, PortType
  <2>3. AhciTypeOK'
      BY <2>1, <2>2, Zenon DEF AhciTypeOK
  <2>. QED
      BY <2>1, <2>2, <2>3 DEF Engines, NoCommandYet, CommandDone
<1>4. CASE SetPort("start ST", "enable", [port EXCEPT !.ST = TRUE])
  <2>1. /\ pc = "start ST" /\ pc' = "enable"
        /\ UNCHANGED <<ghc, hba, spin, slot, buf, answer, memory, frail>>
      BY <1>4 DEF SetPort, Access
  <2>2. /\ port' \in PortType /\ port'.ST = TRUE
        /\ UNCHANGED <<port.FRE, port.CR, port.FR, port.clb, port.is, port.ci, port.busy>>
      BY <1>4, Zenon DEF SetPort, AhciTypeOK, PortType
  <2>3. AhciTypeOK'
      BY <2>1, <2>2, Zenon DEF AhciTypeOK
  <2>. QED
      BY <2>1, <2>2, <2>3 DEF Engines, NoCommandYet, CommandDone
<1>5. CASE SetPort("read FRE", "read ST", [port EXCEPT !.FRE = TRUE])
  <2>1. /\ pc = "read FRE" /\ pc' = "read ST"
        /\ UNCHANGED <<ghc, hba, spin, slot, buf, answer, memory, frail>>
      BY <1>5 DEF SetPort, Access
  <2>2. /\ port' \in PortType /\ port'.FRE = TRUE
        /\ UNCHANGED <<port.ST, port.CR, port.FR, port.clb, port.is, port.ci, port.busy>>
      BY <1>5, Zenon DEF SetPort, AhciTypeOK, PortType
  <2>3. AhciTypeOK'
      BY <2>1, <2>2, Zenon DEF AhciTypeOK
  <2>. QED
      BY <2>1, <2>2, <2>3 DEF Engines, NoCommandYet, CommandDone
<1>6. CASE SetPort("read ST", "busy?", [port EXCEPT !.ST = TRUE])
  <2>1. /\ pc = "read ST" /\ pc' = "busy?"
        /\ UNCHANGED <<ghc, hba, spin, slot, buf, answer, memory, frail>>
      BY <1>6 DEF SetPort, Access
  <2>2. /\ port' \in PortType /\ port'.ST = TRUE
        /\ UNCHANGED <<port.FRE, port.CR, port.FR, port.clb, port.is, port.ci, port.busy>>
      BY <1>6, Zenon DEF SetPort, AhciTypeOK, PortType
  <2>3. AhciTypeOK'
      BY <2>1, <2>2, Zenon DEF AhciTypeOK
  <2>. QED
      BY <2>1, <2>2, <2>3 DEF Engines, NoCommandYet, CommandDone
<1>. QED
    BY <1>1, <1>2, <1>3, <1>4, <1>5, <1>6

(* A step of the driver that waits for the port or the HBA.                *)
LEMMA AwaitsKeepInv ==
    ASSUME AhciInv, UNCHANGED frail,
           \/ Await("stop wait", "rebase", ~port.FR /\ ~port.CR)
           \/ Await("start wait", "start FRE", ~port.CR)
           \/ Await("reset wait", "enable again", ~ghc.HR)
    PROVE  AhciInv'
<1>. USE DEF AhciInv, Accesses, BeforeReset, BeforeMove, BeforeIssue, Reading,
             Polling, Ending
<1>1. /\ UNCHANGED <<port, ghc, hba, spin, slot, buf, answer, memory, frail>>
      /\ \/ /\ pc = "stop wait" /\ pc' = "rebase" /\ ~port.FR /\ ~port.CR
         \/ pc = "start wait" /\ pc' = "start FRE"
         \/ pc = "reset wait" /\ pc' = "enable again" /\ ~ghc.HR
    BY DEF Await, Access
<1>2. pc' \in Accesses
    BY <1>1
<1>3. AhciTypeOK'
    BY <1>1, <1>2, Zenon DEF AhciTypeOK
<1>. QED
    BY <1>1, <1>3 DEF Engines, NoCommandYet, CommandDone

(* The reset of the HBA, up to the HBA's own part of it. *)
LEMMA ResetStepsKeepInv ==
    ASSUME AhciInv, UNCHANGED frail,
           \/ SetGhc("enable", "reset", [ghc EXCEPT !.AE = TRUE])
           \/ SetGhc("reset", "reset wait", [ghc EXCEPT !.HR = TRUE])
           \/ SetGhc("enable again", "clear is", [ghc EXCEPT !.AE = TRUE])
    PROVE  AhciInv'
<1>. USE DEF AhciInv, Accesses, BeforeReset, BeforeMove, BeforeIssue, Reading,
             Polling, Ending
<1>1. UNCHANGED <<port, hba, spin, slot, buf, answer, memory, frail>>
    BY DEF SetGhc
<1>2. \/ pc = "enable" /\ pc' = "reset" /\ ghc'.HR = ghc.HR
      \/ pc = "reset" /\ pc' = "reset wait" /\ ghc'.HR = TRUE
      \/ pc = "enable again" /\ pc' = "clear is" /\ ghc'.HR = ghc.HR
    BY DEF SetGhc, Access, AhciTypeOK
<1>3. AhciTypeOK'
  <2>1. ghc' \in [AE : BOOLEAN, HR : BOOLEAN]
      BY Zenon DEF SetGhc, AhciTypeOK
  <2>. QED
      BY <1>1, <1>2, <2>1, Zenon DEF AhciTypeOK
<1>. QED
    BY <1>1, <1>2, <1>3 DEF Engines, NoCommandYet, CommandDone

(* The move of the command list and the FIS area, with both engines stopped. *)
LEMMA RebaseKeepsInv ==
    ASSUME AhciInv, UNCHANGED frail, Rebase
    PROVE  AhciInv'
<1>. USE DEF AhciInv, Accesses, BeforeReset, BeforeMove, BeforeIssue, Reading,
             Polling, Ending
<1>1. /\ pc = "rebase" /\ pc' = "start wait"
      /\ UNCHANGED <<ghc, hba, spin, slot, buf, answer, frail>>
    BY DEF Rebase, Access
<1>2. /\ port' \in PortType /\ port'.clb = "AHCI_BASE"
      /\ UNCHANGED <<port.ST, port.FRE, port.CR, port.FR, port.is, port.ci, port.busy>>
    BY Zenon DEF Rebase, AhciTypeOK, PortType
<1>3. memory' \in [Headers -> HeaderType]
    BY ZeroHeaderType DEF Rebase
<1>4. AhciTypeOK'
    BY <1>1, <1>2, <1>3, Zenon DEF AhciTypeOK
<1>. QED
    BY <1>1, <1>2, <1>4 DEF Engines, NoCommandYet, CommandDone

(* The status is cleared, a slot is found and its command is filled in. *)
LEMMA PrepareKeepsInv ==
    ASSUME AhciInv, UNCHANGED frail, ClearStatus \/ find_cmdslot \/ FillTable
    PROVE  AhciInv'
<1>. USE DEF AhciInv, Accesses, BeforeReset, BeforeMove, BeforeIssue, Reading,
             Polling, Ending
<1>1. CASE ClearStatus
  <2>1. /\ pc = "clear is" /\ pc' = "find slot"
        /\ UNCHANGED <<ghc, hba, spin, slot, buf, answer, memory, frail>>
      BY <1>1 DEF ClearStatus, SetPort, Access
  <2>2. /\ port' \in PortType /\ port'.is \subseteq port.is
        /\ UNCHANGED <<port.ST, port.FRE, port.CR, port.FR, port.clb, port.ci, port.busy>>
      BY <1>1, ZenonT(30) DEF ClearStatus, SetPort, AhciTypeOK, PortType
  <2>3. AhciTypeOK'
      BY <2>1, <2>2, Zenon DEF AhciTypeOK
  <2>. QED
      BY <2>1, <2>2, <2>3 DEF Engines, NoCommandYet, CommandDone
<1>2. CASE find_cmdslot
  <2>. DEFINE free == (0 .. ScanSlots - 1) \ port.ci
  <2>1. /\ pc = "find slot" /\ UNCHANGED <<port, ghc, hba, spin, buf, memory, frail>>
        /\ \/ pc' = "returned" /\ answer' = "no slot" /\ slot' = slot
           \/ pc' = "fill" /\ slot' \in Headers /\ answer' = answer
      BY <1>2, FreeSlot DEF find_cmdslot
  <2>2. slot' \in Nat
    <3>1. Headers \subseteq Nat
        BY AhciAssumption, SMT DEF Headers, AhciAssumption
    <3>. QED
        BY <2>1, <3>1 DEF AhciTypeOK
  <2>3. AhciTypeOK'
      BY <2>1, <2>2, Zenon DEF AhciTypeOK
  <2>. QED
      BY <2>1, <2>3 DEF Engines, NoCommandYet, CommandDone
<1>3. CASE FillTable
  <2>1. /\ pc = "fill" /\ pc' = "read FRE"
        /\ UNCHANGED <<port, ghc, hba, spin, slot, buf, answer, frail>>
        /\ slot \in Headers
        /\ memory' = [memory EXCEPT ![slot] = ReadCommand(memory[slot], 1, 0, 1)]
      BY <1>3 DEF FillTable, Access, CommandDone
  <2>2. memory[slot] \in HeaderType /\ memory \in [Headers -> HeaderType]
      BY <2>1 DEF AhciTypeOK
  <2>3. 1 \in Word /\ 0 \in HalfWord /\ 1 \in HalfWord
      BY SMT DEF Word, HalfWord
  <2>4. /\ memory' \in [Headers -> HeaderType]
        /\ memory'[slot] = ReadCommand(memory[slot], 1, 0, 1)
      BY <2>1, <2>2, WrittenIsHeader
  <2>5. Reads(memory'[slot], 1, 0, 1)
      BY <2>2, <2>3, <2>4, ReadsWhatIsWritten
  <2>6. AhciTypeOK'
      BY <2>1, <2>4, Zenon DEF AhciTypeOK
  <2>. QED
      BY <2>1, <2>5, <2>6 DEF Engines, NoCommandYet, CommandDone
<1>. QED
    BY <1>1, <1>2, <1>3

(* The wait for the device, and the issue of the command. *)
LEMMA IssueKeepsInv ==
    ASSUME AhciInv, UNCHANGED frail, SpinWhileBusy \/ Hung \/ Issue
    PROVE  AhciInv'
<1>. USE DEF AhciInv, Accesses, BeforeReset, BeforeMove, BeforeIssue, Reading,
             Polling, Ending
<1>1. CASE SpinWhileBusy
  <2>1. /\ pc = "busy?" /\ UNCHANGED <<port, ghc, hba, slot, buf, answer, memory, frail>>
        /\ \/ pc' = "busy?" /\ spin < SpinLimit /\ spin' = spin + 1
           \/ pc' = "hung?" /\ spin' = spin /\ ~(port.busy /\ spin < SpinLimit)
      BY <1>1 DEF SpinWhileBusy
  <2>2. spin \in 0 .. SpinLimit
      BY DEF AhciTypeOK
  <2>3. spin' \in 0 .. SpinLimit /\ (spin # SpinLimit => spin < SpinLimit)
      BY <2>1, <2>2, AhciAssumption, SMT DEF AhciAssumption
  <2>4. AhciTypeOK'
      BY <2>1, <2>3, Zenon DEF AhciTypeOK
  <2>. QED
      BY <2>1, <2>3, <2>4 DEF Engines, NoCommandYet, CommandDone
<1>2. CASE Hung
  <2>1. /\ pc = "hung?" /\ UNCHANGED <<port, ghc, hba, spin, slot, buf, memory, frail>>
        /\ \/ pc' = "returned" /\ answer' = "hung"
           \/ pc' = "issue" /\ answer' = answer /\ spin # SpinLimit
      BY <1>2 DEF Hung
  <2>2. AhciTypeOK'
      BY <2>1, Zenon DEF AhciTypeOK
  <2>. QED
      BY <2>1, <2>2 DEF Engines, NoCommandYet, CommandDone
<1>3. CASE Issue
  <2>1. /\ pc = "issue" /\ pc' = "done?"
        /\ UNCHANGED <<ghc, hba, spin, slot, buf, answer, memory, frail>>
        /\ port' = [port EXCEPT !.ci = @ \cup {slot}]
      BY <1>3 DEF Issue, SetPort, Access, Engines
  <2>2. /\ port' \in PortType /\ port'.ci = {slot}
        /\ UNCHANGED <<port.ST, port.FRE, port.CR, port.FR, port.clb, port.is, port.busy>>
    <3>1. port \in PortType /\ slot \in Nat /\ port.ci = {}
        BY <2>1 DEF AhciTypeOK, NoCommandYet
    <3>. QED
        BY <2>1, <3>1, ZenonT(30) DEF PortType
  <2>3. AhciTypeOK'
      BY <2>1, <2>2, Zenon DEF AhciTypeOK
  <2>4. hba = "idle"
      BY <2>1 DEF NoCommandYet
  <2>. QED
      BY <2>1, <2>2, <2>3, <2>4 DEF Engines, NoCommandYet, CommandDone
<1>. QED
    BY <1>1, <1>2, <1>3

(* The end of read_bytes: the bit of the command is cleared, or an error   *)
(* has stopped the HBA.                                                    *)
LEMMA FinishKeepsInv ==
    ASSUME AhciInv, UNCHANGED frail, Done \/ Error \/ Terminate
    PROVE  AhciInv'
<1>. USE DEF AhciInv, Accesses, BeforeReset, BeforeMove, BeforeIssue, Reading,
             Polling, Ending
<1>1. CASE Done
  <2>1. /\ pc = "done?" /\ UNCHANGED <<port, ghc, hba, spin, slot, buf, memory, frail>>
        /\ \/ pc' = "error?" /\ answer' = answer
           \/ pc' = "returned" /\ answer' = "read" /\ slot \notin port.ci
      BY <1>1 DEF Done
  <2>2. AhciTypeOK'
      BY <2>1, Zenon DEF AhciTypeOK
  <2>3. slot \notin port.ci => port.ci = {} /\ hba = "idle" /\ buf.data
      BY <2>1 DEF CommandDone
  <2>. QED
      BY <2>1, <2>2, <2>3 DEF Engines, NoCommandYet, CommandDone
<1>2. CASE Error
  <2>1. /\ pc = "error?" /\ UNCHANGED <<port, ghc, hba, spin, slot, buf, memory, frail>>
        /\ \/ pc' = "done?" /\ answer' = answer
           \/ pc' = "returned" /\ answer' = "error" /\ TFES \in port.is
      BY <1>2 DEF Error
  <2>2. AhciTypeOK'
      BY <2>1, Zenon DEF AhciTypeOK
  <2>. QED
      BY <2>1, <2>2 DEF Engines, NoCommandYet, CommandDone
<1>3. CASE Terminate
  <2>1. /\ pc = "returned" /\ pc' = "loop"
        /\ UNCHANGED <<port, ghc, hba, spin, slot, answer, memory, frail>>
      BY <1>3 DEF Terminate, Access
  <2>2. /\ buf' \in [data : BOOLEAN, terminated : BOOLEAN]
        /\ buf'.data = buf.data /\ buf'.terminated = TRUE
      BY <1>3, Zenon DEF Terminate, AhciTypeOK
  <2>3. AhciTypeOK'
      BY <2>1, <2>2, Zenon DEF AhciTypeOK
  <2>. QED
      BY <2>1, <2>2, <2>3 DEF Engines, NoCommandYet, CommandDone
<1>. QED
    BY <1>1, <1>2, <1>3

(* Every step of the driver keeps the invariant. *)
LEMMA DriverKeepsInv ==
    ASSUME AhciInv, UNCHANGED frail, Driver
    PROVE  AhciInv'
BY BitStepsKeepInv, AwaitsKeepInv, ResetStepsKeepInv, RebaseKeepsInv,
   PrepareKeepsInv, IssueKeepsInv, FinishKeepsInv
DEF Driver, port_rebase, stop_cmd, start_cmd, ResetHba, read_bytes, start_port

(* A step that changes only the port has to be judged by the port alone.   *)
LEMMA PortTypeKept ==
    ASSUME AhciTypeOK, port' \in PortType,
           UNCHANGED <<pc, ghc, hba, spin, slot, buf, answer, memory, frail>>
    PROVE  AhciTypeOK'
BY Zenon DEF AhciTypeOK

(* The steps of the HBA, whenever they come between those of the driver.   *)
LEMMA EnginesKeepInv ==
    ASSUME AhciInv, UNCHANGED frail, EnginesFollow
    PROVE  AhciInv'
<1>. USE DEF AhciInv, Accesses, BeforeReset, BeforeMove, BeforeIssue, Reading,
             Polling, Ending
<1>1. UNCHANGED <<pc, ghc, hba, spin, slot, buf, answer, memory, frail>> /\ ~ghc.HR
    BY DEF EnginesFollow, Hba
<1>2. CASE port.CR # port.ST /\ Hba([port EXCEPT !.CR = port.ST], hba)
  <2>1. /\ port' \in PortType /\ port'.CR = port.ST
        /\ UNCHANGED <<port.ST, port.FRE, port.FR, port.clb, port.is, port.ci, port.busy>>
      BY <1>2, Zenon DEF Hba, AhciTypeOK, PortType
  <2>2. AhciTypeOK'
      BY <1>1, <2>1, PortTypeKept
  <2>. QED
      BY <1>1, <2>1, <2>2 DEF Engines, NoCommandYet, CommandDone
<1>3. CASE port.FR # port.FRE /\ Hba([port EXCEPT !.FR = port.FRE], hba)
  <2>1. /\ port' \in PortType /\ port'.FR = port.FRE
        /\ UNCHANGED <<port.ST, port.FRE, port.CR, port.clb, port.is, port.ci, port.busy>>
      BY <1>3, Zenon DEF Hba, AhciTypeOK, PortType
  <2>2. AhciTypeOK'
      BY <1>1, <2>1, PortTypeKept
  <2>. QED
      BY <1>1, <2>1, <2>2 DEF Engines, NoCommandYet, CommandDone
<1>. QED
    BY <1>2, <1>3 DEF EnginesFollow

(* The end of the reset and the first FIS after it. *)
LEMMA ResetKeepsInv ==
    ASSUME AhciInv, UNCHANGED frail, ResetDone \/ FirstFis
    PROVE  AhciInv'
<1>. USE DEF AhciInv, Accesses, BeforeReset, BeforeMove, BeforeIssue, Reading,
             Polling, Ending
<1>1. CASE ResetDone
  <2>1. /\ UNCHANGED <<pc, spin, slot, buf, answer, memory, frail>>
        /\ ghc.HR /\ pc = "reset wait"
        /\ ghc' = [AE |-> FALSE, HR |-> FALSE]
        /\ hba' = "link down"
      BY <1>1 DEF ResetDone, NoCommandYet
  <2>2. /\ port' \in PortType /\ port'.clb = port.clb
        /\ port'.is = {} /\ port'.ci = {} /\ port'.busy = TRUE
      BY <1>1, Zenon DEF ResetDone, AhciTypeOK, PortType
  <2>3. AhciTypeOK'
      BY <2>1, <2>2, Zenon DEF AhciTypeOK
  <2>. QED
      BY <2>1, <2>2, <2>3 DEF Engines, NoCommandYet, CommandDone
<1>2. CASE FirstFis
  <2>1. /\ UNCHANGED <<pc, ghc, spin, slot, buf, answer, memory, frail>> /\ ~ghc.HR
        /\ hba = "link down" /\ hba' = "idle"
      BY <1>2 DEF FirstFis, Hba
  <2>2. PICK noise \in SUBSET {INFS} :
           port' = [port EXCEPT !.busy = FALSE, !.is = @ \cup noise]
      BY <1>2 DEF FirstFis, Hba
  <2>3. /\ port' \in PortType /\ port'.busy = FALSE /\ port'.is = port.is \cup noise
        /\ UNCHANGED <<port.ST, port.FRE, port.CR, port.FR, port.clb, port.ci>>
      BY <2>2, ZenonT(30) DEF AhciTypeOK, PortType
  <2>4. TFES \in port'.is => TFES \in port.is
      BY <2>3 DEF TFES, INFS
  <2>5. AhciTypeOK'
      BY <2>1, <2>3, Zenon DEF AhciTypeOK
  <2>. QED
      BY <2>1, <2>3, <2>4, <2>5 DEF Engines, NoCommandYet, CommandDone
<1>. QED
    BY <1>1, <1>2

(* A command runs only from its issue on. *)
LEMMA CommandFacts ==
    ASSUME AhciInv, ~ghc.HR, hba \in {"running", "transferred"}
    PROVE  pc \in Polling /\ slot \in port.ci /\ port.ci = {slot}
<1>0. AhciTypeOK /\ NoCommandYet /\ CommandDone /\ hba \notin {"idle", "link down", "stopped"}
    BY DEF AhciInv
<1>1. pc \notin BeforeReset \cup {"reset wait"} \cup BeforeIssue
    BY <1>0, Zenon DEF NoCommandYet
<1>2. pc \notin Ending
    BY <1>0 DEF CommandDone
<1>3. pc \in Polling
    BY <1>0, <1>1, <1>2, Zenon DEF AhciTypeOK, Accesses
<1>4. /\ port.ci \subseteq {slot}
      /\ hba # "idle" => slot \in port.ci
    BY <1>0, <1>3, Zenon DEF CommandDone
<1>. QED
    BY <1>0, <1>3, <1>4

(* The HBA carries a command out: fetch, transfer and completion. *)
LEMMA TransferKeepsInv ==
    ASSUME AhciInv, UNCHANGED frail, Fetch \/ Transfer \/ Complete
    PROVE  AhciInv'
<1>. USE DEF AhciInv, Accesses, BeforeReset, BeforeMove, BeforeIssue, Reading,
             Polling, Ending
<1>1. CASE Fetch
  <2>1. /\ UNCHANGED <<pc, ghc, spin, slot, buf, answer, memory, frail>> /\ ~ghc.HR
        /\ hba = "idle" /\ hba' = "running" /\ port.ci # {}
      BY <1>1 DEF Fetch, Hba
  <2>2. /\ port' \in PortType /\ port'.busy = TRUE
        /\ UNCHANGED <<port.ST, port.FRE, port.CR, port.FR, port.clb, port.is, port.ci>>
      BY <1>1, Zenon DEF Fetch, Hba, AhciTypeOK, PortType
  <2>3. pc \in Polling /\ slot \in port.ci
      BY <2>1 DEF AhciTypeOK, NoCommandYet, CommandDone
  <2>4. AhciTypeOK'
      BY <2>1, <2>2, Zenon DEF AhciTypeOK
  <2>. QED
      BY <2>1, <2>2, <2>3, <2>4 DEF Engines, NoCommandYet, CommandDone
<1>2. CASE Transfer
  <2>1. /\ UNCHANGED <<pc, port, ghc, spin, slot, answer, memory, frail>> /\ ~ghc.HR
        /\ hba = "running" /\ hba' = "transferred"
      BY <1>2 DEF Transfer
  <2>2. pc \in Polling /\ slot \in port.ci /\ port.ci = {slot}
      BY <2>1, CommandFacts
  <2>3. buf' = [data |-> TRUE, terminated |-> FALSE]
    <3>1. Reads(memory[slot], 1, 0, 1)
        BY <2>2 DEF CommandDone
    <3>2. Reads(memory[slot], 1, 0, 1) = TRUE
        BY <3>1, Zenon
    <3>. QED
        BY <1>2, <2>2, <3>2, Zenon DEF Transfer
  <2>4. AhciTypeOK'
      BY <2>1, <2>3, Zenon DEF AhciTypeOK
  <2>. QED
      BY <2>1, <2>2, <2>3, <2>4 DEF Engines, NoCommandYet, CommandDone
<1>3. CASE Complete
  <2>1. /\ UNCHANGED <<pc, ghc, spin, slot, buf, answer, memory, frail>> /\ ~ghc.HR
        /\ hba = "transferred" /\ hba' = "idle"
      BY <1>3 DEF Complete, Hba
  <2>2. port' = [port EXCEPT !.busy = FALSE, !.ci = @ \ {slot}, !.is = @ \cup {DHRS}]
    <3>1. port.ci = {slot}
        BY <2>1, CommandFacts
    <3>2. PICK s \in port.ci :
             port' = [port EXCEPT !.busy = FALSE, !.ci = @ \ {s}, !.is = @ \cup {DHRS}]
        BY <1>3, Zenon DEF Complete, Hba
    <3>3. s = slot
        BY <3>1, Zenon
    <3>. QED
        BY <3>2, <3>3, Zenon
  <2>3. /\ port' \in PortType /\ port'.busy = FALSE
        /\ port'.ci = port.ci \ {slot} /\ port'.is = port.is \cup {DHRS}
        /\ UNCHANGED <<port.ST, port.FRE, port.CR, port.FR, port.clb>>
      BY <2>2, ZenonT(30) DEF AhciTypeOK, PortType
  <2>4. pc \in Polling /\ port'.ci = {} /\ buf.data
      BY <2>1, <2>3, CommandFacts DEF CommandDone
  <2>5. TFES \in port'.is => TFES \in port.is
      BY <2>3 DEF TFES, DHRS
  <2>6. AhciTypeOK'
      BY <2>1, <2>3, Zenon DEF AhciTypeOK
  <2>. QED
      BY <2>1, <2>3, <2>4, <2>5, <2>6 DEF Engines, NoCommandYet, CommandDone
<1>. QED
    BY <1>1, <1>2, <1>3

(* Errors stop the HBA with the bit of the command still set. *)
LEMMA ErrorsKeepInv ==
    ASSUME AhciInv, UNCHANGED frail, DiskError \/ LinkNoise \/ LinkFails
    PROVE  AhciInv'
<1>. USE DEF AhciInv, Accesses, BeforeReset, BeforeMove, BeforeIssue, Reading,
             Polling, Ending
<1>1. /\ UNCHANGED <<pc, ghc, spin, slot, buf, answer, memory, frail>> /\ ~ghc.HR
      /\ hba \in {"running", "transferred"}
    BY DEF DiskError, LinkNoise, LinkFails, Hba
<1>2. pc \in Polling /\ slot \in port.ci /\ hba # "stopped"
    BY <1>1, CommandFacts
<1>3. CASE DiskError
  <2>1. /\ port' \in PortType /\ hba' = "stopped" /\ port'.ci = port.ci
        /\ UNCHANGED <<port.ST, port.FRE, port.CR, port.FR, port.clb>>
      BY <1>3, ZenonT(30) DEF DiskError, Hba, AhciTypeOK, PortType
  <2>2. AhciTypeOK'
      BY <1>1, <2>1, Zenon DEF AhciTypeOK
  <2>. QED
      BY <1>1, <1>2, <2>1, <2>2 DEF Engines, NoCommandYet, CommandDone
<1>4. CASE LinkNoise
  <2>1. /\ port' \in PortType /\ hba' = hba /\ port'.is = port.is \cup {INFS}
        /\ UNCHANGED <<port.ST, port.FRE, port.CR, port.FR, port.clb, port.ci, port.busy>>
      BY <1>4, ZenonT(30) DEF LinkNoise, Hba, AhciTypeOK, PortType
  <2>2. TFES \in port'.is => TFES \in port.is
      BY <2>1 DEF TFES, INFS
  <2>3. AhciTypeOK'
      BY <1>1, <2>1, Zenon DEF AhciTypeOK
  <2>. QED
      BY <1>1, <1>2, <2>1, <2>2, <2>3 DEF Engines, NoCommandYet, CommandDone
<1>5. CASE LinkFails
  <2>1. /\ port' \in PortType /\ hba' = "stopped"
        /\ UNCHANGED <<port.ST, port.FRE, port.CR, port.FR, port.clb, port.ci, port.busy>>
      BY <1>5, ZenonT(30) DEF LinkFails, Hba, AhciTypeOK, PortType
  <2>2. AhciTypeOK'
      BY <1>1, <2>1, Zenon DEF AhciTypeOK
  <2>. QED
      BY <1>1, <1>2, <2>1, <2>2 DEF Engines, NoCommandYet, CommandDone
<1>. QED
    BY <1>3, <1>4, <1>5

(* So every step keeps the invariant. *)
LEMMA NextKeepsAhciInv == AhciInv /\ [Next]_<<vars, frail>> => AhciInv'
<1>. SUFFICES ASSUME AhciInv, [Next]_<<vars, frail>> PROVE AhciInv'
    OBVIOUS
<1>1. CASE Driver /\ UNCHANGED frail
    BY <1>1, DriverKeepsInv
<1>2. CASE (Works \/ FirstFis) /\ UNCHANGED frail
    BY <1>2, EnginesKeepInv, ResetKeepsInv, TransferKeepsInv DEF Works
<1>3. CASE (DiskError \/ LinkNoise \/ LinkFails) /\ UNCHANGED frail
    BY <1>3, ErrorsKeepInv
<1>4. CASE UNCHANGED <<vars, frail>>
  <2>1. AhciTypeOK'
      BY <1>4, Zenon DEF AhciInv, AhciTypeOK, vars
  <2>2. Engines'
      BY <1>4, Zenon DEF AhciInv, Engines, vars
  <2>3. NoCommandYet'
      BY <1>4, Zenon DEF AhciInv, NoCommandYet, vars
  <2>4. CommandDone'
      BY <1>4, Zenon DEF AhciInv, CommandDone, vars
  <2>. QED
      BY <2>1, <2>2, <2>3, <2>4 DEF AhciInv
<1>. QED
    BY <1>1, <1>2, <1>3, <1>4 DEF Next

(* The invariant holds at every moment of every execution. *)
THEOREM AhciInvariant == Spec => []AhciInv
BY InitAhciInv, NextKeepsAhciInv, PTL DEF Spec

(* The properties of states follow. *)

(* When read_bytes returns true the data of the sector is in the buffer.   *)
THEOREM TrueIsRead == Spec => []TrueMeansRead
<1>1. AhciInv => TrueMeansRead
    BY DEF AhciInv, CommandDone, TrueMeansRead
<1>. QED
    BY <1>1, AhciInvariant, PTL

(* The terminator is never overwritten by a transfer that was still under  *)
(* way when read_bytes returned.                                           *)
THEOREM NothingArrivesLate == Spec => []NoLateTransfer
<1>1. AhciInv => NoLateTransfer
    BY DEF AhciInv, CommandDone, NoLateTransfer
<1>. QED
    BY <1>1, AhciInvariant, PTL

(* Only two accesses of the driver touch the address of the command list   *)
(* and set a bit of PxCI.                                                  *)
LEMMA DriverTouches ==
    ASSUME AhciInv, Driver
    PROVE  /\ port'.clb = port.clb \/ Rebase
           /\ port'.ci = port.ci \/ Issue
<1>. port \in PortType
    BY DEF AhciInv, AhciTypeOK
<1>1. CASE port_rebase
    BY <1>1, ZenonT(30)
    DEF port_rebase, stop_cmd, start_cmd, Rebase, SetPort, Await, PortType
<1>2. CASE ResetHba
    BY <1>2 DEF ResetHba, SetGhc, Await
<1>3. CASE ClearStatus \/ start_port
    BY <1>3, ZenonT(30) DEF ClearStatus, start_port, SetPort, PortType
<1>4. CASE Issue
    BY <1>4, ZenonT(30) DEF Issue, SetPort, PortType
<1>5. CASE find_cmdslot \/ FillTable \/ SpinWhileBusy \/ Hung \/ Done \/ Error
           \/ Terminate
    BY <1>5 DEF find_cmdslot, FillTable, SpinWhileBusy, Hung, Done, Error, Terminate
<1>. QED
    BY <1>1, <1>2, <1>3, <1>4, <1>5 DEF Driver, read_bytes

(* The HBA never moves the command list, and never sets a bit of PxCI. *)
LEMMA HbaTouches ==
    ASSUME AhciInv, Works \/ FirstFis \/ DiskError \/ LinkNoise \/ LinkFails
    PROVE  /\ port'.clb = port.clb
           /\ port'.ci \subseteq port.ci
<1>. port \in PortType
    BY DEF AhciInv, AhciTypeOK
<1>1. CASE EnginesFollow
    BY <1>1, ZenonT(30) DEF EnginesFollow, Hba, PortType
<1>2. CASE ResetDone
    BY <1>2, ZenonT(30) DEF ResetDone, PortType
<1>3. CASE FirstFis
    BY <1>3, ZenonT(30) DEF FirstFis, Hba, PortType
<1>4. CASE Fetch
    BY <1>4, ZenonT(30) DEF Fetch, Hba, PortType
<1>5. CASE Transfer
    BY <1>5 DEF Transfer
<1>6. CASE Complete
  <2>1. PICK s :
           port' = [port EXCEPT !.busy = FALSE, !.ci = @ \ {s}, !.is = @ \cup {DHRS}]
      BY <1>6, Zenon DEF Complete, Hba
  <2>. QED
      BY <2>1, ZenonT(30) DEF PortType
<1>7. CASE DiskError
    BY <1>7, ZenonT(30) DEF DiskError, Hba, PortType
<1>8. CASE LinkNoise \/ LinkFails
    BY <1>8, ZenonT(30) DEF LinkNoise, LinkFails, Hba, PortType
<1>. QED
    BY <1>1, <1>2, <1>3, <1>4, <1>5, <1>6, <1>7, <1>8 DEF Works

(* The command list and the FIS area are moved only while the port uses    *)
(* neither.                                                                *)
LEMMA MoveStep ==
    ASSUME AhciInv, Next, port'.clb # port.clb
    PROVE  ~port.CR /\ ~port.FR /\ port.ci = {} /\ port.clb = "bios"
<1>1. Rebase
    BY DriverTouches, HbaTouches DEF Next
<1>. QED
    BY <1>1 DEF Rebase, Access, AhciInv, Engines, NoCommandYet, BeforeMove, BeforeReset

(* A command is issued to a port that runs, whose device is ready for it.  *)
LEMMA IssueStep ==
    ASSUME AhciInv, Next, port'.ci # {}, port.ci = {}
    PROVE  /\ hba = "idle" /\ ~port.busy
           /\ port.ST /\ port.FRE /\ port.clb = "AHCI_BASE"
<1>1. Issue
    BY DriverTouches, HbaTouches DEF Next
<1>. QED
    BY <1>1 DEF Issue, SetPort, Access, AhciInv, Engines, NoCommandYet, BeforeMove,
                BeforeReset, BeforeIssue, Reading

(* So the move of the tables never disturbs an engine that runs.           *)
THEOREM MovesWhileStopped == Spec => MovedWhileStopped
<1>1. AhciInv /\ [Next]_<<vars, frail>> =>
        [port'.clb # port.clb =>
           ~port.CR /\ ~port.FR /\ port.ci = {} /\ port.clb = "bios"]_vars
    BY MoveStep DEF vars
<1>. QED
    BY <1>1, AhciInvariant, PTL DEF Spec, MovedWhileStopped

(* And no command is handed to a device that could not take it.            *)
THEOREM IssuesToReadyDevice == Spec => IssuedToReadyDevice
<1>1. AhciInv /\ [Next]_<<vars, frail>> =>
        [port'.ci # {} /\ port.ci = {} =>
           /\ hba = "idle" /\ ~port.busy
           /\ port.ST /\ port.FRE /\ port.clb = "AHCI_BASE"]_vars
    BY IssueStep DEF vars
<1>. QED
    BY <1>1, AhciInvariant, PTL DEF Spec, IssuedToReadyDevice

-----------------------------------------------------------------------------
(* The scan and the driver after it.                                       *)

Before(p, q) == \/ p.bus < q.bus
                \/ p.bus = q.bus /\ p.slot < q.slot
                \/ p.bus = q.bus /\ p.slot = q.slot /\ p.fn < q.fn

(* What Scan takes for a controller. *)
Hit(p) == P!pci_device_exists(p.bus, p.slot) /\ P!read_class(p.bus, p.slot, p.fn) = P!SATA

Registers == [class : {P!SATA, "other"}, bar : {"bios", "mask"},
              intxOff : BOOLEAN, busMaster : BOOLEAN, errors : BOOLEAN]

Turns == [bus : 0 .. BusCount, slot : 0 .. SlotCount - 1, fn : 0 .. FnCount - 1]

PciTypeOK ==
    /\ step \in {"scan", "size", "restore", "command", "exit"}
    /\ at \in Turns
    /\ found \in P!Scanned \cup {P!NotFound}
    /\ bar_val \in {"unset", "bios"}
    /\ DOMAIN functions \subseteq P!Locations
    /\ functions \in [DOMAIN functions -> Registers]

(* Function 0 is there on every device, and no turn of the loops that is   *)
(* over has met a controller.                                              *)
ScanInv ==
    /\ \A loc \in DOMAIN functions : [loc EXCEPT !.fn = 0] \in DOMAIN functions
    /\ step = "scan" => found = P!NotFound /\ at.bus < BusCount
    /\ step \in {"size", "restore", "command"} => found # P!NotFound
    /\ step = "exit" /\ found = P!NotFound => at.bus = BusCount
    /\ found = P!NotFound => \A p \in P!Scanned : Before(p, at) => ~Hit(p)

(* The address register is restored before the driver reads it. *)
SetupInv ==
    /\ step \in {"scan", "size"} =>
          \A loc \in DOMAIN functions : functions[loc].bar = "bios"
    /\ found # P!NotFound =>
          /\ P!Controller \in DOMAIN functions
          /\ functions[P!Controller].class = P!SATA
          /\ step \in {"restore", "command", "exit"} => bar_val = "bios"
          /\ step \in {"command", "exit"} => functions[P!Controller].bar = "bios"
          /\ step = "exit" => functions[P!Controller].busMaster

PciInv == /\ PciTypeOK
          /\ ScanInv
          /\ SetupInv

DiskInv == AhciInv /\ PciInv

-----------------------------------------------------------------------------
(* Addresses.                                                              *)

(* A byte is the sum of its bits. *)
LEMMA SameBits ==
    ASSUME NEW k \in 0 .. 255, NEW n \in 0 .. 255,
           \A w \in P!Weights : P!Bit(k, w) = 1 <=> P!Bit(n, w) = 1
    PROVE  k = n
<1>1. \A x \in 0 .. 255 :
        x = P!Bit(x, 1) + 2 * P!Bit(x, 2) + 4 * P!Bit(x, 4) + 8 * P!Bit(x, 8)
            + 16 * P!Bit(x, 16) + 32 * P!Bit(x, 32) + 64 * P!Bit(x, 64)
            + 128 * P!Bit(x, 128)
    BY Z3 DEF P!Bit
<1>2. \A x \in 0 .. 255, w \in P!Weights : P!Bit(x, w) \in {0, 1}
    BY SMT DEF P!Bit, P!Weights
<1>3. \A w \in P!Weights : P!Bit(k, w) = P!Bit(n, w)
    BY <1>2
<1>. QED
    BY <1>1, <1>3 DEF P!Weights

(* A bus number is left alone by a slot of its own. *)
LEMMA OrZero == \A n \in 0 .. 255 : P!BitOr(n, 0) = n
<1>. TAKE n \in 0 .. 255
<1>. DEFINE Fits(k) == \A w \in P!Weights :
                         P!Bit(k, w) = 1 <=> P!Bit(n, w) = 1 \/ P!Bit(0, w) = 1
<1>1. \A w \in P!Weights : P!Bit(0, w) # 1
    BY SMT DEF P!Bit, P!Weights
<1>2. Fits(n)
    BY <1>1
<1>3. \A k \in 0 .. 255 : Fits(k) => k = n
    BY <1>1, SameBits
<1>. HIDE DEF Fits
<1>4. n = CHOOSE k \in 0 .. 255 : Fits(k)
    BY <1>2, <1>3
<1>. QED
    BY <1>4, Zenon DEF P!BitOr, Fits

(* So every function on every bus is at the address of some turn. *)
LEMMA AddressReaches ==
    ASSUME NEW loc \in P!Locations
    PROVE  /\ [bus |-> loc.bus, slot |-> loc.device, fn |-> loc.fn] \in P!Scanned
           /\ P!Address(loc.bus, loc.device, loc.fn) = loc
           /\ P!Address(loc.bus, loc.device, 0) = [loc EXCEPT !.fn = 0]
<1>1. /\ loc.bus \in 0 .. BusCount - 1 /\ loc.device \in 0 .. DeviceCount - 1
      /\ loc.fn \in 0 .. FnCount - 1
    BY DEF P!Locations
<1>2. DeviceCount \in Nat \ {0} /\ BusCount \in Nat /\ DeviceCount <= SlotCount
         /\ BusCount <= 256 /\ SlotCount \in Nat
    BY DiskPhaseAssumption DEF P!PciAssumption
<1>3. loc.device \div DeviceCount = 0 /\ loc.device % DeviceCount = loc.device
    BY <1>1, <1>2, Z3
<1>4. P!BitOr(loc.bus, 0) = loc.bus
    BY <1>1, <1>2, OrZero
<1>5. loc.device \in 0 .. SlotCount - 1
    BY <1>1, <1>2
<1>6. \A fn : P!Address(loc.bus, loc.device, fn)
                = [bus |-> loc.bus, device |-> loc.device, fn |-> fn]
    BY <1>3, <1>4, Zenon DEF P!Address
<1>7. loc = [bus |-> loc.bus, device |-> loc.device, fn |-> loc.fn]
    BY DEF P!Locations
<1>8. [loc EXCEPT !.fn = 0] = [bus |-> loc.bus, device |-> loc.device, fn |-> 0]
    BY DEF P!Locations
<1>9. [bus |-> loc.bus, slot |-> loc.device, fn |-> loc.fn] \in P!Scanned
    BY <1>1, <1>5 DEF P!Scanned
<1>. QED
    BY <1>6, <1>7, <1>8, <1>9

-----------------------------------------------------------------------------
(* The scan.                                                               *)

(* What the assumptions say of the numbers of buses, slots and functions. *)
LEMMA Parameters ==
    /\ BusCount \in Nat \ {0} /\ DeviceCount \in Nat \ {0}
    /\ SlotCount \in Nat \ {0} /\ FnCount \in Nat \ {0}
BY DiskPhaseAssumption DEF P!PciAssumption

(* A scan that has come to its end without a controller has not missed one. *)
LEMMA NoneMissed ==
    ASSUME PciInv, found = P!NotFound, at.bus = BusCount
    PROVE  P!Controllers = {}
<1>. SUFFICES ASSUME NEW loc \in DOMAIN functions, functions[loc].class = P!SATA
              PROVE  FALSE
    BY DEF P!Controllers
<1>. loc \in P!Locations
    BY DEF PciInv, PciTypeOK
<1>. DEFINE p == [bus |-> loc.bus, slot |-> loc.device, fn |-> loc.fn]
<1>1. p \in P!Scanned /\ P!Address(p.bus, p.slot, p.fn) = loc
        /\ P!Address(p.bus, p.slot, 0) = [loc EXCEPT !.fn = 0]
    BY AddressReaches
<1>. HIDE DEF p
<1>2. Before(p, at)
    BY <1>1, Parameters DEF Before, P!Scanned
<1>3. [loc EXCEPT !.fn = 0] \in DOMAIN functions
    BY DEF PciInv, ScanInv
<1>4. Hit(p)
    BY <1>1, <1>3 DEF Hit, P!pci_device_exists, P!read_class
<1>. QED
    BY <1>1, <1>2, <1>4 DEF PciInv, ScanInv

(* The turn that comes next is one, and only one turn is passed.           *)
LEMMA NextTurn ==
    ASSUME NEW q \in P!Scanned
    PROVE  /\ P!Following(q) \in Turns
           /\ P!Following(q).bus \in {q.bus, q.bus + 1}
           /\ \A p \in P!Scanned : Before(p, P!Following(q)) => Before(p, q) \/ p = q
<1>. /\ q.bus \in 0 .. BusCount - 1 /\ q.slot \in 0 .. SlotCount - 1
     /\ q.fn \in 0 .. FnCount - 1
     /\ q = [bus |-> q.bus, slot |-> q.slot, fn |-> q.fn]
    BY DEF P!Scanned
<1>0. \A p \in P!Scanned :
         /\ p.bus \in 0 .. BusCount - 1 /\ p.slot \in 0 .. SlotCount - 1
         /\ p.fn \in 0 .. FnCount - 1
         /\ p = [bus |-> p.bus, slot |-> p.slot, fn |-> p.fn]
    BY DEF P!Scanned
<1>1. CASE q.fn < FnCount - 1
  <2>1. P!Following(q) = [bus |-> q.bus, slot |-> q.slot, fn |-> q.fn + 1]
      BY <1>1, Parameters DEF P!Following
  <2>. QED
      BY <1>0, <1>1, <2>1, Parameters DEF Before, Turns
<1>2. CASE q.fn = FnCount - 1 /\ q.slot < SlotCount - 1
  <2>1. P!Following(q) = [bus |-> q.bus, slot |-> q.slot + 1, fn |-> 0]
    <3>1. ~(q.fn < FnCount - 1)
        BY <1>2, Parameters
    <3>2. P!Following(q) = [q EXCEPT !.fn = 0, !.slot = @ + 1]
        BY <1>2, <3>1, Zenon DEF P!Following
    <3>. QED
        BY <3>2, Zenon DEF P!Scanned
  <2>. QED
      BY <1>0, <1>2, <2>1, Parameters DEF Before, Turns
<1>3. CASE q.fn = FnCount - 1 /\ q.slot = SlotCount - 1
  <2>1. P!Following(q) = [bus |-> q.bus + 1, slot |-> 0, fn |-> 0]
      BY <1>3, Parameters DEF P!Following
  <2>. QED
      BY <1>0, <1>3, <2>1, Parameters DEF Before, Turns
<1>. QED
    BY <1>1, <1>2, <1>3, Parameters

(* Initially the scan is at the first location, and the BIOS has given     *)
(* every function its address.                                             *)
LEMMA InitPciInv == P!Init => PciInv
<1>. SUFFICES ASSUME P!Init PROVE PciInv
    OBVIOUS
<1>. PICK there \in SUBSET P!Locations :
        /\ P!DevicesOf(there) \subseteq there
        /\ \E sata \in SUBSET there, errors \in BOOLEAN :
             functions = [loc \in there |->
                 [class |-> IF loc \in sata THEN P!SATA ELSE "other",
                  bar |-> "bios", intxOff |-> TRUE, busMaster |-> FALSE,
                  errors |-> errors]]
    BY Zenon DEF P!Init
<1>. PICK sata \in SUBSET there, errors \in BOOLEAN :
        functions = [loc \in there |->
            [class |-> IF loc \in sata THEN P!SATA ELSE "other",
             bar |-> "bios", intxOff |-> TRUE, busMaster |-> FALSE,
             errors |-> errors]]
    OBVIOUS
<1>1. step = "scan" /\ at = [bus |-> 0, slot |-> 0, fn |-> 0]
        /\ found = P!NotFound /\ bar_val = "unset"
    BY DEF P!Init
<1>2. DOMAIN functions = there
    OBVIOUS
<1>3. \A loc \in there :
        /\ functions[loc] \in Registers
        /\ functions[loc].bar = "bios"
    BY ZenonT(30) DEF Registers
<1>4. functions \in [DOMAIN functions -> Registers]
    BY <1>2, <1>3
<1>5. at \in Turns
    BY <1>1, Parameters DEF Turns
<1>6. \A p \in P!Scanned : ~Before(p, at)
    BY <1>1, Parameters DEF Before, P!Scanned
<1>7. \A loc \in there : [loc EXCEPT !.fn = 0] \in there
    BY Zenon DEF P!DevicesOf
<1>. QED
    BY <1>1, <1>2, <1>3, <1>4, <1>5, <1>6, <1>7, Parameters
    DEF PciInv, PciTypeOK, ScanInv, SetupInv

(* A turn of the scan. *)
LEMMA ScanKeepsInv ==
    ASSUME PciInv, P!Scan
    PROVE  PciInv'
<1>. USE DEF PciInv
<1>1. step = "scan" /\ found = P!NotFound /\ at \in P!Scanned
        /\ UNCHANGED <<bar_val, functions>>
    BY Parameters DEF P!Scan, PciTypeOK, ScanInv, Turns, P!Scanned
<1>2. at # P!NotFound
    BY <1>1, Parameters DEF P!Scanned, P!NotFound
<1>3. CASE Hit(at)
  <2>1. step' = "size" /\ found' = at /\ at' = at
      BY <1>3 DEF P!Scan, Hit
  <2>2. P!Controller' = P!Address(at.bus, at.slot, at.fn)
      BY <2>1 DEF P!Controller, P!Address
  <2>3. P!Controller' \in DOMAIN functions /\ functions[P!Controller'].class = P!SATA
      BY <1>3, <2>2 DEF Hit, P!read_class, P!SATA
  <2>4. PciTypeOK'
      BY <1>1, <2>1 DEF PciTypeOK
  <2>5. ScanInv'
      BY <1>1, <1>2, <2>1 DEF ScanInv
  <2>6. SetupInv'
      BY <1>1, <2>1, <2>3 DEF SetupInv
  <2>. QED
      BY <2>4, <2>5, <2>6
<1>4. CASE ~Hit(at)
  <2>1. step' = (IF P!Following(at).bus = BusCount THEN "exit" ELSE "scan")
          /\ found' = found /\ at' = P!Following(at)
      BY <1>4 DEF P!Scan, Hit
  <2>2. at' \in Turns /\ at'.bus \in 0 .. BusCount
      BY <1>1, <2>1, NextTurn DEF Turns
  <2>3. \A p \in P!Scanned : Hit(p)' = Hit(p)
      BY <1>1 DEF Hit, P!pci_device_exists, P!read_class
  <2>4. \A p \in P!Scanned : Before(p, at)' => Before(p, at) \/ p = at
      BY <1>1, <2>1, NextTurn DEF Before
  <2>5. PciTypeOK'
      BY <1>1, <2>1, <2>2 DEF PciTypeOK
  <2>6. ScanInv'
      BY <1>1, <1>4, <2>1, <2>2, <2>3, <2>4, Parameters DEF ScanInv
  <2>7. SetupInv'
      BY <1>1, <2>1 DEF SetupInv
  <2>. QED
      BY <2>5, <2>6, <2>7
<1>. QED
    BY <1>3, <1>4

-----------------------------------------------------------------------------
(* The setup of the controller.                                            *)

(* A write to the controller's registers changes nothing that the scan has *)
(* found out.                                                              *)
LEMMA WriteKeepsScan ==
    ASSUME PciInv, found # P!NotFound, UNCHANGED <<at, found>>,
           step' \in {"restore", "command", "exit"}, bar_val' \in {"unset", "bios"},
           NEW r \in Registers,
           functions' = [functions EXCEPT ![P!Controller] = r]
    PROVE  /\ PciTypeOK' /\ ScanInv'
           /\ P!Controller' = P!Controller
           /\ P!Controller' \in DOMAIN functions'
           /\ functions'[P!Controller] = r
<1>1. P!Controller \in DOMAIN functions /\ functions \in [DOMAIN functions -> Registers]
    BY DEF PciInv, PciTypeOK, SetupInv
<1>2. DOMAIN functions' = DOMAIN functions
    OBVIOUS
<1>3. functions' \in [DOMAIN functions -> Registers] /\ functions'[P!Controller] = r
    BY <1>1
<1>4. P!Controller' = P!Controller
    BY DEF P!Controller, P!Address
<1>5. PciTypeOK'
    BY <1>2, <1>3 DEF PciInv, PciTypeOK
<1>6. ScanInv'
    BY <1>2 DEF PciInv, ScanInv
<1>. QED
    BY <1>1, <1>2, <1>3, <1>4, <1>5, <1>6

(* Setting up the controller that was found keeps the invariant. *)
LEMMA SetupKeepsInv ==
    ASSUME PciInv, P!SizeBar \/ P!RestoreBar \/ P!SetCommand
    PROVE  PciInv'
<1>. DEFINE C == P!Controller
<1>1. /\ step \in {"size", "restore", "command"} /\ found # P!NotFound
      /\ UNCHANGED <<at, found>>
    BY DEF PciInv, ScanInv, P!SizeBar, P!RestoreBar, P!SetCommand
<1>2. C \in DOMAIN functions /\ functions[C] \in Registers /\ functions[C].class = P!SATA
    BY <1>1 DEF PciInv, PciTypeOK, SetupInv
<1>3. CASE P!SizeBar
  <2>. DEFINE r == [functions[C] EXCEPT !.bar = "mask"]
  <2>1. r \in Registers /\ r.class = P!SATA
      BY <1>2, ZenonT(30) DEF Registers
  <2>2. functions' = [functions EXCEPT ![C] = r] /\ step' = "restore"
      BY <1>3 DEF P!SizeBar
  <2>3. bar_val' = "bios"
      BY <1>1, <1>2, <1>3 DEF P!SizeBar, PciInv, SetupInv
  <2>. HIDE DEF r
  <2>. QED
      BY <1>1, <2>1, <2>2, <2>3, WriteKeepsScan DEF PciInv, SetupInv
<1>4. CASE P!RestoreBar
  <2>. DEFINE r == [functions[C] EXCEPT !.bar = bar_val]
  <2>1. bar_val = "bios" /\ UNCHANGED bar_val /\ step' = "command"
      BY <1>1, <1>4 DEF P!RestoreBar, PciInv, SetupInv
  <2>2. r \in Registers /\ r.class = P!SATA /\ r.bar = "bios"
      BY <1>2, <2>1, ZenonT(30) DEF Registers
  <2>3. functions' = [functions EXCEPT ![C] = r]
      BY <1>4 DEF P!RestoreBar
  <2>. HIDE DEF r
  <2>. QED
      BY <1>1, <2>1, <2>2, <2>3, WriteKeepsScan DEF PciInv, SetupInv
<1>5. CASE P!SetCommand
  <2>. DEFINE r == [functions[C] EXCEPT !.intxOff = FALSE, !.busMaster = TRUE,
                                        !.errors = FALSE]
  <2>1. UNCHANGED bar_val /\ bar_val = "bios" /\ step' = "exit"
      BY <1>1, <1>5 DEF P!SetCommand, PciInv, SetupInv
  <2>2. r \in Registers /\ r.class = P!SATA /\ r.busMaster /\ r.bar = functions[C].bar
      BY <1>2, ZenonT(30) DEF Registers
  <2>3. functions[C].bar = "bios"
      BY <1>1, <1>5 DEF P!SetCommand, PciInv, SetupInv
  <2>4. functions' = [functions EXCEPT ![C] = r]
      BY <1>5, <1>2, Zenon DEF P!SetCommand
  <2>. HIDE DEF r
  <2>. QED
      BY <1>1, <2>1, <2>2, <2>3, <2>4, WriteKeepsScan DEF PciInv, PciTypeOK, SetupInv
<1>. QED
    BY <1>3, <1>4, <1>5

-----------------------------------------------------------------------------
(* The disk phase.                                                         *)

(* The disk phase starts with it. *)
LEMMA InitDiskInv == DiskInit => DiskInv
BY InitAhciInv, InitPciInv DEF DiskInit, DiskInv

(* Without a controller the driver is skipped, and nothing of it has been  *)
(* touched.                                                                *)
LEMMA SkipKeepsInv ==
    ASSUME AhciInv, SkipDriver
    PROVE  AhciInv'
<1>. USE DEF AhciInv, Accesses, BeforeReset, BeforeMove, BeforeIssue, Reading,
             Polling, Ending
<1>1. /\ pc = "stop ST" /\ pc' = "loop"
      /\ UNCHANGED <<port, ghc, hba, spin, slot, buf, answer, memory, frail>>
    BY DEF SkipDriver
<1>2. AhciTypeOK'
    BY <1>1, Zenon DEF AhciTypeOK
<1>3. Engines'
    BY <1>1 DEF Engines
<1>4. NoCommandYet'
    BY <1>1 DEF NoCommandYet
<1>5. CommandDone'
    BY <1>1 DEF AhciTypeOK, NoCommandYet, CommandDone
<1>. QED
    BY <1>2, <1>3, <1>4, <1>5

(* The three parts keep the invariant of their own component, and leave    *)
(* the other's variables alone.                                            *)
LEMMA NextKeepsDiskInv ==
    DiskInv /\ [DiskNext]_<<ahciVars, pciVars>> => DiskInv'
<1>. SUFFICES ASSUME DiskInv, [DiskNext]_<<ahciVars, pciVars>> PROVE DiskInv'
    OBVIOUS
<1>. AhciInv /\ PciInv
    BY DEF DiskInv
<1>1. UNCHANGED pciVars => PciInv'
  <2>. SUFFICES ASSUME UNCHANGED pciVars PROVE PciInv'
      OBVIOUS
  <2>1. PciTypeOK'
      BY DEF PciInv, PciTypeOK, pciVars
  <2>2. ScanInv'
      BY DEF PciInv, ScanInv, pciVars, Hit, Before, P!pci_device_exists, P!read_class
  <2>3. SetupInv'
      BY DEF PciInv, SetupInv, pciVars, P!Controller, P!Address
  <2>. QED
      BY <2>1, <2>2, <2>3 DEF PciInv
<1>2. UNCHANGED ahciVars => AhciInv'
    BY NextKeepsAhciInv DEF ahciVars
<1>3. CASE P!Next /\ UNCHANGED ahciVars
    BY <1>2, <1>3, ScanKeepsInv, SetupKeepsInv DEF P!Next, DiskInv
<1>4. CASE SkipDriver /\ UNCHANGED pciVars
    BY <1>1, <1>4, SkipKeepsInv DEF DiskInv
<1>5. CASE HbaInUse /\ Next /\ UNCHANGED pciVars
    BY <1>1, <1>5, NextKeepsAhciInv DEF DiskInv
<1>6. CASE UNCHANGED <<ahciVars, pciVars>>
    BY <1>1, <1>2, <1>6 DEF DiskInv
<1>. QED
    BY <1>3, <1>4, <1>5, <1>6 DEF DiskNext

(* The invariant holds at every moment of every execution. *)
THEOREM DiskInvariant == DiskSpec => []DiskInv
BY InitDiskInv, NextKeepsDiskInv, PTL DEF DiskSpec

(* The scan ends with a controller if there is one, and with nothing else. *)
THEOREM ScanFindsController == DiskSpec => []FindsController
<1>1. DiskInv => FindsController
  <2>. SUFFICES ASSUME DiskInv PROVE P!FindsController
      BY DEF FindsController
  <2>1. found # P!NotFound => P!Controller \in P!Controllers
      BY DEF DiskInv, PciInv, SetupInv, P!Controllers
  <2>2. step = "exit" /\ found = P!NotFound => P!Controllers = {}
      BY NoneMissed DEF DiskInv, PciInv, ScanInv
  <2>. QED
      BY <2>1, <2>2 DEF P!FindsController
<1>. QED
    BY <1>1, DiskInvariant, PTL

(* The controller answers where the driver looks for it, and may reach     *)
(* memory when it transfers.                                               *)
THEOREM HbaStaysReachable == DiskSpec => []HbaReachable
<1>1. DiskInv => HbaReachable
    BY DEF DiskInv, PciInv, SetupInv, HbaReachable, HbaInUse
<1>. QED
    BY <1>1, DiskInvariant, PTL

(* What is proved of the driver alone holds of it after the scan,          *)
(* and also when it is skipped: what read_bytes says of the sector...      *)
THEOREM BootTrueIsRead == DiskSpec => []TrueMeansRead
<1>1. DiskInv => TrueMeansRead
    BY DEF DiskInv, AhciInv, CommandDone, TrueMeansRead
<1>. QED
    BY <1>1, DiskInvariant, PTL

(* ... the terminator of the buffer ...                                    *)
THEOREM BootNothingArrivesLate == DiskSpec => []NoLateTransfer
<1>1. DiskInv => NoLateTransfer
    BY DEF DiskInv, AhciInv, CommandDone, NoLateTransfer
<1>. QED
    BY <1>1, DiskInvariant, PTL

(* ... the move of the command list ...                                    *)
THEOREM BootMovesWhileStopped == DiskSpec => MovedWhileStopped
<1>1. DiskInv /\ [DiskNext]_<<ahciVars, pciVars>> =>
        [port'.clb # port.clb =>
           ~port.CR /\ ~port.FR /\ port.ci = {} /\ port.clb = "bios"]_vars
  <2>. SUFFICES ASSUME AhciInv, [DiskNext]_<<ahciVars, pciVars>>, port'.clb # port.clb
                PROVE  ~port.CR /\ ~port.FR /\ port.ci = {} /\ port.clb = "bios"
      BY DEF DiskInv
  <2>1. Next
      BY DEF DiskNext, ahciVars, vars, SkipDriver
  <2>. QED
      BY <2>1, MoveStep
<1>. QED
    BY <1>1, DiskInvariant, PTL DEF DiskSpec, MovedWhileStopped

(* ... and the issue of the command.                                       *)
THEOREM BootIssuesToReadyDevice == DiskSpec => IssuedToReadyDevice
<1>1. DiskInv /\ [DiskNext]_<<ahciVars, pciVars>> =>
        [port'.ci # {} /\ port.ci = {} =>
           /\ hba = "idle" /\ ~port.busy
           /\ port.ST /\ port.FRE /\ port.clb = "AHCI_BASE"]_vars
  <2>. SUFFICES ASSUME AhciInv, [DiskNext]_<<ahciVars, pciVars>>,
                       port'.ci # {}, port.ci = {}
                PROVE  /\ hba = "idle" /\ ~port.busy
                       /\ port.ST /\ port.FRE /\ port.clb = "AHCI_BASE"
      BY DEF DiskInv
  <2>1. Next
      BY DEF DiskNext, ahciVars, vars, SkipDriver
  <2>. QED
      BY <2>1, IssueStep
<1>. QED
    BY <1>1, DiskInvariant, PTL DEF DiskSpec, IssuedToReadyDevice
=============================================================================
