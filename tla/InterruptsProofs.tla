-------------------------- MODULE InterruptsProofs --------------------------
(***************************************************************************)
(* Theorems about Interrupts, for every set of local APIC ids, scan codes  *)
(* and replies, and for every width of the counters.                       *)
(***************************************************************************)
EXTENDS Interrupts, TLAPS

(* The steps of the boot in their order. *)
Stage == [mask_pic |-> 0, idt_default |-> 1, idt_irq |-> 2, keyboard |-> 3,
          load_idt |-> 4, apic_base |-> 5, timer_count |-> 6, timer_lvt |-> 7,
          timer_unmask |-> 8, keyboard_low |-> 9, keyboard_high |-> 10,
          pit_low |-> 11, pit_high |-> 12, loop |-> 13]

at == Stage[pc]

IrqVectors == {TimerVector, KeyboardVector, PitVector}

Bytes == {NoByte} \cup ScanBytes \cup ReplyBytes

SetType ==
    [picMasked : BOOLEAN,
     idt : [Vectors -> Handlers \cup
              {"absent", "exception_double_falt", "unhandled_interrupt"}],
     idtLoaded : BOOLEAN,
     keyboard : BOOLEAN,
     apic_base : {"null", "lapic"},
     timer : [vector : {0, TimerVector}, masked : BOOLEAN,
              periodic : BOOLEAN, loaded : BOOLEAN],
     rdtable : [Pins -> [vector : {0, KeyboardVector, PitVector},
                         masked : BOOLEAN, dest : {0}]]]

(* The variables hold values of their types.  Every destination is 0: that *)
(* is what create_ioapic_rd_entry leaves of the register.                  *)
InterruptsTypeOK ==
    /\ user \in [early : BOOLEAN, replies : BOOLEAN, lapicId : LapicIds]
    /\ pc \in DOMAIN Stage
    /\ cpu \in {"start"} \cup Handlers
    /\ iflag \in BOOLEAN
    /\ set \in SetType
    /\ irr \subseteq {LegacyPitVector} \cup IrqVectors
    /\ isr \subseteq IrqVectors
    /\ obf \in Bytes
    /\ code \in Bytes
    /\ counts \in [{"timer", "keyboard", "pit"} -> 0 .. CountMod - 1]

(* What the boot has set up when it gets to a step.  No source of          *)
(* interrupts is unmasked before all that their handlers use is in place.  *)
SetUp ==
    /\ set.picMasked <=> at > 0
    /\ at > 2 => /\ set.idt[TimerVector] = "apic_timer"
                 /\ set.idt[KeyboardVector] = "ioapic_keyboard_int_stub"
                 /\ set.idt[PitVector] = "pit_timer_interrupt"
    /\ at > 3 => set.keyboard
    /\ set.idtLoaded <=> at > 4
    /\ at > 5 => set.apic_base = "lapic"
    /\ at > 7 => set.timer.vector = TimerVector
    /\ ~set.timer.masked => at > 8
    /\ \A p \in Pins : ~set.rdtable[p].masked =>
          /\ at > 8
          /\ set.rdtable[p].vector =
                IF p = KeyboardPin THEN KeyboardVector ELSE PitVector

(* An interrupt waits or is served only if its source is unmasked and, for *)
(* the pins of the I/O APIC, routed to this CPU.                           *)
Caused ==
    /\ LegacyPitVector \in irr => ~set.picMasked
    /\ TimerVector \in irr \cup isr => ~set.timer.masked
    /\ KeyboardVector \in irr \cup isr =>
          ~set.rdtable[KeyboardPin].masked /\ user.lapicId = 0
    /\ PitVector \in irr \cup isr =>
          ~set.rdtable[PitPin].masked /\ user.lapicId = 0

(* Who runs, with interrupts on or off, and what is in service then.  At   *)
(* most one vector ever is: the three have the same priority class.        *)
InService ==
    /\ iflag <=> cpu = "start" /\ set.idtLoaded
    /\ cpu = "start" => isr = {} \/ (isr = {KeyboardVector} /\ user.replies)
    /\ cpu = "apic_timer" => isr = {TimerVector}
    /\ cpu = "ioapic_keyboard_int_stub" => isr = {KeyboardVector}
    /\ cpu = "pit_timer_interrupt" => isr = {PitVector}

(* The way of a byte through the controller and the handler.  A byte that  *)
(* comes while the handler holds another one has raised its interrupt.     *)
BytesFlow ==
    /\ code # NoByte => cpu = "ioapic_keyboard_int_stub"
    /\ {obf, code} \cap ReplyBytes # {} => user.replies
    /\ code # NoByte /\ obf # NoByte => KeyboardVector \in irr
    /\ obf # NoByte /\ ~user.early /\ user.lapicId = 0 =>
          KeyboardVector \in irr \/ Reading

CountsOf == user.lapicId # 0 => counts.pit = 0 /\ counts.keyboard = 0

InterruptsInv ==
    /\ InterruptsTypeOK
    /\ SetUp
    /\ Caused
    /\ InService
    /\ BytesFlow
    /\ CountsOf

-----------------------------------------------------------------------------
(* The vectors are different numbers, the three of the kernel of one class. *)
LEMMA VectorFacts ==
    /\ LegacyPitVector = 8 /\ TimerVector = 32
    /\ KeyboardVector = 33 /\ PitVector = 34
    /\ IrqVectors \subseteq Vectors /\ LegacyPitVector \in Vectors
    /\ \A v \in IrqVectors : Class(v) = 2
    /\ Class(LegacyPitVector) = 0
BY SMT DEF LegacyPitVector, TimerVector, KeyboardVector, PitVector,
           IrqVectors, Vectors, Class

(* Whatever the local APIC id is, the destination of an entry is CPU 0. *)
LEMMA DestinationIsZero == Destination(lapic_id) = 0
BY SMT DEF Destination, lapic_id

(* Programming the low half of an entry leaves a table of entries. *)
LEMMA EntryLowType ==
    ASSUME set \in SetType, NEW p \in Pins,
           NEW v \in {KeyboardVector, PitVector}
    PROVE  EntryLow(p, v) \in SetType
<1>. DEFINE Entries == [vector : {0, KeyboardVector, PitVector},
                        masked : BOOLEAN, dest : {0}]
            new == [set.rdtable[p] EXCEPT !.vector = v, !.masked = FALSE]
<1>2. set.rdtable \in [Pins -> Entries]
    BY DEF SetType
<1>1. new \in Entries
    BY <1>2, Zenon
<1>. HIDE DEF Entries, new
<1>3. [set.rdtable EXCEPT ![p] = new] \in [Pins -> Entries]
    BY <1>1, <1>2
<1>. QED
    BY <1>3, Zenon DEF EntryLow, SetType, Entries, new

(* With one vector in service a write of EOI leaves none. *)
LEMMA EoiClears ==
    ASSUME NEW v \in IrqVectors, isr = {v}, set.apic_base = "lapic", Eoi
    PROVE  isr' = {}
<1>1. v \in Nat
    BY VectorFacts, SMT DEF IrqVectors
<1>2. Max(isr) = v
    BY <1>1, SMT DEF Max
<1>. QED
    BY <1>2 DEF Eoi

(* Before the boot nothing is set up, and no interrupt waits. *)
LEMMA InitInterruptsInv == Init => InterruptsInv
<1>. SUFFICES ASSUME Init PROVE InterruptsInv
    OBVIOUS
<1>1. InterruptsTypeOK
  <2>1. set \in SetType
      BY DEF Init, SetType
  <2>2. counts \in [{"timer", "keyboard", "pit"} -> 0 .. CountMod - 1]
      BY InterruptsAssumption, SMT DEF Init, InterruptsAssumption
  <2>. QED
      BY <2>1, <2>2 DEF Init, InterruptsTypeOK, Stage, Bytes
<1>2. SetUp
    BY DEF Init, SetUp, Stage, at
<1>3. Caused /\ InService /\ CountsOf
    BY DEF Init, Caused, InService, CountsOf
<1>4. BytesFlow
    BY InterruptsAssumption DEF Init, BytesFlow
<1>. QED
    BY <1>1, <1>2, <1>3, <1>4 DEF InterruptsInv

(* No step of the boot writes a value of another type. *)
LEMMA BootKeepsType ==
    ASSUME set \in SetType, BootStep
    PROVE  set' \in SetType
<1>. USE DEF Step, SetType
<1>1. CASE MaskPic
    BY <1>1, Zenon DEF MaskPic
<1>2. CASE SetDefaultVectors
    BY <1>2, SMT DEF SetDefaultVectors
<1>3. CASE SetIrqVectors
    BY <1>3, Zenon DEF SetIrqVectors, Handlers
<1>4. CASE InitKeyboard
    BY <1>4, Zenon DEF InitKeyboard
<1>5. CASE LoadIdt
    BY <1>5, Zenon DEF LoadIdt
<1>6. CASE SetApicBase
    BY <1>6, Zenon DEF SetApicBase
<1>7. CASE ReloadTimer
    BY <1>7, Zenon DEF ReloadTimer
<1>8. CASE SetTimerLvt
    BY <1>8, Zenon DEF SetTimerLvt
<1>9. CASE UnmaskTimer
    BY <1>9, Zenon DEF UnmaskTimer
<1>10. CASE RouteKeyboardLow
    BY <1>10, EntryLowType DEF RouteKeyboardLow, Pins, KeyboardPin, PitPin
<1>11. CASE RouteKeyboardHigh
    BY <1>11, DestinationIsZero, SMT DEF RouteKeyboardHigh, EntryHigh, Pins, KeyboardPin, PitPin
<1>12. CASE RoutePitLow
    BY <1>12, EntryLowType DEF RoutePitLow, Pins, KeyboardPin, PitPin
<1>13. CASE RoutePitHigh
    BY <1>13, DestinationIsZero, SMT DEF RoutePitHigh, EntryHigh, Pins, KeyboardPin, PitPin
<1>. QED
    BY <1>1, <1>2, <1>3, <1>4, <1>5, <1>6, <1>7, <1>8, <1>9, <1>10, <1>11,
       <1>12, <1>13 DEF BootStep

(* The handlers of the three vectors are set together. *)
LEMMA IrqVectorsSet ==
    ASSUME set \in SetType, SetIrqVectors
    PROVE  /\ set'.idt[TimerVector] = "apic_timer"
           /\ set'.idt[KeyboardVector] = "ioapic_keyboard_int_stub"
           /\ set'.idt[PitVector] = "pit_timer_interrupt"
           /\ UNCHANGED <<set.picMasked, set.timer, set.idtLoaded, set.keyboard,
                          set.apic_base, set.rdtable, irr, iflag>>
BY SMT DEF SetIrqVectors, Step, SetType, TimerVector, PitVector,
           KeyboardVector, Vectors

(* The timer is set to its vector and stays masked. *)
LEMMA TimerLvtSet ==
    ASSUME set \in SetType, SetTimerLvt
    PROVE  /\ set'.timer.vector = TimerVector /\ set'.timer.masked
           /\ UNCHANGED <<set.picMasked, set.idt, set.idtLoaded, set.keyboard,
                          set.apic_base, set.rdtable, irr, iflag>>
BY Zenon DEF SetTimerLvt, Step, SetType

(* A step of the boot puts the next thing in place and disturbs nothing    *)
(* that was there.                                                         *)
LEMMA BootKeepsInv ==
    ASSUME InterruptsInv, BootStep, UNCHANGED user
    PROVE  InterruptsInv'
<1>. USE VectorFacts
<1>1. /\ UNCHANGED <<cpu, isr, obf, code, counts>> /\ cpu = "start"
      /\ irr' \subseteq irr
      /\ KeyboardVector \in irr => KeyboardVector \in irr'
      BY SMT DEF BootStep, Step, MaskPic, SetDefaultVectors, SetIrqVectors,
         InitKeyboard, LoadIdt, SetApicBase, ReloadTimer, SetTimerLvt,
         UnmaskTimer, RouteKeyboardLow, RouteKeyboardHigh, RoutePitLow,
         RoutePitHigh
<1>2. set \in SetType /\ set' \in SetType
    BY BootKeepsType DEF InterruptsInv, InterruptsTypeOK
<1>. DEFINE Boots == /\ pc' \in DOMAIN Stage
                     /\ SetUp'
                     /\ Caused'
                     /\ iflag' \in BOOLEAN
                     /\ iflag' <=> set'.idtLoaded
<1>3. Boots
  <2>. USE DEF InterruptsInv, InterruptsTypeOK, SetUp, Caused, InService,
               Step, SetType, Pins, KeyboardPin, PitPin, Handlers
  <2>1. CASE MaskPic
    <3>1. at = 0 /\ at' = 1 /\ pc' \in DOMAIN Stage
        BY <2>1 DEF MaskPic, at, Stage
    <3>. QED
        BY <2>1, <3>1, <1>1, <1>2, SMT DEF MaskPic
  <2>2. CASE SetDefaultVectors
    <3>1. at = 1 /\ at' = 2 /\ pc' \in DOMAIN Stage
        BY <2>2 DEF SetDefaultVectors, at, Stage
    <3>. QED
        BY <2>2, <3>1, <1>1, <1>2, SMT DEF SetDefaultVectors
  <2>3. CASE SetIrqVectors
    <3>1. at = 2 /\ at' = 3 /\ pc' \in DOMAIN Stage
        BY <2>3 DEF SetIrqVectors, at, Stage
    <3>. QED
        BY <2>3, <3>1, <1>1, <1>2, IrqVectorsSet, SMT
  <2>4. CASE InitKeyboard
    <3>1. at = 3 /\ at' = 4 /\ pc' \in DOMAIN Stage
        BY <2>4 DEF InitKeyboard, at, Stage
    <3>. QED
        BY <2>4, <3>1, <1>1, <1>2, SMT DEF InitKeyboard
  <2>5. CASE LoadIdt
    <3>1. at = 4 /\ at' = 5 /\ pc' \in DOMAIN Stage
        BY <2>5 DEF LoadIdt, at, Stage
    <3>. QED
        BY <2>5, <3>1, <1>1, <1>2, SMT DEF LoadIdt
  <2>6. CASE SetApicBase
    <3>1. at = 5 /\ at' = 6 /\ pc' \in DOMAIN Stage
        BY <2>6 DEF SetApicBase, at, Stage
    <3>. QED
        BY <2>6, <3>1, <1>1, <1>2, SMT DEF SetApicBase
  <2>7. CASE ReloadTimer
    <3>1. at = 6 /\ at' = 7 /\ pc' \in DOMAIN Stage
        BY <2>7 DEF ReloadTimer, at, Stage
    <3>. QED
        BY <2>7, <3>1, <1>1, <1>2, SMT DEF ReloadTimer
  <2>8. CASE SetTimerLvt
    <3>1. at = 7 /\ at' = 8 /\ pc' \in DOMAIN Stage
        BY <2>8 DEF SetTimerLvt, at, Stage
    <3>. QED
        BY <2>8, <3>1, <1>1, <1>2, TimerLvtSet, SMT
  <2>9. CASE UnmaskTimer
    <3>1. at = 8 /\ at' = 9 /\ pc' \in DOMAIN Stage
        BY <2>9 DEF UnmaskTimer, at, Stage
    <3>. QED
        BY <2>9, <3>1, <1>1, <1>2, SMT DEF UnmaskTimer
  <2>10. CASE RouteKeyboardLow
    <3>1. at = 9 /\ at' = 10 /\ pc' \in DOMAIN Stage
        BY <2>10 DEF RouteKeyboardLow, at, Stage
    <3>. QED
        BY <2>10, <3>1, <1>1, <1>2, SMT DEF RouteKeyboardLow, EntryLow
  <2>11. CASE RouteKeyboardHigh
    <3>1. at = 10 /\ at' = 11 /\ pc' \in DOMAIN Stage
        BY <2>11 DEF RouteKeyboardHigh, at, Stage
    <3>. QED
        BY <2>11, <3>1, <1>1, <1>2, DestinationIsZero, SMT DEF RouteKeyboardHigh, EntryHigh
  <2>12. CASE RoutePitLow
    <3>1. at = 11 /\ at' = 12 /\ pc' \in DOMAIN Stage
        BY <2>12 DEF RoutePitLow, at, Stage
    <3>. QED
        BY <2>12, <3>1, <1>1, <1>2, SMT DEF RoutePitLow, EntryLow
  <2>13. CASE RoutePitHigh
    <3>1. at = 12 /\ at' = 13 /\ pc' \in DOMAIN Stage
        BY <2>13 DEF RoutePitHigh, at, Stage
    <3>. QED
        BY <2>13, <3>1, <1>1, <1>2, DestinationIsZero, SMT DEF RoutePitHigh, EntryHigh
  <2>. QED
      BY <2>1, <2>2, <2>3, <2>4, <2>5, <2>6, <2>7, <2>8, <2>9, <2>10, <2>11,
         <2>12, <2>13 DEF BootStep
<1>4. InterruptsTypeOK'
    BY <1>1, <1>2, <1>3 DEF InterruptsInv, InterruptsTypeOK
<1>5. InService' /\ CountsOf'
    BY <1>1, <1>3 DEF InterruptsInv, InService, CountsOf
<1>6. BytesFlow'
    BY <1>1 DEF InterruptsInv, BytesFlow, Reading
<1>. QED
    BY <1>3, <1>4, <1>5, <1>6 DEF InterruptsInv

(* Only the three kernel vectors request service, only the handler of the  *)
(* vector is entered, and nothing else is in service then.                 *)
LEMMA AcceptFacts ==
    ASSUME InterruptsInv, NEW v \in Vectors, Accept(v)
    PROVE  /\ v \in IrqVectors
           /\ cpu = "start" /\ code = NoByte
           /\ at > 8
           /\ isr = {} /\ isr' = {v}
           /\ cpu' = CASE v = TimerVector    -> "apic_timer"
                       [] v = KeyboardVector -> "ioapic_keyboard_int_stub"
                       [] v = PitVector      -> "pit_timer_interrupt"
<1>. USE VectorFacts DEF Accept, InterruptsInv
<1>1. cpu = "start" /\ set.idtLoaded
    BY DEF InService
<1>2. at \in Nat /\ at > 4
    BY <1>1, SMT DEF SetUp, InterruptsTypeOK, Stage, at
<1>3. v \in IrqVectors
    BY <1>2, SMT DEF InterruptsTypeOK, SetUp, Caused
<1>4. at > 8
    BY <1>2, <1>3, SMT
    DEF SetUp, Caused, IrqVectors, Pins, KeyboardPin, PitPin
<1>5. isr = {}
    BY <1>1, <1>3, SMT DEF InService, IrqVectors
<1>6. code = NoByte
    BY <1>1 DEF BytesFlow
<1>7. cpu' = CASE v = TimerVector    -> "apic_timer"
               [] v = KeyboardVector -> "ioapic_keyboard_int_stub"
               [] v = PitVector      -> "pit_timer_interrupt"
    BY <1>1, <1>3, <1>4, <1>2, SMT DEF SetUp, IrqVectors
<1>. QED
    BY <1>1, <1>3, <1>4, <1>5, <1>6, <1>7

(* Entering a handler keeps the invariant. *)
LEMMA AcceptKeepsInv ==
    ASSUME InterruptsInv, AcceptHighest, UNCHANGED user
    PROVE  InterruptsInv'
<1>. PICK v \in Vectors : Accept(v)
    BY DEF AcceptHighest
<1>. USE VectorFacts, AcceptFacts DEF InterruptsInv
<1>1. UNCHANGED <<pc, set, obf, code, counts, user>> /\ iflag' = FALSE
      /\ v \in irr /\ irr' = irr \ {v}
    BY DEF Accept
<1>2. InterruptsTypeOK'
  <2>1. cpu' \in Handlers
      BY DEF IrqVectors, Handlers
  <2>2. irr' \subseteq irr /\ isr' \subseteq IrqVectors
      BY <1>1
  <2>. QED
      BY <1>1, <2>1, <2>2, Zenon DEF InterruptsTypeOK
<1>3. SetUp'
    BY <1>1 DEF SetUp, at
<1>4. Caused'
    BY <1>1, SMT DEF Caused
<1>5. InService'
    BY <1>1, SMT DEF InService, IrqVectors
<1>6. BytesFlow'
    BY <1>1, SMT DEF BytesFlow, Reading, IrqVectors
<1>7. CountsOf'
    BY <1>1 DEF CountsOf
<1>. QED
    BY <1>2, <1>3, <1>4, <1>5, <1>6, <1>7

(* What an edge on a pin may request. *)
LEMMA EdgeFacts ==
    ASSUME InterruptsInv, NEW p \in Pins
    PROVE  /\ Edge(p) \subseteq
                 IF p = KeyboardPin THEN {KeyboardVector} ELSE {PitVector}
           /\ Edge(p) # {} => ~set.rdtable[p].masked /\ user.lapicId = 0
           /\ ~set.rdtable[p].masked /\ user.lapicId = 0 => Edge(p) # {}
<1>1. set.rdtable[p].dest = 0
    BY DEF InterruptsInv, InterruptsTypeOK, SetType
<1>. QED
    BY <1>1 DEF Edge, InterruptsInv, SetUp

(* So do the devices: a tick or a byte requests its own vector, if any. *)
LEMMA DeviceKeepsInv ==
    ASSUME InterruptsInv, UNCHANGED user, PitTick \/ TimerTick \/ KeyboardActs
    PROVE  InterruptsInv'
<1>. USE VectorFacts DEF InterruptsInv, Pins, KeyboardPin, PitPin
<1>1. UNCHANGED <<pc, cpu, iflag, set, isr, code, counts, user>>
    BY DEF PitTick, TimerTick, KeyboardActs, KeyboardSends
<1>2. SetUp' /\ InService' /\ CountsOf'
    BY <1>1 DEF SetUp, at, InService, CountsOf
<1>3. CASE PitTick
  <2>1. /\ irr' \subseteq irr \cup {PitVector, LegacyPitVector}
        /\ obf' = obf
        /\ irr \subseteq irr'
        /\ KeyboardVector \in irr' => KeyboardVector \in irr
        /\ TimerVector \in irr' => TimerVector \in irr
        /\ LegacyPitVector \in irr' => LegacyPitVector \in irr \/ ~set.picMasked
        /\ PitVector \in irr' => \/ PitVector \in irr
                                 \/ ~set.rdtable[PitPin].masked /\ user.lapicId = 0
      BY <1>3, EdgeFacts, SMT DEF PitTick
  <2>2. InterruptsTypeOK'
      BY <1>1, <2>1, Zenon DEF InterruptsTypeOK, IrqVectors
  <2>3. Caused' /\ BytesFlow'
      BY <1>1, <2>1, SMT DEF Caused, BytesFlow, Reading
  <2>. QED
      BY <1>2, <2>2, <2>3
<1>4. CASE TimerTick
  <2>1. irr' = irr \cup {TimerVector} /\ obf' = obf
      BY <1>4, SMT DEF TimerTick, SetUp, at, Stage, InterruptsTypeOK
  <2>2. InterruptsTypeOK'
      BY <1>1, <2>1, Zenon DEF InterruptsTypeOK, IrqVectors
  <2>3. Caused' /\ BytesFlow'
      BY <1>1, <1>4, <2>1, SMT DEF TimerTick, Caused, BytesFlow, Reading
  <2>. QED
      BY <1>2, <2>2, <2>3
<1>5. CASE KeyboardActs
  <2>. PICK b \in ScanBytes \cup ReplyBytes : KeyboardSends(b)
      BY <1>5 DEF KeyboardActs
  <2>1. obf = NoByte /\ obf' = b /\ irr' = irr \cup Edge(KeyboardPin)
        /\ (b \in ReplyBytes => user.replies)
        /\ (user.early \/ ~set.rdtable[KeyboardPin].masked)
      BY DEF KeyboardSends
  <2>2. irr' \subseteq irr \cup {KeyboardVector} /\ irr \subseteq irr'
      BY <2>1, EdgeFacts
  <2>3. KeyboardVector \in irr' =>
           \/ KeyboardVector \in irr
           \/ ~set.rdtable[KeyboardPin].masked /\ user.lapicId = 0
      BY <2>1, EdgeFacts
  <2>4. ~set.rdtable[KeyboardPin].masked /\ user.lapicId = 0 =>
           KeyboardVector \in irr'
      BY <2>1, EdgeFacts
  <2>5. InterruptsTypeOK'
      BY <1>1, <2>1, <2>2, Zenon DEF InterruptsTypeOK, IrqVectors, Bytes
  <2>6. Caused'
      BY <1>1, <2>2, <2>3, SMT DEF Caused
  <2>7. BytesFlow'
    <3>1. code # NoByte => ~set.rdtable[KeyboardPin].masked /\ user.lapicId = 0
        BY DEF BytesFlow, InService, Caused
    <3>. QED
        BY <1>1, <2>1, <2>4, <3>1 DEF BytesFlow
  <2>. QED
      BY <1>2, <2>5, <2>6, <2>7
<1>. QED
    BY <1>3, <1>4, <1>5

(* A counter stays in its range. *)
LEMMA CountType ==
    ASSUME InterruptsInv, NEW c \in {"timer", "keyboard", "pit"}, Count(c)
    PROVE  /\ counts' \in [{"timer", "keyboard", "pit"} -> 0 .. CountMod - 1]
           /\ \A d \in {"timer", "keyboard", "pit"} \ {c} : counts'[d] = counts[d]
<1>1. counts \in [{"timer", "keyboard", "pit"} -> 0 .. CountMod - 1]
    BY DEF InterruptsInv, InterruptsTypeOK
<1>2. (counts[c] + 1) % CountMod \in 0 .. CountMod - 1
    BY <1>1, InterruptsAssumption, SMT DEF InterruptsAssumption
<1>. QED
    BY <1>1, <1>2 DEF Count

(* A handler that runs finds the EOI register. *)
LEMMA HandlerFacts ==
    ASSUME InterruptsInv, cpu # "start"
    PROVE  at > 8 /\ set.apic_base = "lapic" /\ set.idtLoaded
<1>1. at \in Nat
    BY SMT DEF InterruptsInv, InterruptsTypeOK, Stage, at
<1>2. isr # {}
    BY DEF InterruptsInv, InService, InterruptsTypeOK, Handlers
<1>. PICK v \in IrqVectors : v \in isr
    BY <1>2 DEF InterruptsInv, InterruptsTypeOK
<1>3. at > 8
    BY DEF InterruptsInv, IrqVectors, Caused, SetUp, Pins, KeyboardPin, PitPin
<1>. QED
    BY <1>1, <1>3, SMT DEF InterruptsInv, SetUp

(* So do the handlers: each EOI acknowledges the one vector in service. *)
LEMMA HandlerKeepsInv ==
    ASSUME InterruptsInv, Handler, UNCHANGED user
    PROVE  InterruptsInv'
<1>. USE VectorFacts DEF InterruptsInv
<1>1. UNCHANGED <<pc, set, irr, user>> /\ cpu # "start"
    BY DEF Handler, apic_timer, pit_timer_interrupt, keyboard_read,
       keyboard_reply, keyboard_key
<1>2. SetUp' /\ at' = at
    BY <1>1 DEF SetUp, at
<1>3. CASE apic_timer \/ pit_timer_interrupt
  <2>1. isr' = {}
      BY <1>1, <1>3, EoiClears, HandlerFacts
      DEF InService, IrqVectors, apic_timer, pit_timer_interrupt
  <2>2. /\ cpu' = "start" /\ iflag' = TRUE /\ UNCHANGED <<obf, code>>
        /\ cpu # "ioapic_keyboard_int_stub"
      BY <1>3 DEF apic_timer, pit_timer_interrupt, Iret
  <2>3. counts' \in [{"timer", "keyboard", "pit"} -> 0 .. CountMod - 1]
      BY <1>3, CountType DEF apic_timer, pit_timer_interrupt
  <2>4. InterruptsTypeOK'
      BY <1>1, <2>1, <2>2, <2>3, Zenon DEF InterruptsTypeOK
  <2>5. CountsOf'
      BY <1>1, <1>3, CountType, SMT
      DEF CountsOf, Caused, InService, apic_timer, pit_timer_interrupt
  <2>6. Caused' /\ InService' /\ BytesFlow'
      BY <1>1, <2>1, <2>2, HandlerFacts
      DEF Caused, InService, BytesFlow, Reading
  <2>. QED
      BY <1>2, <2>4, <2>5, <2>6
<1>4. CASE keyboard_read
  <2>1. /\ UNCHANGED <<cpu, iflag, isr, counts>>
        /\ code = NoByte /\ code' = obf /\ obf' = NoByte
        /\ cpu = "ioapic_keyboard_int_stub"
      BY <1>4 DEF keyboard_read
  <2>2. InterruptsTypeOK'
      BY <1>1, <2>1, Zenon DEF InterruptsTypeOK, Bytes
  <2>3. Caused' /\ InService' /\ CountsOf'
      BY <1>1, <2>1 DEF Caused, InService, CountsOf
  <2>4. BytesFlow'
      BY <1>1, <2>1, InterruptsAssumption DEF BytesFlow, InterruptsAssumption
  <2>. QED
      BY <1>2, <2>2, <2>3, <2>4
<1>5. CASE keyboard_reply
  <2>1. /\ UNCHANGED <<isr, obf, counts>>
        /\ cpu = "ioapic_keyboard_int_stub" /\ cpu' = "start" /\ iflag' = TRUE
        /\ code \in ReplyBytes /\ code' = NoByte
      BY <1>5 DEF keyboard_reply, Iret
  <2>2. InterruptsTypeOK'
      BY <1>1, <2>1, Zenon DEF InterruptsTypeOK, Bytes
  <2>3. Caused' /\ InService' /\ CountsOf'
      BY <1>1, <2>1, HandlerFacts
      DEF Caused, InService, CountsOf, BytesFlow
  <2>4. BytesFlow'
      BY <1>1, <2>1, InterruptsAssumption
      DEF BytesFlow, Reading, InterruptsAssumption
  <2>. QED
      BY <1>2, <2>2, <2>3, <2>4
<1>6. CASE keyboard_key
  <2>1. isr' = {}
      BY <1>1, <1>6, EoiClears, HandlerFacts
      DEF InService, IrqVectors, keyboard_key
  <2>2. /\ cpu = "ioapic_keyboard_int_stub" /\ cpu' = "start" /\ iflag' = TRUE
        /\ code \in ScanBytes /\ code' = NoByte /\ UNCHANGED obf
      BY <1>6 DEF keyboard_key, Iret
  <2>3. counts' \in [{"timer", "keyboard", "pit"} -> 0 .. CountMod - 1]
      BY <1>6, CountType DEF keyboard_key
  <2>4. InterruptsTypeOK'
      BY <1>1, <2>1, <2>2, <2>3, Zenon DEF InterruptsTypeOK, Bytes
  <2>5. CountsOf' /\ Caused' /\ InService'
      BY <1>1, <2>1, <2>2, HandlerFacts
      DEF Caused, InService, CountsOf
  <2>6. BytesFlow'
      BY <1>1, <2>2, InterruptsAssumption
      DEF BytesFlow, Reading, InterruptsAssumption
  <2>. QED
      BY <1>2, <2>4, <2>5, <2>6
<1>. QED
    BY <1>3, <1>4, <1>5, <1>6 DEF Handler

(* So every step keeps the invariant. *)
LEMMA NextKeepsInterruptsInv ==
    InterruptsInv /\ [Next]_<<vars, user>> => InterruptsInv'
<1>. SUFFICES ASSUME InterruptsInv, [Next]_<<vars, user>> PROVE InterruptsInv'
    OBVIOUS
<1>1. CASE BootStep /\ UNCHANGED user
    BY <1>1, BootKeepsInv
<1>2. CASE Handler /\ UNCHANGED user
    BY <1>2, HandlerKeepsInv
<1>3. CASE AcceptHighest /\ UNCHANGED user
    BY <1>3, AcceptKeepsInv
<1>4. CASE (PitTick \/ TimerTick \/ KeyboardActs) /\ UNCHANGED user
    BY <1>4, DeviceKeepsInv
<1>5. CASE UNCHANGED <<vars, user>>
    BY <1>5 DEF InterruptsInv, InterruptsTypeOK, SetUp, at, Caused, InService,
       BytesFlow, Reading, CountsOf, vars
<1>. QED
    BY <1>1, <1>2, <1>3, <1>4, <1>5 DEF Next

(* The invariant holds at every moment of every execution. *)
THEOREM InterruptsInvariant == Spec => []InterruptsInv
BY InitInterruptsInv, NextKeepsInterruptsInv, PTL DEF Spec

-----------------------------------------------------------------------------
(* What the invariant says of the kernel.                                  *)

(* What a handler uses is in place when it is entered. *)
LEMMA InvReady == InterruptsInv => ReadyForInterrupts
<1>. SUFFICES ASSUME InterruptsInv, cpu # "start"
              PROVE  /\ cpu \in Handlers
                     /\ set.keyboard
                     /\ set.apic_base = "lapic"
                     /\ \E v \in isr : set.idt[v] = cpu
    BY DEF ReadyForInterrupts
<1>1. cpu \in Handlers
    BY DEF InterruptsInv, InterruptsTypeOK
<1>2. at \in Nat /\ at > 8
    BY HandlerFacts, SMT DEF InterruptsInv, InterruptsTypeOK, Stage, at
<1>3. set.keyboard /\ at > 2
    BY <1>2, SMT DEF InterruptsInv, SetUp
<1>4. \E v \in isr : set.idt[v] = cpu
    BY <1>1, <1>3 DEF InterruptsInv, SetUp, InService, Handlers
<1>. QED
    BY <1>1, <1>3, <1>4, HandlerFacts

(* The vector of the running handler is the one in service. *)
LEMMA InvServicesEnd == InterruptsInv => EveryServiceEnds
BY VectorFacts
DEF InterruptsInv, InterruptsTypeOK, InService, EveryServiceEnds,
    IrqVectors, Handlers

(* A byte in the controller has raised its interrupt. *)
LEMMA InvBytesRead == InterruptsInv => NoByteMissed
BY DEF InterruptsInv, BytesFlow, NoByteMissed, Missed

(* sti comes long before the key queue, apic_base and the redirection      *)
(* entries are ready, yet no interrupt is taken before what its handler    *)
(* uses is in place (kernel.c:279, 281, 342).                              *)
THEOREM ReadyWhenTaken == Spec => []ReadyForInterrupts
BY InvReady, InterruptsInvariant, PTL

(* Without replies of the keyboard every vector that was taken has been    *)
(* acknowledged when _start runs again, and services never nest.           *)
THEOREM ServicesEnd == Spec => []EveryServiceEnds
BY InvServicesEnd, InterruptsInvariant, PTL

(* On CPU 0 no byte that comes after the I/O APIC entry is unmasked is     *)
(* ever stuck in the controller.                                           *)
THEOREM BytesAreRead == Spec => []NoByteMissed
BY InvBytesRead, InterruptsInvariant, PTL

(* A kernel that runs on another CPU than 0 never counts a tick of the PIT *)
(* or a key (kernel.c:367).                                                *)
THEOREM OtherCpuIsDead == Spec => []DeadOnOtherCpu
<1>1. InterruptsInv => DeadOnOtherCpu
    BY DEF InterruptsInv, CountsOf, DeadOnOtherCpu
<1>. QED
    BY <1>1, InterruptsInvariant, PTL

(* While a byte is stuck no handler of the keyboard runs, and none of the  *)
(* steps that are possible requests one.                                   *)
LEMMA StuckStaysStuck ==
    ASSUME InterruptsInv, [Next]_<<vars, user>>, Missed
    PROVE  Missed' /\ counts'.keyboard = counts.keyboard
<1>. USE VectorFacts DEF Missed, Reading
<1>1. cpu # "ioapic_keyboard_int_stub"
    BY DEF InterruptsInv, BytesFlow
<1>2. CASE BootStep
    BY <1>1, <1>2, SMT
    DEF BootStep, Step, MaskPic, SetDefaultVectors, SetIrqVectors,
        InitKeyboard, LoadIdt, SetApicBase, ReloadTimer, SetTimerLvt,
        UnmaskTimer, RouteKeyboardLow, RouteKeyboardHigh, RoutePitLow,
        RoutePitHigh
<1>3. CASE Handler
  <2>1. apic_timer \/ pit_timer_interrupt
      BY <1>1, <1>3 DEF Handler, keyboard_read, keyboard_reply, keyboard_key
  <2>2. UNCHANGED <<obf, code, irr>> /\ cpu' = "start"
      BY <2>1 DEF apic_timer, pit_timer_interrupt, Iret
  <2>3. counts'.keyboard = counts.keyboard
      BY <2>1, CountType DEF apic_timer, pit_timer_interrupt
  <2>. QED
      BY <2>2, <2>3
<1>4. CASE AcceptHighest
  <2>. PICK v \in Vectors : Accept(v)
      BY <1>4 DEF AcceptHighest
  <2>1. UNCHANGED <<obf, code, counts>> /\ v \in irr /\ irr' = irr \ {v}
      BY DEF Accept
  <2>2. cpu' # "ioapic_keyboard_int_stub"
      BY <2>1, AcceptFacts DEF IrqVectors
  <2>. QED
      BY <2>1, <2>2
<1>5. CASE PitTick
    BY <1>1, <1>5, EdgeFacts, SMT DEF PitTick, Pins, PitPin, KeyboardPin
<1>6. CASE TimerTick
    BY <1>1, <1>6, SMT
    DEF TimerTick, InterruptsInv, InterruptsTypeOK, SetUp, at, Stage
<1>7. ~KeyboardActs
    BY DEF KeyboardActs, KeyboardSends
<1>8. CASE UNCHANGED <<vars, user>>
    BY <1>8 DEF vars
<1>. QED
    BY <1>2, <1>3, <1>4, <1>5, <1>6, <1>7, <1>8 DEF Next

(* A byte that came too early stays in the controller for ever: the        *)
(* keyboard is deaf.                                                       *)
THEOREM StuckBytesStay == Spec => DeafForever
<1>1. InterruptsInv /\ [Next]_<<vars, user>> =>
          [Missed => Missed' /\ counts'.keyboard = counts.keyboard]_vars
    BY StuckStaysStuck
<1>. QED
    BY <1>1, InterruptsInvariant, PTL DEF Spec, DeafForever

(* A vector that is left in service when _start runs again masks all three *)
(* for ever: the one of the keyboard, after a reply.                       *)
LEMMA AbandonedStays ==
    ASSUME InterruptsInv, [Next]_<<vars, user>>, Abandoned
    PROVE  Abandoned' /\ counts' = counts
<1>. USE DEF Abandoned
<1>1. ~AcceptHighest
    BY AcceptFacts DEF AcceptHighest
<1>2. ~Handler
    BY DEF Handler, apic_timer, pit_timer_interrupt, keyboard_read,
       keyboard_reply, keyboard_key
<1>3. CASE BootStep
    BY <1>3, SMT
    DEF BootStep, Step, MaskPic, SetDefaultVectors, SetIrqVectors,
        InitKeyboard, LoadIdt, SetApicBase, ReloadTimer, SetTimerLvt,
        UnmaskTimer, RouteKeyboardLow, RouteKeyboardHigh, RoutePitLow,
        RoutePitHigh
<1>4. CASE PitTick \/ TimerTick \/ KeyboardActs
    BY <1>4 DEF PitTick, TimerTick, KeyboardActs, KeyboardSends
<1>5. CASE UNCHANGED <<vars, user>>
    BY <1>5 DEF vars
<1>. QED
    BY <1>1, <1>2, <1>3, <1>4, <1>5 DEF Next

(* After a reply of the keyboard no interrupt is ever taken again          *)
(* (kernel.c:93): the reply is not acknowledged.                           *)
THEOREM AbandonedMasksAll == Spec => AbandonedForever
<1>1. InterruptsInv /\ [Next]_<<vars, user>> =>
          [Abandoned => Abandoned' /\ counts' = counts]_vars
    BY AbandonedStays
<1>. QED
    BY <1>1, InterruptsInvariant, PTL DEF Spec, AbandonedForever
=============================================================================
