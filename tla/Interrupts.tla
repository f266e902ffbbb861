----------------------------- MODULE Interrupts -----------------------------
(***************************************************************************)
(* How interrupts are set up and served: the boot sequence of              *)
(* kernel_entry.asm and _start (kernel.c), which programs the IDT, the     *)
(* local APIC timer, the I/O APIC and the PIT, and the three handlers      *)
(* apic_timer, ioapic_keyboard_int_stub and pit_timer_interrupt.           *)
(*                                                                         *)
(* The hardware is modelled as far as the kernel depends on it:            *)
(*   - local APIC: an accepted vector is in service until the next write   *)
(*     of its EOI register; while it is, only vectors of a higher priority *)
(*     class (vector / 16) are accepted, highest vector first; a second    *)
(*     edge of a waiting vector merges with the first;                     *)
(*   - I/O APIC: an edge on a masked pin, or routed to another CPU, is     *)
(*     lost;                                                               *)
(*   - keyboard controller: holds one byte, raises an edge when a byte     *)
(*     arrives and sends no other byte before this one is read;            *)
(*   - CPU: an interrupt gate clears the interrupt flag, iret sets it.     *)
(***************************************************************************)
EXTENDS Naturals, FiniteSets, FiniteSetsExt

CONSTANTS LapicIds,    \* local APIC ids the CPU that runs the kernel may have
          ScanBytes,   \* scan codes of the keyboard
          ReplyBytes,  \* 0xEE, 0xFE, 0xFA: answers of the keyboard
          NoByte,      \* the output buffer of the controller is empty
          CountMod     \* the counters count modulo this (2^32 in the code)

ASSUME InterruptsAssumption ==
    /\ LapicIds \subseteq 0 .. 255
    /\ NoByte \notin ScanBytes \cup ReplyBytes
    /\ ScanBytes \cap ReplyBytes = {}
    /\ CountMod \in Nat \ {0, 1}

VARIABLES pc,     \* the boot step _start executes next, "loop" at the end
          cpu,    \* "start" when _start runs, or the handler that does
          iflag,  \* the interrupt flag
          set,    \* what the boot has set up so far, see Init
          irr,    \* vectors that wait in the local APIC
          isr,    \* vectors in service in the local APIC
          obf,    \* the byte in the keyboard controller's output buffer
          code,   \* the byte the keyboard handler has read
          counts, \* the three interrupt counters
          user    \* whether keys are pressed before the I/O APIC is set up,
                  \* whether the keyboard ever sends a reply, and the
                  \* local APIC id of the CPU

vars == <<pc, cpu, iflag, set, irr, isr, obf, code, counts>>

-----------------------------------------------------------------------------
LegacyPitVector == 8  \* where the BIOS lets the 8259 send the PIT's IRQ
TimerVector == 32
KeyboardVector == 33
PitVector == 34
Vectors == {LegacyPitVector} \cup 32 .. 63

Class(v) == v \div 16

Pins == {1, 2}
KeyboardPin == 1
PitPin == 2

(* The register the kernel reads at LAPIC offset 0x20: the id is in the    *)
(* most significant of its four bytes.                                     *)
lapic_id == [byte \in 0 .. 3 |-> IF byte = 3 THEN user.lapicId ELSE 0]

\* Faulty variants, here and below, are in no specification: a run that put
\* one in the place of its original must fail.
\* Faulty: the bytes of the register are taken in the opposite order.
DestinationSwapped(register) == register[3]

(* create_ioapic_rd_entry takes the destination as a u8: of the register   *)
(* it is handed it keeps the least significant byte.                       *)
Destination(register) == register[0]

Handlers == {"apic_timer", "ioapic_keyboard_int_stub", "pit_timer_interrupt"}

(* boot_sect.asm has executed cli; the BIOS has started the PIT. *)
Init ==
    /\ user \in [early : BOOLEAN, replies : BOOLEAN, lapicId : LapicIds]
    /\ pc = "mask_pic"
    /\ cpu = "start"
    /\ iflag = FALSE
    /\ set = [picMasked |-> FALSE,
              idt |-> [v \in Vectors |-> "absent"],
              idtLoaded |-> FALSE,
              keyboard |-> FALSE,          \* init_ps2_keyboard has run
              apic_base |-> "null",
              timer |-> [vector |-> 0, masked |-> TRUE, periodic |-> FALSE,
                         loaded |-> FALSE],
              rdtable |-> [p \in Pins |->
                             [vector |-> 0, masked |-> TRUE, dest |-> 0]]]
    /\ irr = {}
    /\ isr = {}
    /\ obf \in {NoByte} \cup (IF user.early THEN ScanBytes ELSE {})
    /\ code = NoByte
    /\ counts = [timer |-> 0, keyboard |-> 0, pit |-> 0]

-----------------------------------------------------------------------------
(* Boot: each action is one step of _start, in the order of the code.      *)

Step(from, to, new) ==
    /\ cpu = "start"
    /\ pc = from
    /\ pc' = to
    /\ set' = new
    /\ UNCHANGED <<cpu, isr, obf, code, counts>>

\* Faulty: the 8259 is left unmasked.
MaskPicForgotten ==
    /\ Step("mask_pic", "idt_default", set)
    /\ UNCHANGED <<irr, iflag>>

(* Masking the 8259 takes back a request it has made. *)
MaskPic == /\ Step("mask_pic", "idt_default", [set EXCEPT !.picMasked = TRUE])
           /\ irr' = irr \ {LegacyPitVector}
           /\ UNCHANGED iflag

SetDefaultVectors ==
    /\ Step("idt_default", "idt_irq",
            [set EXCEPT !.idt = [v \in Vectors |->
                IF v = LegacyPitVector THEN "exception_double_falt"
                                       ELSE "unhandled_interrupt"]])
    /\ UNCHANGED <<irr, iflag>>

SetIrqVectors ==
    /\ Step("idt_irq", "keyboard",
            [set EXCEPT !.idt[TimerVector] = "apic_timer",
                        !.idt[KeyboardVector] = "ioapic_keyboard_int_stub",
                        !.idt[PitVector] = "pit_timer_interrupt"])
    /\ UNCHANGED <<irr, iflag>>

InitKeyboard == /\ Step("keyboard", "load_idt", [set EXCEPT !.keyboard = TRUE])
                /\ UNCHANGED <<irr, iflag>>

(* set_idt_desc; load_idt: cli, lidt, sti. *)
LoadIdt == /\ Step("load_idt", "apic_base", [set EXCEPT !.idtLoaded = TRUE])
           /\ iflag' = TRUE
           /\ UNCHANGED irr

SetApicBase ==
    /\ Step("apic_base", "timer_count", [set EXCEPT !.apic_base = "lapic"])
    /\ UNCHANGED <<irr, iflag>>

(* reload_lapic_timer and set_lapic_timer_prescaler. *)
ReloadTimer ==
    /\ Step("timer_count", "timer_lvt", [set EXCEPT !.timer.loaded = TRUE])
    /\ UNCHANGED <<irr, iflag>>

\* Faulty: the timer is left in one-shot mode.
SetTimerLvtOneShot ==
    /\ Step("timer_lvt", "timer_unmask",
            [set EXCEPT !.timer.vector = TimerVector, !.timer.masked = TRUE])
    /\ UNCHANGED <<irr, iflag>>

(* set_lapic_timer_lvt leaves the timer masked ... *)
SetTimerLvt ==
    /\ Step("timer_lvt", "timer_unmask",
            [set EXCEPT !.timer = [@ EXCEPT !.vector = TimerVector,
                                            !.masked = TRUE, !.periodic = TRUE]])
    /\ UNCHANGED <<irr, iflag>>

(* ... and set_lapic_int_mask unmasks it, keeping the other bits. *)
UnmaskTimer ==
    /\ Step("timer_unmask", "keyboard_low", [set EXCEPT !.timer.masked = FALSE])
    /\ UNCHANGED <<irr, iflag>>

(* write_ioapic_rdtable writes the low half of the entry, which unmasks    *)
(* the pin, before the high half, which holds the destination.             *)
EntryLow(pin, vector) ==
    [set EXCEPT !.rdtable[pin] = [@ EXCEPT !.vector = vector, !.masked = FALSE]]

EntryHigh(pin) == [set EXCEPT !.rdtable[pin].dest = Destination(lapic_id)]

\* Faulty: the pin is programmed as level-triggered, so that a byte which
\* has been waiting raises its interrupt now.
RouteKeyboardLevel ==
    /\ Step("keyboard_low", "keyboard_high",
            EntryLow(KeyboardPin, KeyboardVector))
    /\ irr' = IF obf = NoByte THEN irr ELSE irr \cup {KeyboardVector}
    /\ UNCHANGED iflag

RouteKeyboardLow == /\ Step("keyboard_low", "keyboard_high",
                            EntryLow(KeyboardPin, KeyboardVector))
                    /\ UNCHANGED <<irr, iflag>>

RouteKeyboardHigh == /\ Step("keyboard_high", "pit_low", EntryHigh(KeyboardPin))
                     /\ UNCHANGED <<irr, iflag>>

\* Faulty: the PIT gets a vector of a higher priority class.
RoutePitHighClass == /\ Step("pit_low", "pit_high", EntryLow(PitPin, 50))
                     /\ UNCHANGED <<irr, iflag>>

RoutePitLow == /\ Step("pit_low", "pit_high", EntryLow(PitPin, PitVector))
               /\ UNCHANGED <<irr, iflag>>

RoutePitHigh == /\ Step("pit_high", "loop", EntryHigh(PitPin))
                /\ UNCHANGED <<irr, iflag>>

BootStep == \/ MaskPic \/ SetDefaultVectors \/ SetIrqVectors \/ InitKeyboard
            \/ LoadIdt \/ SetApicBase
            \/ ReloadTimer \/ SetTimerLvt \/ UnmaskTimer
            \/ RouteKeyboardLow \/ RouteKeyboardHigh
            \/ RoutePitLow \/ RoutePitHigh

-----------------------------------------------------------------------------
(* Devices.                                                                *)

(* What an edge on a pin of the I/O APIC requests. *)
Edge(pin) ==
    LET entry == set.rdtable[pin]
    IN  IF entry.masked \/ entry.dest # user.lapicId THEN {} ELSE {entry.vector}

KeyboardSends(b) ==
    /\ obf = NoByte
    /\ user.early \/ ~set.rdtable[KeyboardPin].masked
    /\ b \in ReplyBytes => user.replies
    /\ obf' = b
    /\ irr' = irr \cup Edge(KeyboardPin)
    /\ UNCHANGED <<pc, cpu, iflag, set, isr, code, counts>>

(* The PIT is wired to the 8259 and to the I/O APIC. *)
PitTick ==
    /\ irr' = irr \cup Edge(PitPin)
                  \cup (IF set.picMasked THEN {} ELSE {LegacyPitVector})
    /\ UNCHANGED <<pc, cpu, iflag, set, isr, obf, code, counts>>

TimerTick ==
    /\ set.timer.loaded /\ set.timer.periodic /\ ~set.timer.masked
    /\ irr' = irr \cup {set.timer.vector}
    /\ UNCHANGED <<pc, cpu, iflag, set, isr, obf, code, counts>>

-----------------------------------------------------------------------------
(* Interrupts.                                                             *)

Accept(v) == /\ iflag
             /\ v \in irr
             /\ \A w \in irr : w <= v
             /\ \A w \in isr : Class(w) < Class(v)
             /\ cpu' = IF set.idtLoaded THEN set.idt[v] ELSE "absent"
             /\ irr' = irr \ {v}
             /\ isr' = isr \cup {v}
             /\ iflag' = FALSE
             /\ UNCHANGED <<pc, set, obf, code, counts>>

Count(c) == counts' = [counts EXCEPT ![c] = (@ + 1) % CountMod]

(* A write of the EOI register ends the service of the highest vector; it  *)
(* reaches the register through apic_base only.                            *)
Eoi == isr' = IF set.apic_base = "lapic" THEN isr \ {Max(isr)} ELSE isr

Iret == /\ cpu' = "start"
        /\ iflag' = TRUE

apic_timer ==
    /\ cpu = "apic_timer"
    /\ Count("timer")
    /\ Eoi
    /\ Iret
    /\ UNCHANGED <<pc, set, irr, obf, code>>

pit_timer_interrupt ==
    /\ cpu = "pit_timer_interrupt"
    /\ Count("pit")
    /\ Eoi
    /\ Iret
    /\ UNCHANGED <<pc, set, irr, obf, code>>

\* Faulty: the handler reads another port, and the byte stays where it is.
keyboard_read_other_port ==
    /\ cpu = "ioapic_keyboard_int_stub"
    /\ code = NoByte
    /\ code' = obf
    /\ UNCHANGED <<pc, cpu, iflag, set, irr, isr, obf, counts>>

(* inb(PS2_DATAPORT) empties the output buffer. *)
keyboard_read ==
    /\ cpu = "ioapic_keyboard_int_stub"
    /\ code = NoByte
    /\ code' = obf
    /\ obf' = NoByte
    /\ UNCHANGED <<pc, cpu, iflag, set, irr, isr, counts>>

(* A reply of the keyboard returns before the EOI. *)
keyboard_reply ==
    /\ cpu = "ioapic_keyboard_int_stub"
    /\ code \in ReplyBytes
    /\ code' = NoByte
    /\ Iret
    /\ UNCHANGED <<pc, set, irr, isr, obf, counts>>

\* Faulty: the EOI is forgotten for scan codes as well.
keyboard_key_no_eoi ==
    /\ cpu = "ioapic_keyboard_int_stub"
    /\ code \in ScanBytes
    /\ code' = NoByte
    /\ Count("keyboard")
    /\ Iret
    /\ UNCHANGED <<pc, set, irr, isr, obf>>

keyboard_key ==
    /\ cpu = "ioapic_keyboard_int_stub"
    /\ code \in ScanBytes
    /\ code' = NoByte
    /\ Count("keyboard")
    /\ Eoi
    /\ Iret
    /\ UNCHANGED <<pc, set, irr, obf>>

Handler == \/ apic_timer \/ pit_timer_interrupt
           \/ keyboard_read \/ keyboard_reply \/ keyboard_key

AcceptHighest == \E v \in Vectors : Accept(v)

KeyboardActs == \E b \in ScanBytes \cup ReplyBytes : KeyboardSends(b)

Next == \/ BootStep /\ UNCHANGED user
        \/ Handler /\ UNCHANGED user
        \/ AcceptHighest /\ UNCHANGED user
        \/ PitTick /\ UNCHANGED user
        \/ TimerTick /\ UNCHANGED user
        \/ KeyboardActs /\ UNCHANGED user

(* The CPU runs and takes pending interrupts; the two timers tick.  Between *)
(* two ticks the CPU has time for the code they interrupt, so that the boot *)
(* goes on.  Nothing makes anybody press a key.                             *)
Fairness == /\ SF_vars(BootStep)
            /\ WF_vars(Handler)
            /\ WF_vars(AcceptHighest)
            /\ WF_vars(PitTick)
            /\ WF_vars(TimerTick)

Spec == Init /\ [][Next]_<<vars, user>> /\ Fairness

-----------------------------------------------------------------------------
(* Properties.                                                             *)

(* An interrupt is taken only when everything its handler relies on is in  *)
(* place: the handler is the one of the device, not the catch-all or an    *)
(* exception's; the key queue has been initialised (kernel.c:279) and      *)
(* apic_base, which the EOI goes through, is set (kernel.c:342), although  *)
(* sti comes long before (kernel.c:281).                                   *)
ReadyForInterrupts ==
    cpu # "start" => /\ cpu \in Handlers
                     /\ set.keyboard
                     /\ set.apic_base = "lapic"
                     /\ \E v \in isr : set.idt[v] = cpu

(* As long as the keyboard sends scan codes only, every interrupt that was *)
(* taken has been acknowledged when _start runs again, and while a handler *)
(* runs its own vector is the only one in service.                         *)
EveryServiceEnds ==
    ~user.replies =>
        IF cpu = "start" THEN isr = {} ELSE \E v \in Vectors : isr = {v}

Reading == cpu = "ioapic_keyboard_int_stub" /\ code = NoByte

Missed == obf # NoByte /\ KeyboardVector \notin irr /\ ~Reading

(* On CPU 0, if no byte comes before the I/O APIC entry is unmasked, none  *)
(* is ever stuck: while one is in the controller its interrupt is pending or about *)
(* to read it, however the bytes and the handlers overlap.                 *)
NoByteMissed == ~user.early /\ user.lapicId = 0 => ~Missed

(* A byte that arrived too early for the I/O APIC is never read: nothing   *)
(* but its interrupt reads the data port, and the controller raises no     *)
(* further edge before it is read.  The keyboard stays deaf.               *)
DeafForever ==
    [][Missed => Missed' /\ counts'.keyboard = counts.keyboard]_vars

Abandoned == cpu = "start" /\ isr # {}

(* After a reply of the keyboard (kernel.c:93) the vector of the keyboard  *)
(* stays in service.  All three vectors are of its priority class, so that *)
(* no interrupt, not even a timer's, is taken ever again.                  *)
AbandonedForever == [][Abandoned => Abandoned' /\ counts' = counts]_vars

(* `runs at 18Hz' (kernel.c:383): the clock of the main loop never stops.  *)
ClockNeverStops == []<><<counts'.pit # counts.pit>>_vars

(* On CPU 0 it never does while the keyboard sends no reply, whatever else *)
(* arrives.                                                                *)
PitKeepsCounting == ~user.replies /\ user.lapicId = 0 => ClockNeverStops

(* Interrupts come so seldom that there are always moments without one. *)
Unhurried == []<>(cpu = "start" /\ irr = {})

(* The lowest vector is served too, as long as the others leave it room,   *)
(* and every byte of the keyboard is read if none came too early.          *)
NobodyStarves ==
    Unhurried /\ ~user.replies =>
        /\ []<><<counts'.timer # counts.timer>>_vars
        /\ ~user.early /\ user.lapicId = 0 => (obf # NoByte ~> obf = NoByte)

(* A kernel whose CPU has another id than the 0 that is left of it in the  *)
(* redirection entries (kernel.c:367) gets the interrupts of its own timer *)
(* only, although it has printed the right id (kernel.c:346): the clock    *)
(* and the keyboard are dead from the start.                               *)
DeadOnOtherCpu ==
    user.lapicId # 0 => counts.pit = 0 /\ counts.keyboard = 0
=============================================================================
