---------------------------- MODULE Ps2Keyboard -----------------------------
(***************************************************************************)
(* The scan-code decoder of kernel/keyboard.c: ps2_keyboard_int turns the  *)
(* bytes a PS/2 keyboard sends (scan-code set 1) into modifier flags and   *)
(* characters.  One key of the keyboard sends up to six bytes, one         *)
(* interrupt each, and other keys may go down or up in between, so what    *)
(* the decoder believes lags behind what the fingers do.                   *)
(*                                                                         *)
(* Characters are pairs of the table they come from and the scan code:     *)
(* <<"plain", c>> and <<"shifted", c>> are the entries of the two tables   *)
(* of scan_code_to_char, <<"upper", c>> a letter minus 32, <<"arrow", v>>  *)
(* the control character v of an arrow key, NoKey the character 0.         *)
(***************************************************************************)
EXTENDS Naturals, Sequences

CONSTANT Typists  \* what a typist has and does, records of
                  \*   keys      the keys on the keyboard, names from AllKeys
                  \*   repeat    those that repeat while held down
                  \*   oneShift  never holds both shift keys at a time
                  \*   maxWire   bound on the bytes sent and not yet handled

VARIABLES kbd,    \* the flags of keyboard.c's ps2_keyboard
          pushed, \* the key the last interrupt pushed, NoKey for none
          wire,   \* bytes on their way, each with the key it should give
          down,   \* the keys that are held down
          locks,  \* the locks, as the keys pressed so far determine them
          typist  \* who is typing

vars == <<kbd, pushed, wire, down, locks, typist>>

-----------------------------------------------------------------------------
(* The keyboard: which bytes a key sends.                                  *)

ShiftKeys == {"LShift", "RShift"}
CtrlKeys == {"LCtrl", "RCtrl"}

AllKeys == ShiftKeys \cup CtrlKeys \cup
           {"Caps", "Num", "Scroll", "A", "One", "Up", "Pad8", "PrtSc", "Pause"}

Make == [LShift |-> <<42>>, RShift |-> <<54>>,
         LCtrl |-> <<29>>, RCtrl |-> <<224, 29>>,
         Caps |-> <<58>>, Num |-> <<69>>, Scroll |-> <<70>>,
         A |-> <<30>>, One |-> <<2>>,
         Up |-> <<224, 72>>, Pad8 |-> <<72>>,
         PrtSc |-> <<224, 42, 224, 55>>,
         Pause |-> <<225, 29, 69, 225, 157, 197>>]

Break == [LShift |-> <<170>>, RShift |-> <<182>>,
          LCtrl |-> <<157>>, RCtrl |-> <<224, 157>>,
          Caps |-> <<186>>, Num |-> <<197>>, Scroll |-> <<198>>,
          A |-> <<158>>, One |-> <<130>>,
          Up |-> <<224, 200>>, Pad8 |-> <<200>>,
          PrtSc |-> <<224, 183, 224, 170>>,
          Pause |-> <<>>]

ASSUME KeyAssumption ==
    Typists \subseteq [keys : SUBSET AllKeys, repeat : SUBSET AllKeys,
                       oneShift : BOOLEAN, maxWire : Nat]

-----------------------------------------------------------------------------
(* scan_code_to_char.  The variants marked faulty, here and below, are in  *)
(* no specification: a run that put one in the place of its original must  *)
(* fail.                                                                   *)

NoKey == <<"none", 0>>

TableSize == 59
BlankCodes == {0, 1, 29, 42, 54, 56, 58}
Letters == 16 .. 25 \cup 30 .. 38 \cup 44 .. 50
ShiftPairs == 2 .. 13 \cup {26, 27, 39, 40, 41, 43, 51, 52, 53}

scan_code_to_char(code, shift) ==
    IF code >= TableSize \/ code \in BlankCodes THEN NoKey
    ELSE IF shift /\ code \in ShiftPairs THEN <<"shifted", code>>
    ELSE <<"plain", code>>

-----------------------------------------------------------------------------
(* ps2_keyboard_int.                                                       *)

ExtendedPrefix == 224

(* The control characters the main loop takes as cursor movements. *)
ArrowChar == [c \in {72, 80, 75, 77} |->
                CASE c = 72 -> 7 [] c = 80 -> 6 [] c = 75 -> 5 [] c = 77 -> 4]

\* Faulty: only the left shift key is taken off.
FlagsLeftShiftOnly(k, code) ==
    CASE code \in {42, 54}   -> [k EXCEPT !.shift = TRUE]
      [] code = 170          -> [k EXCEPT !.shift = FALSE]
      [] code = 58           -> [k EXCEPT !.caps_lock = ~@]
      [] code = 69           -> [k EXCEPT !.num_lock = ~@]
      [] code = 29           -> [k EXCEPT !.ctrl = TRUE]
      [] code = 157          -> [k EXCEPT !.ctrl = FALSE]
      [] code = 198          -> [k EXCEPT !.scroll_lock = ~@]
      [] OTHER               -> k

\* Faulty: the release of caps lock toggles it as well.
FlagsCapsTwice(k, code) ==
    CASE code \in {42, 54}   -> [k EXCEPT !.shift = TRUE]
      [] code \in {170, 182} -> [k EXCEPT !.shift = FALSE]
      [] code \in {58, 186}  -> [k EXCEPT !.caps_lock = ~@]
      [] code = 69           -> [k EXCEPT !.num_lock = ~@]
      [] code = 29           -> [k EXCEPT !.ctrl = TRUE]
      [] code = 157          -> [k EXCEPT !.ctrl = FALSE]
      [] code = 198          -> [k EXCEPT !.scroll_lock = ~@]
      [] OTHER               -> k

(* The flags after the switch. *)
Flags(k, code) ==
    CASE code \in {42, 54}   -> [k EXCEPT !.shift = TRUE]
      [] code \in {170, 182} -> [k EXCEPT !.shift = FALSE]
      [] code = 58           -> [k EXCEPT !.caps_lock = ~@]
      [] code = 69           -> [k EXCEPT !.num_lock = ~@]
      [] code = 29           -> [k EXCEPT !.ctrl = TRUE]
      [] code = 157          -> [k EXCEPT !.ctrl = FALSE]
      [] code = 198          -> [k EXCEPT !.scroll_lock = ~@]
      [] OTHER               -> k

(* The codes whose case in the switch leaves key at 0. *)
FlagCodes == {42, 54, 170, 182, 58, 69, 29, 157, 198, ExtendedPrefix}

(* An arrow code without the prefix falls through all four arrow cases     *)
(* into the default one.                                                   *)
KeyOf(k, code) ==
    LET key == scan_code_to_char(code, k.shift)
    IN  IF code \in FlagCodes THEN NoKey
        ELSE IF code \in DOMAIN ArrowChar /\ k.extended_mode
               THEN <<"arrow", ArrowChar[code]>>
        ELSE IF code \in Letters /\ (k.shift \/ k.caps_lock)
               THEN <<"upper", code>>
        ELSE key

\* Faulty: the prefix stays in force until a key is pushed.
int_prefix_kept(code) ==
    /\ kbd' = [Flags(kbd, code) EXCEPT !.extended_mode =
                 code = ExtendedPrefix \/ (@ /\ KeyOf(kbd, code) = NoKey)]
    /\ pushed' = KeyOf(kbd, code)

(* The prefix sets extended_mode; the last statement of the handler clears *)
(* it after any other byte.                                                *)
ps2_keyboard_int(code) ==
    /\ kbd' = [Flags(kbd, code) EXCEPT !.extended_mode = code = ExtendedPrefix]
    /\ pushed' = KeyOf(kbd, code)

-----------------------------------------------------------------------------
(* The actions.                                                            *)

Cleared == [shift |-> FALSE, ctrl |-> FALSE, num_lock |-> FALSE,
            scroll_lock |-> FALSE, caps_lock |-> FALSE,
            extended_mode |-> FALSE]

(* init_ps2_keyboard; nobody touches the keyboard before. *)
Init == /\ kbd = Cleared
        /\ pushed = NoKey
        /\ wire = <<>>
        /\ down = {}
        /\ locks = [caps |-> FALSE, num |-> FALSE, scroll |-> FALSE]
        /\ typist \in Typists

(* The interrupt of the oldest byte.  No key here sends one of the replies  *)
(* at which the handler returns before the decoder (kernel.c:93); that is  *)
(* in module Interrupts.                                                   *)
HandleByte == /\ wire # <<>>
              /\ ps2_keyboard_int(Head(wire).code)
              /\ wire' = Tail(wire)
              /\ UNCHANGED <<down, locks, typist>>

(* What a typist expects key k to give: the shifted or capital character   *)
(* while a shift key is held, capital letters under caps lock.             *)
Typed(k) ==
    LET shift == down \cap ShiftKeys # {}
    IN  CASE k = "A"   -> IF shift \/ locks.caps THEN <<"upper", 30>> ELSE <<"plain", 30>>
          [] k = "One" -> IF shift THEN <<"shifted", 2>> ELSE <<"plain", 2>>
          [] k = "Up"  -> <<"arrow", 7>>
          [] OTHER     -> NoKey

(* The bytes of a key; the last one should give key `expect`. *)
Send(codes, expect) ==
    /\ Len(wire) + Len(codes) <= typist.maxWire
    /\ wire' = wire \o [i \in 1 .. Len(codes) |->
                          [code |-> codes[i],
                           expect |-> IF i = Len(codes) THEN expect ELSE NoKey]]

(* The lock a key changes when it goes down.  Scroll lock changes when its *)
(* key is released, and the codes of the pause key imitate num lock's.     *)
Toggled(k) == CASE k = "Caps"             -> [locks EXCEPT !.caps = ~@]
                [] k \in {"Num", "Pause"} -> [locks EXCEPT !.num = ~@]
                [] OTHER                  -> locks

Press(k) == /\ k \notin down
            /\ typist.oneShift /\ k \in ShiftKeys => down \cap ShiftKeys = {}
            /\ Send(Make[k], Typed(k))
            /\ down' = down \cup {k}
            /\ locks' = Toggled(k)
            /\ UNCHANGED <<kbd, pushed, typist>>

Repeat(k) == /\ k \in down
             /\ Send(Make[k], Typed(k))
             /\ locks' = Toggled(k)
             /\ UNCHANGED <<kbd, pushed, down, typist>>

Release(k) == /\ k \in down
              /\ Send(Break[k], NoKey)
              /\ down' = down \ {k}
              /\ locks' = IF k = "Scroll" THEN [locks EXCEPT !.scroll = ~@] ELSE locks
              /\ UNCHANGED <<kbd, pushed, typist>>

Next == \/ HandleByte
        \/ \E k \in typist.keys : Press(k) \/ Release(k)
        \/ \E k \in typist.repeat : Repeat(k)

Spec == Init /\ [][Next]_vars

-----------------------------------------------------------------------------
(* Properties.                                                             *)

(* Every byte gives the character the typist expected when the key went    *)
(* down, however many other keys went down or up before the interrupt: the *)
(* prefix of an arrow key, the shift keys and caps lock act on the keys    *)
(* typed after them and on no other (keyboard.c:69-158).  The two shift    *)
(* keys, and the shift that the print-screen key sends, share a flag, so   *)
(* that this is about a typist who uses one of them at a time.             *)
DecodesWhatWasTyped ==
    [][HandleByte /\ typist.oneShift /\ "PrtSc" \notin typist.keys =>
         pushed' = Head(wire).expect]_vars

(* No modifier sticks: once every byte is handled, the shift and ctrl      *)
(* flags are up only while a key that sends their codes is held (the       *)
(* print-screen key sends a shift of its own), and no prefix is pending.   *)
ModifiersHaveCause ==
    wire = <<>> => /\ kbd.shift => down \cap (ShiftKeys \cup {"PrtSc"}) # {}
                   /\ kbd.ctrl => down \cap CtrlKeys # {}
                   /\ ~kbd.extended_mode

(* Once every byte is handled, the lock flags agree with the number of     *)
(* times their keys went down, or up for scroll lock, repeats of a held    *)
(* key included, whatever prefixed bytes came in between.                  *)
LocksFollowKeys ==
    wire = <<>> => /\ kbd.caps_lock = locks.caps
                   /\ kbd.num_lock = locks.num
                   /\ kbd.scroll_lock = locks.scroll
=============================================================================
