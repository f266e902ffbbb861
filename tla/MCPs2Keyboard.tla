--------------------------- MODULE MCPs2Keyboard ----------------------------
(* The typists that TLC explores. *)
EXTENDS Ps2Keyboard

(* Types keys whose characters can be foretold, faster than they are       *)
(* handled.                                                                *)
TypingKeys == ShiftKeys \cup {"Caps", "A", "One", "Up", "Pad8"}
Writer == [keys |-> TypingKeys, repeat |-> TypingKeys,
           oneShift |-> TRUE, maxWire |-> 4]

(* Holds any modifiers, and presses the keys whose codes imitate them. *)
Pianist == [keys |-> ShiftKeys \cup CtrlKeys \cup {"PrtSc", "Pause"},
            repeat |-> {"PrtSc"}, oneShift |-> FALSE, maxWire |-> 6]

(* Presses the lock keys. *)
Locker == [keys |-> {"Num", "Scroll", "Pause", "Up"}, repeat |-> {"Num", "Scroll"},
           oneShift |-> TRUE, maxWire |-> 8]

AllTypists == {Writer, Pianist, Locker}
=============================================================================
