------------------------- MODULE Ps2KeyboardProofs --------------------------
(***************************************************************************)
(* Theorems about Ps2Keyboard, whoever types and however many bytes wait   *)
(* for their interrupt.                                                    *)
(*                                                                         *)
(* What the decoder believes lags behind the keys by the bytes on the      *)
(* wire.  The invariant says what it will have believed on the way, one    *)
(* set of flags before each of those bytes, and how the last of them       *)
(* relates to the keys.                                                    *)
(***************************************************************************)
EXTENDS Ps2Keyboard, SequenceTheorems, TLAPS

FlagsType == [shift : BOOLEAN, ctrl : BOOLEAN, num_lock : BOOLEAN,
              scroll_lock : BOOLEAN, caps_lock : BOOLEAN, extended_mode : BOOLEAN]

Keys == {"none", "plain", "shifted", "upper", "arrow"} \X Nat

Byte == [code : Nat, expect : Keys]

(* What the handler makes of the flags. *)
After(f, code) == [Flags(f, code) EXCEPT !.extended_mode = code = ExtendedPrefix]

(* The typist whose every character can be told. *)
Careful == typist.oneShift /\ "PrtSc" \notin typist.keys

(* From flags k the bytes of w lead to flags e, and give what they should. *)
Traced(k, w, e) ==
    \E h \in Seq(FlagsType) :
       /\ Len(h) = Len(w) + 1 /\ h[1] = k /\ h[Len(w) + 1] = e
       /\ \A i \in 1 .. Len(w) :
             /\ h[i + 1] = After(h[i], w[i].code)
             /\ Careful => KeyOf(h[i], w[i].code) = w[i].expect

(* The flags once every byte is handled. *)
Settled(e) ==
    /\ e.shift => down \cap (ShiftKeys \cup {"PrtSc"}) # {}
    /\ e.ctrl => down \cap CtrlKeys # {}
    /\ ~e.extended_mode
    /\ e.caps_lock <=> locks.caps
    /\ e.num_lock <=> locks.num
    /\ e.scroll_lock <=> locks.scroll
    /\ Careful /\ down \cap ShiftKeys # {} => e.shift

KbdTypeOK == /\ kbd \in FlagsType
             /\ wire \in Seq(Byte)
             /\ typist \in Typists
             /\ down \subseteq typist.keys
             /\ locks \in [caps : BOOLEAN, num : BOOLEAN, scroll : BOOLEAN]

KbdInv == /\ KbdTypeOK
          /\ typist.oneShift => ~ (ShiftKeys \subseteq down)
          /\ \E e \in FlagsType : Traced(kbd, wire, e) /\ Settled(e)

-----------------------------------------------------------------------------
(* Flags.                                                                  *)

(* What the switch does to the flags. *)
LEMMA FlagsAfter ==
    ASSUME NEW f \in FlagsType, NEW code \in Nat, NEW g, g = Flags(f, code)
    PROVE  /\ g \in FlagsType
           /\ g.shift <=> code \in {42, 54} \/ (f.shift /\ code \notin {170, 182})
           /\ g.ctrl <=> code = 29 \/ (f.ctrl /\ code # 157)
           /\ g.caps_lock <=> (f.caps_lock <=> code # 58)
           /\ g.num_lock <=> (f.num_lock <=> code # 69)
           /\ g.scroll_lock <=> (f.scroll_lock <=> code # 198)
<1>1. CASE code \in {42, 54}
  <2>1. g = [f EXCEPT !.shift = TRUE]
      BY <1>1 DEF Flags
  <2>2. /\ g \in FlagsType /\ g.shift
        /\ g.ctrl = f.ctrl /\ g.caps_lock = f.caps_lock
        /\ g.num_lock = f.num_lock /\ g.scroll_lock = f.scroll_lock
      BY <2>1, ZenonT(30) DEF FlagsType
  <2>. QED
      BY <1>1, <2>2
<1>2. CASE code \in {170, 182}
  <2>1. g = [f EXCEPT !.shift = FALSE]
      BY <1>2 DEF Flags
  <2>2. /\ g \in FlagsType /\ ~g.shift
        /\ g.ctrl = f.ctrl /\ g.caps_lock = f.caps_lock
        /\ g.num_lock = f.num_lock /\ g.scroll_lock = f.scroll_lock
      BY <2>1, ZenonT(30) DEF FlagsType
  <2>. QED
      BY <1>2, <2>2
<1>3. CASE code = 58
  <2>1. g = [f EXCEPT !.caps_lock = ~@]
      BY <1>3 DEF Flags
  <2>2. /\ g \in FlagsType /\ (g.caps_lock <=> ~f.caps_lock)
        /\ g.shift = f.shift /\ g.ctrl = f.ctrl
        /\ g.num_lock = f.num_lock /\ g.scroll_lock = f.scroll_lock
      BY <2>1, ZenonT(30) DEF FlagsType
  <2>. QED
      BY <1>3, <2>2
<1>4. CASE code = 69
  <2>1. g = [f EXCEPT !.num_lock = ~@]
      BY <1>4 DEF Flags
  <2>2. /\ g \in FlagsType /\ (g.num_lock <=> ~f.num_lock)
        /\ g.shift = f.shift /\ g.ctrl = f.ctrl
        /\ g.caps_lock = f.caps_lock /\ g.scroll_lock = f.scroll_lock
      BY <2>1, ZenonT(30) DEF FlagsType
  <2>. QED
      BY <1>4, <2>2
<1>5. CASE code = 29
  <2>1. g = [f EXCEPT !.ctrl = TRUE]
      BY <1>5 DEF Flags
  <2>2. /\ g \in FlagsType /\ g.ctrl
        /\ g.shift = f.shift /\ g.caps_lock = f.caps_lock
        /\ g.num_lock = f.num_lock /\ g.scroll_lock = f.scroll_lock
      BY <2>1, ZenonT(30) DEF FlagsType
  <2>. QED
      BY <1>5, <2>2
<1>6. CASE code = 157
  <2>1. g = [f EXCEPT !.ctrl = FALSE]
      BY <1>6 DEF Flags
  <2>2. /\ g \in FlagsType /\ ~g.ctrl
        /\ g.shift = f.shift /\ g.caps_lock = f.caps_lock
        /\ g.num_lock = f.num_lock /\ g.scroll_lock = f.scroll_lock
      BY <2>1, ZenonT(30) DEF FlagsType
  <2>. QED
      BY <1>6, <2>2
<1>7. CASE code = 198
  <2>1. g = [f EXCEPT !.scroll_lock = ~@]
      BY <1>7 DEF Flags
  <2>2. /\ g \in FlagsType /\ (g.scroll_lock <=> ~f.scroll_lock)
        /\ g.shift = f.shift /\ g.ctrl = f.ctrl
        /\ g.caps_lock = f.caps_lock /\ g.num_lock = f.num_lock
      BY <2>1, ZenonT(30) DEF FlagsType
  <2>. QED
      BY <1>7, <2>2
<1>8. CASE code \notin {42, 54, 170, 182, 58, 69, 29, 157, 198}
  <2>1. g = f
      BY <1>8 DEF Flags
  <2>. QED
      BY <1>8, <2>1
<1>. QED
    BY <1>1, <1>2, <1>3, <1>4, <1>5, <1>6, <1>7, <1>8

(* What a byte does to them. *)
Follows(f, code, g) ==
    /\ g \in FlagsType
    /\ g.shift <=> code \in {42, 54} \/ (f.shift /\ code \notin {170, 182})
    /\ g.ctrl <=> code = 29 \/ (f.ctrl /\ code # 157)
    /\ g.caps_lock <=> (f.caps_lock <=> code # 58)
    /\ g.num_lock <=> (f.num_lock <=> code # 69)
    /\ g.scroll_lock <=> (f.scroll_lock <=> code # 198)
    /\ g.extended_mode <=> code = 224

(* After does. *)
LEMMA AfterByte ==
    ASSUME NEW f \in FlagsType, NEW code \in Nat
    PROVE  Follows(f, code, After(f, code))
<1>. SUFFICES ASSUME NEW g, g = After(f, code) PROVE Follows(f, code, g)
    OBVIOUS
<1>. DEFINE b == Flags(f, code)
            x == code = ExtendedPrefix
<1>1. /\ b \in FlagsType
      /\ b.shift <=> code \in {42, 54} \/ (f.shift /\ code \notin {170, 182})
      /\ b.ctrl <=> code = 29 \/ (f.ctrl /\ code # 157)
      /\ b.caps_lock <=> (f.caps_lock <=> code # 58)
      /\ b.num_lock <=> (f.num_lock <=> code # 69)
      /\ b.scroll_lock <=> (f.scroll_lock <=> code # 198)
    BY FlagsAfter
<1>2. x \in BOOLEAN /\ (x <=> code = ExtendedPrefix)
    BY SMT
<1>3. g = [b EXCEPT !.extended_mode = x]
    BY Zenon DEF After
<1>. HIDE DEF b, x
<1>4. b \in FlagsType
    BY <1>1
<1>5. /\ g \in FlagsType /\ g.extended_mode = x
      /\ g.shift = b.shift /\ g.ctrl = b.ctrl /\ g.caps_lock = b.caps_lock
      /\ g.num_lock = b.num_lock /\ g.scroll_lock = b.scroll_lock
    BY <1>2, <1>3, <1>4, ZenonT(30) DEF FlagsType
<1>. QED
    BY <1>1, <1>2, <1>5 DEF Follows, ExtendedPrefix

(* The key of a byte. *)
LEMMA KeyOfByte ==
    ASSUME NEW f \in FlagsType, NEW code \in Nat
    PROVE  /\ code >= TableSize /\ code \notin {72, 80, 75, 77} => KeyOf(f, code) = NoKey
           /\ code \in {29, 42, 54, 58} => KeyOf(f, code) = NoKey
           /\ code = 72 => KeyOf(f, code) = IF f.extended_mode THEN <<"arrow", 7>> ELSE NoKey
           /\ code = 30 => KeyOf(f, code) = IF f.shift \/ f.caps_lock THEN <<"upper", 30>>
                                                                    ELSE <<"plain", 30>>
           /\ code = 2 => KeyOf(f, code) = IF f.shift THEN <<"shifted", 2>> ELSE <<"plain", 2>>
<1>. USE DEF KeyOf, scan_code_to_char, TableSize, BlankCodes, Letters, ShiftPairs,
             FlagCodes, ExtendedPrefix, ArrowChar
<1>1. code >= TableSize /\ code \notin {72, 80, 75, 77} => KeyOf(f, code) = NoKey
    OBVIOUS
<1>2. code \in {29, 42, 54, 58} => KeyOf(f, code) = NoKey
    OBVIOUS
<1>3. code = 72 => KeyOf(f, code) = IF f.extended_mode THEN <<"arrow", 7>> ELSE NoKey
    OBVIOUS
<1>4. code = 30 => KeyOf(f, code) = IF f.shift \/ f.caps_lock THEN <<"upper", 30>>
                                                             ELSE <<"plain", 30>>
    OBVIOUS
<1>5. code = 2 => KeyOf(f, code) = IF f.shift THEN <<"shifted", 2>> ELSE <<"plain", 2>>
    OBVIOUS
<1>. QED
    BY <1>1, <1>2, <1>3, <1>4, <1>5

-----------------------------------------------------------------------------
(* Traces.                                                                 *)

(* An empty wire leads nowhere. *)
LEMMA TracedNone == \A k \in FlagsType : Traced(k, <<>>, k)
<1>. TAKE k \in FlagsType
<1>. DEFINE h == <<k>>
<1>1. h \in Seq(FlagsType) /\ Len(h) = 1 /\ h[1] = k
    OBVIOUS
<1>2. Len(<<>>) = 0
    OBVIOUS
<1>. HIDE DEF h
<1>. QED
    BY <1>1, <1>2 DEF Traced

(* A byte leads to what the handler makes of it. *)
LEMMA TracedOne ==
    ASSUME NEW k \in FlagsType, NEW b \in Byte,
           Careful => KeyOf(k, b.code) = b.expect
    PROVE  Traced(k, <<b>>, After(k, b.code))
<1>. DEFINE e == After(k, b.code)
            h == <<k, e>>
<1>0. b.code \in Nat
    BY DEF Byte
<1>1. e \in FlagsType
    BY <1>0, AfterByte DEF Follows
<1>. HIDE DEF e
<1>2. h \in Seq(FlagsType) /\ Len(h) = 2 /\ h[1] = k /\ h[1 + 1] = e
    BY <1>1
<1>3. Len(<<b>>) = 1 /\ <<b>>[1] = b
    OBVIOUS
<1>4. \A i \in 1 .. 1 : i = 1
    OBVIOUS
<1>. HIDE DEF h
<1>. QED
    BY <1>2, <1>3, <1>4 DEF Traced, e

(* Traces of two runs of bytes make one of both. *)
LEMMA TracedCat ==
    ASSUME NEW k, NEW e, NEW f, NEW w \in Seq(Byte), NEW v \in Seq(Byte),
           Traced(k, w, e), Traced(e, v, f)
    PROVE  Traced(k, w \o v, f)
<1>1. PICK h \in Seq(FlagsType) :
         /\ Len(h) = Len(w) + 1 /\ h[1] = k /\ h[Len(w) + 1] = e
         /\ \A i \in 1 .. Len(w) :
               /\ h[i + 1] = After(h[i], w[i].code)
               /\ Careful => KeyOf(h[i], w[i].code) = w[i].expect
    BY DEF Traced
<1>2. PICK g \in Seq(FlagsType) :
         /\ Len(g) = Len(v) + 1 /\ g[1] = e /\ g[Len(v) + 1] = f
         /\ \A i \in 1 .. Len(v) :
               /\ g[i + 1] = After(g[i], v[i].code)
               /\ Careful => KeyOf(g[i], v[i].code) = v[i].expect
    BY DEF Traced
<1>. DEFINE n == Len(w)
            m == Len(v)
            both == [i \in 1 .. n + m + 1 |-> IF i <= n THEN h[i] ELSE g[i - n]]
            b(i) == (w \o v)[i]
<1>3. n \in Nat /\ m \in Nat
    OBVIOUS
<1>4. /\ Len(w \o v) = n + m
      /\ \A i \in 1 .. n : b(i) = w[i]
      /\ \A i \in n + 1 .. n + m : b(i) = v[i - n]
    BY ConcatProperties
<1>. HIDE DEF n, m, b
<1>5. both \in Seq(FlagsType) /\ Len(both) = n + m + 1
    BY <1>1, <1>2, <1>3 DEF n, m
<1>6. /\ both[1] = k /\ both[n + 1] = e /\ both[n + m + 1] = f
      /\ \A i \in 1 .. n : both[i] = h[i]
      /\ \A i \in n + 1 .. n + m + 1 : both[i] = g[i - n]
    BY <1>1, <1>2, <1>3 DEF n, m
<1>. HIDE DEF both
<1>7. ASSUME NEW i \in 1 .. n
      PROVE  /\ both[i + 1] = After(both[i], b(i).code)
             /\ Careful => KeyOf(both[i], b(i).code) = b(i).expect
  <2>1. both[i] = h[i] /\ b(i) = w[i]
      BY <1>4, <1>6
  <2>2. both[i + 1] = h[i + 1]
    <3>1. CASE i = n
        BY <1>1, <1>6, <3>1 DEF n
    <3>2. CASE i # n
      <4>1. i + 1 \in 1 .. n
          BY <1>3, <3>2
      <4>. QED
          BY <1>6, <4>1
    <3>. QED
        BY <3>1, <3>2
  <2>. QED
      BY <1>1, <2>1, <2>2 DEF n
<1>8. ASSUME NEW i \in n + 1 .. n + m
      PROVE  /\ both[i + 1] = After(both[i], b(i).code)
             /\ Careful => KeyOf(both[i], b(i).code) = b(i).expect
  <2>1. i - n \in 1 .. m /\ (i - n) + 1 = (i + 1) - n
      BY <1>3
  <2>2. both[i] = g[i - n] /\ b(i) = v[i - n] /\ both[i + 1] = g[(i - n) + 1]
    <3>1. i \in n + 1 .. n + m + 1 /\ i + 1 \in n + 1 .. n + m + 1
        BY <1>3
    <3>. QED
        BY <1>4, <1>6, <2>1, <3>1
  <2>. QED
      BY <1>2, <2>1, <2>2 DEF m
<1>9. \A i \in 1 .. n + m : i \in 1 .. n \/ i \in n + 1 .. n + m
    BY <1>3
<1>. QED
    BY <1>4, <1>5, <1>6, <1>7, <1>8, <1>9 DEF Traced, b

-----------------------------------------------------------------------------
(* The bytes of a key.                                                     *)

Burst(codes, expect) ==
    [i \in 1 .. Len(codes) |->
       [code |-> codes[i], expect |-> IF i = Len(codes) THEN expect ELSE NoKey]]

(* What a key puts on the wire is bytes. *)
LEMMA BurstType ==
    ASSUME NEW codes \in Seq(Nat), NEW x \in Keys
    PROVE  Burst(codes, x) \in Seq(Byte)
<1>1. NoKey \in Keys
    BY DEF NoKey, Keys
<1>2. ASSUME NEW i \in 1 .. Len(codes)
      PROVE  [code |-> codes[i], expect |-> IF i = Len(codes) THEN x ELSE NoKey] \in Byte
    BY <1>1 DEF Byte
<1>. QED
    BY <1>2 DEF Burst

(* A key that gives one byte. *)
LEMMA BurstOne ==
    ASSUME NEW k \in FlagsType, NEW c \in Nat, NEW x \in Keys,
           Careful => KeyOf(k, c) = x
    PROVE  Traced(k, Burst(<<c>>, x), After(k, c))
<1>. DEFINE b == [code |-> c, expect |-> x]
<1>1. Burst(<<c>>, x) = <<b>>
  <2>1. Len(<<c>>) = 1 /\ <<c>>[1] = c
      OBVIOUS
  <2>2. \A i \in 1 .. 1 : i = 1
      OBVIOUS
  <2>3. Burst(<<c>>, x) = [i \in 1 .. 1 |-> b]
      BY <2>1, <2>2 DEF Burst
  <2>. QED
      BY <2>3
<1>2. b \in Byte /\ b.code = c /\ b.expect = x
    BY DEF Byte
<1>. HIDE DEF b
<1>. QED
    BY <1>1, <1>2, TracedOne

(* A key whose bytes follow a prefix. *)
LEMMA BurstMore ==
    ASSUME NEW k \in FlagsType, NEW x \in Keys, NEW f,
           NEW codes \in Seq(Nat), NEW c \in Nat, NEW rest \in Seq(Nat),
           codes # <<>>, Head(codes) = c, Tail(codes) = rest, rest # <<>>,
           Careful => KeyOf(k, c) = NoKey,
           Traced(After(k, c), Burst(rest, x), f)
    PROVE  Traced(k, Burst(codes, x), f)
<1>. DEFINE b == [code |-> c, expect |-> NoKey]
            all == Burst(codes, x)
            cat == <<b>> \o Burst(rest, x)
            n == Len(rest)
<1>0. /\ n \in Nat /\ n # 0
      /\ Len(codes) = n + 1 /\ codes[1] = c
      /\ \A i \in 2 .. n + 1 : codes[i] = rest[i - 1]
  <2>1. n \in Nat /\ Len(codes) \in Nat
      OBVIOUS
  <2>2. n # 0
      BY EmptySeq
  <2>3. n = Len(codes) - 1 /\ \A i \in 1 .. n : rest[i] = codes[i + 1]
      BY HeadTailProperties
  <2>4. codes[1] = c
      OBVIOUS
  <2>. HIDE DEF n
  <2>5. ASSUME NEW i \in 2 .. n + 1
        PROVE  codes[i] = rest[i - 1]
    <3>1. i - 1 \in 1 .. n /\ (i - 1) + 1 = i
        BY <2>1
    <3>. QED
        BY <2>3, <3>1
  <2>. QED
      BY <2>1, <2>2, <2>3, <2>4, <2>5
<1>1. b \in Byte /\ b.code = c /\ b.expect = NoKey
    BY <1>0 DEF Byte, NoKey, Keys
<1>2. Burst(rest, x) \in Seq(Byte) /\ Len(Burst(rest, x)) = n
  <2>1. Burst(rest, x) \in Seq(Byte)
      BY BurstType
  <2>2. Burst(rest, x) = [i \in 1 .. n |-> Burst(rest, x)[i]]
      BY DEF Burst
  <2>. QED
      BY <1>0, <2>1, <2>2
<1>3. all = cat
  <2>1. /\ all \in Seq(Byte) /\ Len(all) = n + 1 /\ all[1] = b
        /\ \A i \in 2 .. n + 1 :
             all[i] = [code |-> rest[i - 1],
                       expect |-> IF i = n + 1 THEN x ELSE NoKey]
    <3>. HIDE DEF n
    <3>1. all = [i \in 1 .. n + 1 |->
                   [code |-> codes[i], expect |-> IF i = n + 1 THEN x ELSE NoKey]]
        BY <1>0 DEF Burst
    <3>2. all \in Seq(Byte)
        BY BurstType
    <3>. HIDE DEF all
    <3>3. Len(all) = n + 1
        BY <1>0, <3>1, <3>2
    <3>4. all[1] = b
        BY <1>0, <3>1
    <3>5. ASSUME NEW i \in 2 .. n + 1
          PROVE  all[i] = [code |-> rest[i - 1],
                           expect |-> IF i = n + 1 THEN x ELSE NoKey]
        BY <1>0, <3>1
    <3>. QED
        BY <3>2, <3>3, <3>4, <3>5
  <2>2. /\ cat \in Seq(Byte) /\ Len(cat) = n + 1 /\ cat[1] = b
        /\ \A i \in 2 .. n + 1 : cat[i] = Burst(rest, x)[i - 1]
      BY <1>0, <1>1, <1>2
  <2>3. \A i \in 2 .. n + 1 :
           Burst(rest, x)[i - 1] = [code |-> rest[i - 1],
                                    expect |-> IF i = n + 1 THEN x ELSE NoKey]
      BY <1>0 DEF Burst
  <2>. HIDE DEF all, cat, n
  <2>4. ASSUME NEW i \in 1 .. n + 1
        PROVE  all[i] = cat[i]
    <3>1. CASE i = 1
        BY <2>1, <2>2, <3>1
    <3>2. CASE i \in 2 .. n + 1
      <4>1. all[i] = [code |-> rest[i - 1], expect |-> IF i = n + 1 THEN x ELSE NoKey]
          BY <2>1, <3>2, Zenon
      <4>2. cat[i] = Burst(rest, x)[i - 1]
          BY <2>2, <3>2, Zenon
      <4>3. Burst(rest, x)[i - 1]
              = [code |-> rest[i - 1], expect |-> IF i = n + 1 THEN x ELSE NoKey]
          BY <2>3, <3>2, Zenon
      <4>. QED
          BY <4>1, <4>2, <4>3, Zenon
    <3>. QED
        BY <1>0, <3>1, <3>2
  <2>. QED
      BY <2>1, <2>2, <2>4, SeqEqual
<1>4. Traced(k, <<b>>, After(k, c))
    BY <1>1, TracedOne
<1>5. <<b>> \in Seq(Byte)
    BY <1>1
<1>. HIDE DEF b
<1>. QED
    BY <1>2, <1>3, <1>4, <1>5, TracedCat

-----------------------------------------------------------------------------
(* What the keys do.                                                       *)

(* What the decoder has been told, once it has handled what was sent, of   *)
(* the keys that are down.                                                 *)
LEMMA ShiftTold ==
    ASSUME KbdTypeOK, NEW e, Settled(e), Careful
    PROVE  /\ e.shift <=> down \cap ShiftKeys # {}
           /\ e.caps_lock <=> locks.caps
BY DEF KbdTypeOK, Settled, Careful

(* What a key means is a key. *)
LEMMA TypedIsKey == \A k : Typed(k) \in Keys
BY DEF Typed, Keys, NoKey

(* The bytes of a key that goes down, or repeats. *)
LEMMA MakeTraced ==
    ASSUME KbdTypeOK, NEW e \in FlagsType, Settled(e), NEW k \in AllKeys,
           k = "PrtSc" => ~Careful
    PROVE  \E f \in FlagsType :
              /\ Traced(e, Burst(Make[k], Typed(k)), f)
              /\ ~f.extended_mode
              /\ f.shift <=> k \in ShiftKeys \cup {"PrtSc"} \/ e.shift
              /\ f.ctrl <=> k \in CtrlKeys \/ (e.ctrl /\ k # "Pause")
              /\ f.caps_lock <=> (e.caps_lock <=> k # "Caps")
              /\ f.num_lock <=> (e.num_lock <=> k \notin {"Num", "Pause"})
              /\ f.scroll_lock <=> e.scroll_lock
<1>. Typed(k) \in Keys
    BY TypedIsKey
<1>0. ~e.extended_mode
    BY DEF Settled
<1>1. CASE k \in {"LShift", "RShift", "LCtrl", "Caps", "Num", "Scroll", "A", "One", "Pad8"}
  <2>1. PICK c \in Nat :
           /\ Make[k] = <<c>>
           /\ \/ k = "LShift" /\ c = 42
              \/ k = "RShift" /\ c = 54
              \/ k = "LCtrl" /\ c = 29
              \/ k = "Caps" /\ c = 58
              \/ k = "Num" /\ c = 69
              \/ k = "Scroll" /\ c = 70
              \/ k = "A" /\ c = 30
              \/ k = "One" /\ c = 2
              \/ k = "Pad8" /\ c = 72
      BY <1>1 DEF Make
  <2>2. Careful => KeyOf(e, c) = Typed(k)
      BY <1>0, <2>1, KeyOfByte, ShiftTold DEF Typed, TableSize
  <2>3. Traced(e, Burst(Make[k], Typed(k)), After(e, c))
      BY <2>1, <2>2, BurstOne
  <2>. QED
      BY <2>1, <2>3, AfterByte DEF ShiftKeys, CtrlKeys, Follows
<1>2. CASE k \in {"RCtrl", "Up"}
  <2>1. PICK c \in Nat : \/ k = "RCtrl" /\ c = 29 /\ Make[k] = <<224, 29>>
                         \/ k = "Up" /\ c = 72 /\ Make[k] = <<224, 72>>
      BY <1>2 DEF Make
  <2>2. PICK f1 \in FlagsType : f1 = After(e, 224) /\ Follows(e, 224, f1)
      BY AfterByte DEF Follows
  <2>3. PICK f2 \in FlagsType : f2 = After(f1, c) /\ Follows(f1, c, f2)
      BY AfterByte DEF Follows
  <2>4. KeyOf(f1, c) = Typed(k) /\ KeyOf(e, 224) = NoKey
      BY <2>1, <2>2, KeyOfByte DEF Typed, TableSize, Follows
  <2>5. Traced(f1, Burst(<<c>>, Typed(k)), f2)
      BY <2>3, <2>4, BurstOne
  <2>6. Traced(e, Burst(Make[k], Typed(k)), f2)
    <3>. DEFINE s == <<224, c>>
                t == <<c>>
    <3>0. PICK n \in Nat : n = 224
        OBVIOUS
    <3>1. /\ s \in Seq(Nat) /\ s # <<>> /\ Head(s) = n /\ Tail(s) = t
          /\ t \in Seq(Nat) /\ t # <<>>
        BY <3>0
    <3>2. Traced(After(e, n), Burst(t, Typed(k)), f2) /\ (Careful => KeyOf(e, n) = NoKey)
        BY <3>0, <2>2, <2>4, <2>5
    <3>3. Make[k] = s
        BY <2>1
    <3>. HIDE DEF s, t
    <3>. QED
        BY <2>4, <3>1, <3>2, <3>3, BurstMore
  <2>. QED
      BY <2>1, <2>2, <2>3, <2>6 DEF ShiftKeys, CtrlKeys, Follows
<1>3. CASE k = "PrtSc"
  <2>1. Make[k] = <<224, 42, 224, 55>> /\ ~Careful
      BY <1>3 DEF Make
  <2>2. PICK f1 \in FlagsType : f1 = After(e, 224) /\ Follows(e, 224, f1)
      BY AfterByte DEF Follows
  <2>3. PICK f2 \in FlagsType : f2 = After(f1, 42) /\ Follows(f1, 42, f2)
      BY AfterByte DEF Follows
  <2>4. PICK f3 \in FlagsType : f3 = After(f2, 224) /\ Follows(f2, 224, f3)
      BY AfterByte DEF Follows
  <2>5. PICK f4 \in FlagsType : f4 = After(f3, 55) /\ Follows(f3, 55, f4)
      BY AfterByte DEF Follows
  <2>6. Traced(f3, Burst(<<55>>, Typed(k)), f4)
      BY <2>1, <2>5, BurstOne
  <2>7. Traced(f2, Burst(<<224, 55>>, Typed(k)), f4)
    <3>. DEFINE s == <<224, 55>>
                t == <<55>>
    <3>0. PICK n \in Nat : n = 224
        OBVIOUS
    <3>1. /\ s \in Seq(Nat) /\ s # <<>> /\ Head(s) = n /\ Tail(s) = t
          /\ t \in Seq(Nat) /\ t # <<>>
        BY <3>0
    <3>2. Traced(After(f2, n), Burst(t, Typed(k)), f4) /\ (Careful => KeyOf(f2, n) = NoKey)
        BY <3>0, <2>1, <2>3, <2>4, <2>6
    <3>. HIDE DEF s, t
    <3>3. Traced(f2, Burst(s, Typed(k)), f4)
        BY <2>3, <3>1, <3>2, BurstMore
    <3>. QED
        BY <3>3 DEF s
  <2>8. Traced(f1, Burst(<<42, 224, 55>>, Typed(k)), f4)
    <3>. DEFINE s == <<42, 224, 55>>
                t == <<224, 55>>
    <3>0. PICK n \in Nat : n = 42
        OBVIOUS
    <3>1. /\ s \in Seq(Nat) /\ s # <<>> /\ Head(s) = n /\ Tail(s) = t
          /\ t \in Seq(Nat) /\ t # <<>>
        BY <3>0
    <3>2. Traced(After(f1, n), Burst(t, Typed(k)), f4) /\ (Careful => KeyOf(f1, n) = NoKey)
        BY <3>0, <2>1, <2>2, <2>3, <2>7
    <3>. HIDE DEF s, t
    <3>3. Traced(f1, Burst(s, Typed(k)), f4)
        BY <2>2, <3>1, <3>2, BurstMore
    <3>. QED
        BY <3>3 DEF s
  <2>9. Traced(e, Burst(<<224, 42, 224, 55>>, Typed(k)), f4)
    <3>. DEFINE s == <<224, 42, 224, 55>>
                t == <<42, 224, 55>>
    <3>0. PICK n \in Nat : n = 224
        OBVIOUS
    <3>1. /\ s \in Seq(Nat) /\ s # <<>> /\ Head(s) = n /\ Tail(s) = t
          /\ t \in Seq(Nat) /\ t # <<>>
        BY <3>0
    <3>2. Traced(After(e, n), Burst(t, Typed(k)), f4) /\ (Careful => KeyOf(e, n) = NoKey)
        BY <3>0, <2>1, <2>2, <2>8
    <3>. HIDE DEF s, t
    <3>3. Traced(e, Burst(s, Typed(k)), f4)
        BY <3>1, <3>2, BurstMore
    <3>. QED
        BY <3>3 DEF s
  <2>. QED
      BY <1>3, <2>1, <2>2, <2>3, <2>4, <2>5, <2>9 DEF ShiftKeys, CtrlKeys, Follows
<1>4. CASE k = "Pause"
  <2>1. Make[k] = <<225, 29, 69, 225, 157, 197>> /\ Typed(k) = NoKey
      BY <1>4 DEF Make, Typed
  <2>2. PICK f1 \in FlagsType : f1 = After(e, 225) /\ Follows(e, 225, f1)
      BY AfterByte DEF Follows
  <2>3. PICK f2 \in FlagsType : f2 = After(f1, 29) /\ Follows(f1, 29, f2)
      BY AfterByte DEF Follows
  <2>4. PICK f3 \in FlagsType : f3 = After(f2, 69) /\ Follows(f2, 69, f3)
      BY AfterByte DEF Follows
  <2>5. PICK f4 \in FlagsType : f4 = After(f3, 225) /\ Follows(f3, 225, f4)
      BY AfterByte DEF Follows
  <2>6. PICK f5 \in FlagsType : f5 = After(f4, 157) /\ Follows(f4, 157, f5)
      BY AfterByte DEF Follows
  <2>7. PICK f6 \in FlagsType : f6 = After(f5, 197) /\ Follows(f5, 197, f6)
      BY AfterByte DEF Follows
  <2>8. /\ KeyOf(e, 225) = NoKey /\ KeyOf(f1, 29) = NoKey /\ KeyOf(f2, 69) = NoKey
        /\ KeyOf(f3, 225) = NoKey /\ KeyOf(f4, 157) = NoKey /\ KeyOf(f5, 197) = NoKey
      BY KeyOfByte DEF TableSize
  <2>9. Traced(f5, Burst(<<197>>, Typed(k)), f6)
      BY <2>1, <2>8, <2>7, BurstOne
  <2>10. Traced(f4, Burst(<<157, 197>>, Typed(k)), f6)
    <3>. DEFINE s == <<157, 197>>
                t == <<197>>
    <3>0. PICK n \in Nat : n = 157
        OBVIOUS
    <3>1. /\ s \in Seq(Nat) /\ s # <<>> /\ Head(s) = n /\ Tail(s) = t
          /\ t \in Seq(Nat) /\ t # <<>>
        BY <3>0
    <3>2. Traced(After(f4, n), Burst(t, Typed(k)), f6) /\ (Careful => KeyOf(f4, n) = NoKey)
        BY <3>0, <2>1, <2>5, <2>6, <2>8, <2>9
    <3>. HIDE DEF s, t
    <3>3. Traced(f4, Burst(s, Typed(k)), f6)
        BY <2>5, <3>1, <3>2, BurstMore
    <3>. QED
        BY <3>3 DEF s
  <2>11. Traced(f3, Burst(<<225, 157, 197>>, Typed(k)), f6)
    <3>. DEFINE s == <<225, 157, 197>>
                t == <<157, 197>>
    <3>0. PICK n \in Nat : n = 225
        OBVIOUS
    <3>1. /\ s \in Seq(Nat) /\ s # <<>> /\ Head(s) = n /\ Tail(s) = t
          /\ t \in Seq(Nat) /\ t # <<>>
        BY <3>0
    <3>2. Traced(After(f3, n), Burst(t, Typed(k)), f6) /\ (Careful => KeyOf(f3, n) = NoKey)
        BY <3>0, <2>1, <2>10, <2>4, <2>5, <2>8
    <3>. HIDE DEF s, t
    <3>3. Traced(f3, Burst(s, Typed(k)), f6)
        BY <2>4, <3>1, <3>2, BurstMore
    <3>. QED
        BY <3>3 DEF s
  <2>12. Traced(f2, Burst(<<69, 225, 157, 197>>, Typed(k)), f6)
    <3>. DEFINE s == <<69, 225, 157, 197>>
                t == <<225, 157, 197>>
    <3>0. PICK n \in Nat : n = 69
        OBVIOUS
    <3>1. /\ s \in Seq(Nat) /\ s # <<>> /\ Head(s) = n /\ Tail(s) = t
          /\ t \in Seq(Nat) /\ t # <<>>
        BY <3>0
    <3>2. Traced(After(f2, n), Burst(t, Typed(k)), f6) /\ (Careful => KeyOf(f2, n) = NoKey)
        BY <3>0, <2>1, <2>11, <2>3, <2>4, <2>8
    <3>. HIDE DEF s, t
    <3>3. Traced(f2, Burst(s, Typed(k)), f6)
        BY <2>3, <3>1, <3>2, BurstMore
    <3>. QED
        BY <3>3 DEF s
  <2>13. Traced(f1, Burst(<<29, 69, 225, 157, 197>>, Typed(k)), f6)
    <3>. DEFINE s == <<29, 69, 225, 157, 197>>
                t == <<69, 225, 157, 197>>
    <3>0. PICK n \in Nat : n = 29
        OBVIOUS
    <3>1. /\ s \in Seq(Nat) /\ s # <<>> /\ Head(s) = n /\ Tail(s) = t
          /\ t \in Seq(Nat) /\ t # <<>>
        BY <3>0
    <3>2. Traced(After(f1, n), Burst(t, Typed(k)), f6) /\ (Careful => KeyOf(f1, n) = NoKey)
        BY <3>0, <2>1, <2>12, <2>2, <2>3, <2>8
    <3>. HIDE DEF s, t
    <3>3. Traced(f1, Burst(s, Typed(k)), f6)
        BY <2>2, <3>1, <3>2, BurstMore
    <3>. QED
        BY <3>3 DEF s
  <2>14. Traced(e, Burst(<<225, 29, 69, 225, 157, 197>>, Typed(k)), f6)
    <3>. DEFINE s == <<225, 29, 69, 225, 157, 197>>
                t == <<29, 69, 225, 157, 197>>
    <3>0. PICK n \in Nat : n = 225
        OBVIOUS
    <3>1. /\ s \in Seq(Nat) /\ s # <<>> /\ Head(s) = n /\ Tail(s) = t
          /\ t \in Seq(Nat) /\ t # <<>>
        BY <3>0
    <3>2. Traced(After(e, n), Burst(t, Typed(k)), f6) /\ (Careful => KeyOf(e, n) = NoKey)
        BY <3>0, <2>1, <2>13, <2>2, <2>8
    <3>. HIDE DEF s, t
    <3>3. Traced(e, Burst(s, Typed(k)), f6)
        BY <3>1, <3>2, BurstMore
    <3>. QED
        BY <3>3 DEF s
  <2>. QED
      BY <1>4, <2>1, <2>2, <2>3, <2>4, <2>5, <2>6, <2>7, <2>14 DEF ShiftKeys, CtrlKeys, Follows
<1>. QED
    BY <1>1, <1>2, <1>3, <1>4 DEF AllKeys, ShiftKeys, CtrlKeys

(* The bytes of a key that goes up. *)
LEMMA BreakTraced ==
    ASSUME NEW e \in FlagsType, ~e.extended_mode, NEW k \in AllKeys
    PROVE  \E f \in FlagsType :
              /\ Traced(e, Burst(Break[k], NoKey), f)
              /\ ~f.extended_mode
              /\ f.shift <=> e.shift /\ k \notin ShiftKeys \cup {"PrtSc"}
              /\ f.ctrl <=> e.ctrl /\ k \notin CtrlKeys
              /\ f.caps_lock <=> e.caps_lock
              /\ f.num_lock <=> e.num_lock
              /\ f.scroll_lock <=> (e.scroll_lock <=> k # "Scroll")
<1>0. NoKey \in Keys
    BY DEF NoKey, Keys
<1>1. CASE k \in {"LShift", "RShift", "LCtrl", "Caps", "Num", "Scroll", "A", "One", "Pad8"}
  <2>1. PICK c \in Nat :
           /\ Break[k] = <<c>>
           /\ \/ k = "LShift" /\ c = 170
              \/ k = "RShift" /\ c = 182
              \/ k = "LCtrl" /\ c = 157
              \/ k = "Caps" /\ c = 186
              \/ k = "Num" /\ c = 197
              \/ k = "Scroll" /\ c = 198
              \/ k = "A" /\ c = 158
              \/ k = "One" /\ c = 130
              \/ k = "Pad8" /\ c = 200
      BY <1>1 DEF Break
  <2>2. KeyOf(e, c) = NoKey
      BY <2>1, KeyOfByte DEF TableSize
  <2>3. Traced(e, Burst(Break[k], NoKey), After(e, c))
      BY <1>0, <2>1, <2>2, BurstOne
  <2>. QED
      BY <2>1, <2>3, AfterByte DEF ShiftKeys, CtrlKeys, Follows
<1>2. CASE k \in {"RCtrl", "Up"}
  <2>1. PICK c \in Nat : \/ k = "RCtrl" /\ c = 157 /\ Break[k] = <<224, 157>>
                         \/ k = "Up" /\ c = 200 /\ Break[k] = <<224, 200>>
    <3>1. Break["RCtrl"] = <<224, 157>> /\ Break["Up"] = <<224, 200>>
        BY DEF Break
    <3>2. 157 \in Nat /\ 200 \in Nat
        OBVIOUS
    <3>3. CASE k = "RCtrl"
        BY <3>1, <3>3
    <3>4. CASE k = "Up"
        BY <3>1, <3>4
    <3>. QED
        BY <1>2, <3>3, <3>4
  <2>2. PICK f1 \in FlagsType : f1 = After(e, 224) /\ Follows(e, 224, f1)
      BY AfterByte DEF Follows
  <2>3. PICK f2 \in FlagsType : f2 = After(f1, c) /\ Follows(f1, c, f2)
      BY AfterByte DEF Follows
  <2>4. KeyOf(f1, c) = NoKey /\ KeyOf(e, 224) = NoKey
      BY <2>1, KeyOfByte DEF TableSize
  <2>5. Traced(f1, Burst(<<c>>, NoKey), f2)
      BY <1>0, <2>3, <2>4, BurstOne
  <2>6. Traced(e, Burst(Break[k], NoKey), f2)
    <3>. DEFINE s == <<224, c>>
                t == <<c>>
    <3>0. PICK n \in Nat : n = 224
        OBVIOUS
    <3>1. /\ s \in Seq(Nat) /\ s # <<>> /\ Head(s) = n /\ Tail(s) = t
          /\ t \in Seq(Nat) /\ t # <<>>
        BY <3>0
    <3>2. Traced(After(e, n), Burst(t, NoKey), f2) /\ (Careful => KeyOf(e, n) = NoKey)
        BY <3>0, <2>2, <2>4, <2>5
    <3>3. Break[k] = s
        BY <2>1
    <3>. HIDE DEF s, t
    <3>. QED
        BY <1>0, <3>1, <3>2, <3>3, BurstMore
  <2>. QED
      BY <2>1, <2>2, <2>3, <2>6 DEF ShiftKeys, CtrlKeys, Follows
<1>3. CASE k = "PrtSc"
  <2>1. Break[k] = <<224, 183, 224, 170>>
      BY <1>3 DEF Break
  <2>2. PICK f1 \in FlagsType : f1 = After(e, 224) /\ Follows(e, 224, f1)
      BY AfterByte DEF Follows
  <2>3. PICK f2 \in FlagsType : f2 = After(f1, 183) /\ Follows(f1, 183, f2)
      BY AfterByte DEF Follows
  <2>4. PICK f3 \in FlagsType : f3 = After(f2, 224) /\ Follows(f2, 224, f3)
      BY AfterByte DEF Follows
  <2>5. PICK f4 \in FlagsType : f4 = After(f3, 170) /\ Follows(f3, 170, f4)
      BY AfterByte DEF Follows
  <2>6. /\ KeyOf(e, 224) = NoKey /\ KeyOf(f1, 183) = NoKey
        /\ KeyOf(f2, 224) = NoKey /\ KeyOf(f3, 170) = NoKey
      BY KeyOfByte DEF TableSize
  <2>7. Traced(f3, Burst(<<170>>, NoKey), f4)
      BY <1>0, <2>5, <2>6, BurstOne
  <2>8. Traced(f2, Burst(<<224, 170>>, NoKey), f4)
    <3>. DEFINE s == <<224, 170>>
                t == <<170>>
    <3>0. PICK n \in Nat : n = 224
        OBVIOUS
    <3>1. /\ s \in Seq(Nat) /\ s # <<>> /\ Head(s) = n /\ Tail(s) = t
          /\ t \in Seq(Nat) /\ t # <<>>
        BY <3>0
    <3>2. Traced(After(f2, n), Burst(t, NoKey), f4) /\ (Careful => KeyOf(f2, n) = NoKey)
        BY <3>0, <2>4, <2>6, <2>7
    <3>. HIDE DEF s, t
    <3>3. Traced(f2, Burst(s, NoKey), f4)
        BY <2>3, <1>0, <3>1, <3>2, BurstMore
    <3>. QED
        BY <3>3 DEF s
  <2>9. Traced(f1, Burst(<<183, 224, 170>>, NoKey), f4)
    <3>. DEFINE s == <<183, 224, 170>>
                t == <<224, 170>>
    <3>0. PICK n \in Nat : n = 183
        OBVIOUS
    <3>1. /\ s \in Seq(Nat) /\ s # <<>> /\ Head(s) = n /\ Tail(s) = t
          /\ t \in Seq(Nat) /\ t # <<>>
        BY <3>0
    <3>2. Traced(After(f1, n), Burst(t, NoKey), f4) /\ (Careful => KeyOf(f1, n) = NoKey)
        BY <3>0, <2>3, <2>6, <2>8
    <3>. HIDE DEF s, t
    <3>3. Traced(f1, Burst(s, NoKey), f4)
        BY <2>2, <1>0, <3>1, <3>2, BurstMore
    <3>. QED
        BY <3>3 DEF s
  <2>10. Traced(e, Burst(<<224, 183, 224, 170>>, NoKey), f4)
    <3>. DEFINE s == <<224, 183, 224, 170>>
                t == <<183, 224, 170>>
    <3>0. PICK n \in Nat : n = 224
        OBVIOUS
    <3>1. /\ s \in Seq(Nat) /\ s # <<>> /\ Head(s) = n /\ Tail(s) = t
          /\ t \in Seq(Nat) /\ t # <<>>
        BY <3>0
    <3>2. Traced(After(e, n), Burst(t, NoKey), f4) /\ (Careful => KeyOf(e, n) = NoKey)
        BY <3>0, <2>2, <2>6, <2>9
    <3>. HIDE DEF s, t
    <3>3. Traced(e, Burst(s, NoKey), f4)
        BY <1>0, <3>1, <3>2, BurstMore
    <3>. QED
        BY <3>3 DEF s
  <2>. QED
      BY <1>3, <2>1, <2>2, <2>3, <2>4, <2>5, <2>10 DEF ShiftKeys, CtrlKeys, Follows
<1>4. CASE k = "Pause"
  <2>1. Break[k] = <<>>
      BY <1>4 DEF Break
  <2>2. Burst(<<>>, NoKey) = <<>>
    <3>1. Len(<<>>) = 0 /\ 1 .. 0 = {}
        OBVIOUS
    <3>2. <<>> \in Seq(Nat)
        OBVIOUS
    <3>3. Burst(<<>>, NoKey) \in Seq(Byte) /\ Burst(<<>>, NoKey) = [i \in {} |-> 0]
        BY <1>0, <3>1, <3>2, BurstType DEF Burst
    <3>. QED
        BY <3>1, <3>3, EmptySeq
  <2>3. Traced(e, Burst(Break[k], NoKey), e)
      BY <2>1, <2>2, TracedNone
  <2>. QED
      BY <1>4, <2>3 DEF ShiftKeys, CtrlKeys
<1>. QED
    BY <1>1, <1>2, <1>3, <1>4 DEF AllKeys, ShiftKeys, CtrlKeys

-----------------------------------------------------------------------------
(* The invariant.                                                          *)

(* A keyboard at rest has an empty trace. *)
LEMMA InitKbdInv == Init => KbdInv
<1>. SUFFICES ASSUME Init PROVE KbdInv
    OBVIOUS
<1>1. kbd \in FlagsType
    BY DEF Init, Cleared, FlagsType
<1>2. KbdTypeOK
    BY <1>1 DEF Init, KbdTypeOK
<1>3. Traced(kbd, wire, kbd)
    BY <1>1, TracedNone DEF Init
<1>4. Settled(kbd)
    BY DEF Init, Cleared, Settled
<1>. QED
    BY <1>1, <1>2, <1>3, <1>4 DEF KbdInv, Init, ShiftKeys

(* The interrupt of a byte does what was foreseen. *)
LEMMA HandleFacts ==
    ASSUME KbdInv, HandleByte
    PROVE  /\ Careful => pushed' = Head(wire).expect
           /\ KbdInv'
<1>. KbdTypeOK
    BY DEF KbdInv
<1>1. PICK e \in FlagsType : Traced(kbd, wire, e) /\ Settled(e)
    BY DEF KbdInv
<1>2. PICK h \in Seq(FlagsType) :
         /\ Len(h) = Len(wire) + 1 /\ h[1] = kbd /\ h[Len(wire) + 1] = e
         /\ \A i \in 1 .. Len(wire) :
               /\ h[i + 1] = After(h[i], wire[i].code)
               /\ Careful => KeyOf(h[i], wire[i].code) = wire[i].expect
    BY <1>1 DEF Traced
<1>3. /\ wire \in Seq(Byte) /\ wire # <<>> /\ wire' = Tail(wire)
      /\ UNCHANGED <<down, locks, typist>>
      /\ kbd' = After(kbd, Head(wire).code) /\ pushed' = KeyOf(kbd, Head(wire).code)
    BY DEF HandleByte, ps2_keyboard_int, KbdTypeOK, After
<1>. DEFINE n == Len(wire)
<1>4. n \in Nat /\ n >= 1 /\ Head(wire) = wire[1]
    BY <1>3, EmptySeq
<1>5. /\ Tail(wire) \in Seq(Byte) /\ Len(Tail(wire)) = n - 1
      /\ \A i \in 1 .. n - 1 : Tail(wire)[i] = wire[i + 1]
    BY <1>3, HeadTailProperties
<1>6. /\ Tail(h) \in Seq(FlagsType) /\ Len(Tail(h)) = n
      /\ \A i \in 1 .. n : Tail(h)[i] = h[i + 1]
  <2>1. h # <<>>
      BY <1>2, <1>4, EmptySeq
  <2>. QED
      BY <1>2, <1>4, <2>1, HeadTailProperties
<1>. HIDE DEF n
<1>7. h[1 + 1] = kbd' /\ (Careful => pushed' = Head(wire).expect)
    BY <1>2, <1>3, <1>4 DEF n
<1>8. kbd' \in FlagsType
    BY <1>4, <1>6, <1>7
<1>9. KbdTypeOK'
    BY <1>3, <1>5, <1>8 DEF KbdTypeOK
<1>10. Traced(kbd, wire, e)'
  <2>1. /\ Len(Tail(h)) = Len(wire') + 1 /\ Tail(h)[1] = kbd'
        /\ Tail(h)[Len(wire') + 1] = e
      BY <1>2, <1>3, <1>4, <1>5, <1>6, <1>7 DEF n
  <2>2. ASSUME NEW i \in 1 .. n - 1
        PROVE  /\ Tail(h)[i + 1] = After(Tail(h)[i], wire'[i].code)
               /\ Careful => KeyOf(Tail(h)[i], wire'[i].code) = wire'[i].expect
    <3>1. i \in 1 .. n /\ i + 1 \in 1 .. n
        BY <1>4
    <3>2. /\ h[(i + 1) + 1] = After(h[i + 1], wire[i + 1].code)
          /\ Careful => KeyOf(h[i + 1], wire[i + 1].code) = wire[i + 1].expect
        BY <1>2, <3>1 DEF n
    <3>. QED
        BY <1>3, <1>5, <1>6, <3>1, <3>2
  <2>3. Careful' = Careful
      BY <1>3 DEF Careful
  <2>4. Len(wire') = n - 1
      BY <1>3, <1>5
  <2>. QED
      BY <1>6, <2>1, <2>2, <2>3, <2>4 DEF Traced
<1>11. Settled(e)'
    BY <1>1, <1>3 DEF Settled, Careful
<1>. QED
    BY <1>3, <1>7, <1>9, <1>10, <1>11 DEF KbdInv

(* Bytes that are sent come after those that wait. *)
LEMMA SendTraced ==
    ASSUME KbdTypeOK, UNCHANGED <<kbd, typist>>, NEW codes \in Seq(Nat), NEW x \in Keys,
           Send(codes, x), NEW e, NEW f,
           Traced(kbd, wire, e), Traced(e, Burst(codes, x), f)
    PROVE  wire' \in Seq(Byte) /\ Traced(kbd, wire, f)'
<1>1. wire' = wire \o Burst(codes, x) /\ Burst(codes, x) \in Seq(Byte)
    BY BurstType DEF Send, Burst
<1>2. wire \in Seq(Byte)
    BY DEF KbdTypeOK
<1>3. Traced(kbd, wire \o Burst(codes, x), f)
    BY <1>1, <1>2, TracedCat
<1>4. Careful' = Careful
    BY DEF Careful
<1>. QED
  <2>1. PICK h \in Seq(FlagsType) :
           /\ Len(h) = Len(wire') + 1 /\ h[1] = kbd' /\ h[Len(wire') + 1] = f
           /\ \A i \in 1 .. Len(wire') :
                 /\ h[i + 1] = After(h[i], wire'[i].code)
                 /\ Careful => KeyOf(h[i], wire'[i].code) = wire'[i].expect
      BY <1>1, <1>3 DEF Traced
  <2>2. Traced(kbd, wire, f)'
      BY <1>4, <2>1, Zenon DEF Traced
  <2>3. wire' \in Seq(Byte)
      BY <1>1, <1>2, ConcatProperties
  <2>. QED
      BY <2>2, <2>3

(* Codes are sequences of numbers. *)
LEMMA CodesType ==
    \A k \in AllKeys : Make[k] \in Seq(Nat) /\ Break[k] \in Seq(Nat)
<1>. TAKE k \in AllKeys
<1>. USE DEF Make, Break
<1>1. CASE k = "LShift"
    BY <1>1
<1>2. CASE k = "RShift"
    BY <1>2
<1>3. CASE k = "LCtrl"
    BY <1>3
<1>4. CASE k = "RCtrl"
    BY <1>4
<1>5. CASE k = "Caps"
    BY <1>5
<1>6. CASE k = "Num"
    BY <1>6
<1>7. CASE k = "Scroll"
    BY <1>7
<1>8. CASE k = "A"
    BY <1>8
<1>9. CASE k = "One"
    BY <1>9
<1>10. CASE k = "Up"
    BY <1>10
<1>11. CASE k = "Pad8"
    BY <1>11
<1>12. CASE k = "PrtSc"
    BY <1>12
<1>13. CASE k = "Pause"
    BY <1>13
<1>. QED
    BY <1>1, <1>2, <1>3, <1>4, <1>5, <1>6, <1>7, <1>8, <1>9, <1>10, <1>11, <1>12, <1>13
    DEF AllKeys, ShiftKeys, CtrlKeys

(* A key goes down, or repeats. *)
LEMMA MakeKeepsInv ==
    ASSUME KbdInv, NEW k, (Press(k) /\ k \in typist.keys) \/ Repeat(k)
    PROVE  KbdInv'
<1>. KbdTypeOK
    BY DEF KbdInv
<1>1. k \in typist.keys /\ k \in AllKeys
    BY KeyAssumption DEF KbdTypeOK, Repeat
<1>2. /\ Send(Make[k], Typed(k)) /\ locks' = Toggled(k)
      /\ down' = down \cup {k} /\ UNCHANGED <<kbd, pushed, typist>>
    BY DEF Press, Repeat
<1>3. PICK e \in FlagsType : Traced(kbd, wire, e) /\ Settled(e)
    BY DEF KbdInv
<1>4. k = "PrtSc" => ~Careful
    BY <1>1 DEF Careful
<1>5. PICK f \in FlagsType :
         /\ Traced(e, Burst(Make[k], Typed(k)), f)
         /\ ~f.extended_mode
         /\ f.shift <=> k \in ShiftKeys \cup {"PrtSc"} \/ e.shift
         /\ f.ctrl <=> k \in CtrlKeys \/ (e.ctrl /\ k # "Pause")
         /\ f.caps_lock <=> (e.caps_lock <=> k # "Caps")
         /\ f.num_lock <=> (e.num_lock <=> k \notin {"Num", "Pause"})
         /\ f.scroll_lock <=> e.scroll_lock
    BY <1>1, <1>3, <1>4, MakeTraced
<1>6. wire' \in Seq(Byte) /\ Traced(kbd, wire, f)'
    BY <1>1, <1>2, <1>3, <1>5, SendTraced, CodesType, TypedIsKey
<1>7. /\ locks' \in [caps : BOOLEAN, num : BOOLEAN, scroll : BOOLEAN]
      /\ locks'.caps <=> (locks.caps <=> k # "Caps")
      /\ locks'.num <=> (locks.num <=> k \notin {"Num", "Pause"})
      /\ locks'.scroll <=> locks.scroll
  <2>0. locks \in [caps : BOOLEAN, num : BOOLEAN, scroll : BOOLEAN]
      BY DEF KbdTypeOK
  <2>1. CASE k = "Caps"
    <3>1. locks' = [locks EXCEPT !.caps = ~@]
        BY <1>2, <2>1 DEF Toggled
    <3>2. locks' \in [caps : BOOLEAN, num : BOOLEAN, scroll : BOOLEAN]
            /\ (locks'.caps <=> ~locks.caps)
            /\ locks'.num = locks.num /\ locks'.scroll = locks.scroll
        BY <2>0, <3>1, Zenon
    <3>. QED
        BY <2>1, <3>2
  <2>2. CASE k \in {"Num", "Pause"}
    <3>1. locks' = [locks EXCEPT !.num = ~@]
        BY <1>2, <2>2 DEF Toggled
    <3>2. locks' \in [caps : BOOLEAN, num : BOOLEAN, scroll : BOOLEAN]
            /\ (locks'.num <=> ~locks.num)
            /\ locks'.caps = locks.caps /\ locks'.scroll = locks.scroll
        BY <2>0, <3>1, Zenon
    <3>. QED
        BY <2>2, <3>2
  <2>3. CASE k \notin {"Caps", "Num", "Pause"}
    <3>1. locks' = locks
        BY <1>2, <2>3 DEF Toggled
    <3>. QED
        BY <2>0, <2>3, <3>1
  <2>. QED
      BY <2>1, <2>2, <2>3
<1>8. KbdTypeOK'
    BY <1>1, <1>2, <1>6, <1>7 DEF KbdTypeOK
<1>9. typist'.oneShift => ~ (ShiftKeys \subseteq down')
    BY <1>2 DEF KbdInv, Press, Repeat, ShiftKeys
<1>10. Settled(f)'
  <2>1. /\ f.shift => down' \cap (ShiftKeys \cup {"PrtSc"}) # {}
        /\ f.ctrl => down' \cap CtrlKeys # {}
        /\ ~f.extended_mode
      BY <1>2, <1>3, <1>5 DEF Settled
  <2>2. /\ f.caps_lock <=> locks'.caps
        /\ f.num_lock <=> locks'.num
        /\ f.scroll_lock <=> locks'.scroll
      BY <1>3, <1>5, <1>7 DEF Settled
  <2>3. Careful /\ down' \cap ShiftKeys # {} => f.shift
      BY <1>2, <1>3, <1>5 DEF Settled
  <2>. QED
      BY <1>2, <2>1, <2>2, <2>3 DEF Settled, Careful
<1>. QED
    BY <1>5, <1>6, <1>8, <1>9, <1>10 DEF KbdInv

(* A key goes up. *)
LEMMA BreakKeepsInv ==
    ASSUME KbdInv, NEW k, Release(k)
    PROVE  KbdInv'
<1>. KbdTypeOK
    BY DEF KbdInv
<1>1. k \in typist.keys /\ k \in AllKeys
    BY KeyAssumption DEF KbdTypeOK, Release
<1>2. /\ Send(Break[k], NoKey)
      /\ locks' = IF k = "Scroll" THEN [locks EXCEPT !.scroll = ~@] ELSE locks
      /\ k \in down /\ down' = down \ {k} /\ UNCHANGED <<kbd, pushed, typist>>
    BY DEF Release
<1>3. PICK e \in FlagsType : Traced(kbd, wire, e) /\ Settled(e)
    BY DEF KbdInv
<1>4. NoKey \in Keys
    BY DEF NoKey, Keys
<1>5. PICK f \in FlagsType :
         /\ Traced(e, Burst(Break[k], NoKey), f)
         /\ ~f.extended_mode
         /\ f.shift <=> e.shift /\ k \notin ShiftKeys \cup {"PrtSc"}
         /\ f.ctrl <=> e.ctrl /\ k \notin CtrlKeys
         /\ f.caps_lock <=> e.caps_lock
         /\ f.num_lock <=> e.num_lock
         /\ f.scroll_lock <=> (e.scroll_lock <=> k # "Scroll")
    BY <1>1, <1>3, BreakTraced DEF Settled
<1>6. wire' \in Seq(Byte) /\ Traced(kbd, wire, f)'
    BY <1>1, <1>2, <1>3, <1>4, <1>5, SendTraced, CodesType
<1>7. /\ locks' \in [caps : BOOLEAN, num : BOOLEAN, scroll : BOOLEAN]
      /\ locks'.caps <=> locks.caps
      /\ locks'.num <=> locks.num
      /\ locks'.scroll <=> (locks.scroll <=> k # "Scroll")
  <2>0. locks \in [caps : BOOLEAN, num : BOOLEAN, scroll : BOOLEAN]
      BY DEF KbdTypeOK
  <2>1. CASE k = "Scroll"
    <3>1. locks' = [locks EXCEPT !.scroll = ~@]
        BY <1>2, <2>1
    <3>2. locks' \in [caps : BOOLEAN, num : BOOLEAN, scroll : BOOLEAN]
            /\ (locks'.scroll <=> ~locks.scroll)
            /\ locks'.caps = locks.caps /\ locks'.num = locks.num
        BY <2>0, <3>1, Zenon
    <3>. QED
        BY <2>1, <3>2
  <2>2. CASE k # "Scroll"
      BY <1>2, <2>0, <2>2
  <2>. QED
      BY <2>1, <2>2
<1>8. KbdTypeOK'
    BY <1>1, <1>2, <1>6, <1>7 DEF KbdTypeOK
<1>9. typist'.oneShift => ~ (ShiftKeys \subseteq down')
    BY <1>2 DEF KbdInv
<1>10. Settled(f)'
  <2>1. ~f.extended_mode
      BY <1>5
  <2>2. f.ctrl => down' \cap CtrlKeys # {}
      BY <1>2, <1>3, <1>5 DEF Settled
  <2>3. f.shift => down' \cap (ShiftKeys \cup {"PrtSc"}) # {}
      BY <1>2, <1>3, <1>5 DEF Settled
  <2>4. /\ f.caps_lock <=> locks'.caps
        /\ f.num_lock <=> locks'.num
        /\ f.scroll_lock <=> locks'.scroll
      BY <1>3, <1>5, <1>7 DEF Settled
  <2>5. Careful /\ down' \cap ShiftKeys # {} => f.shift
    <3>1. SUFFICES ASSUME Careful, NEW j \in ShiftKeys, j \in down' PROVE f.shift
        OBVIOUS
    <3>2. j \in down /\ j # k /\ e.shift
        BY <1>2, <1>3, <3>1 DEF Settled
    <3>3. k \notin ShiftKeys
        BY <1>2, <3>1, <3>2 DEF KbdInv, Careful, ShiftKeys
    <3>4. k # "PrtSc"
        BY <1>1, <3>1 DEF Careful
    <3>. QED
        BY <1>5, <3>2, <3>3, <3>4
  <2>. QED
      BY <1>2, <2>1, <2>2, <2>3, <2>4, <2>5 DEF Settled, Careful
<1>. QED
    BY <1>5, <1>6, <1>8, <1>9, <1>10 DEF KbdInv

(* Every step keeps the invariant. *)
LEMMA NextKeepsKbdInv == KbdInv /\ [Next]_vars => KbdInv'
<1>. SUFFICES ASSUME KbdInv, [Next]_vars PROVE KbdInv'
    OBVIOUS
<1>1. CASE HandleByte
    BY <1>1, HandleFacts
<1>2. CASE \E k \in typist.keys : Press(k) \/ Release(k)
    BY <1>2, MakeKeepsInv, BreakKeepsInv
<1>3. CASE \E k \in typist.repeat : Repeat(k)
    BY <1>3, MakeKeepsInv
<1>4. CASE UNCHANGED vars
    BY <1>4 DEF vars, KbdInv, KbdTypeOK, Traced, Settled, Careful
<1>. QED
    BY <1>1, <1>2, <1>3, <1>4 DEF Next

(* The invariant holds at every moment of every execution. *)
THEOREM KbdInvariant == Spec => []KbdInv
BY InitKbdInv, NextKeepsKbdInv, PTL DEF Spec

-----------------------------------------------------------------------------
(* The properties.                                                         *)

(* With no byte on the wire, what the decoder believes is what it will. *)
LEMMA NothingWaits ==
    ASSUME KbdInv, wire = <<>>
    PROVE  Settled(kbd)
BY DEF KbdInv, Traced

(* No modifier sticks. *)
THEOREM ModifiersStay == Spec => []ModifiersHaveCause
<1>1. KbdInv => ModifiersHaveCause
    BY NothingWaits DEF Settled, ModifiersHaveCause
<1>. QED
    BY <1>1, KbdInvariant, PTL

(* The locks agree with the keys. *)
THEOREM LocksAgree == Spec => []LocksFollowKeys
<1>1. KbdInv => LocksFollowKeys
  <2>. SUFFICES ASSUME KbdInv, wire = <<>>
                PROVE  /\ kbd.caps_lock = locks.caps
                       /\ kbd.num_lock = locks.num
                       /\ kbd.scroll_lock = locks.scroll
      BY DEF LocksFollowKeys
  <2>1. Settled(kbd)
      BY NothingWaits
  <2>2. kbd \in FlagsType /\ locks \in [caps : BOOLEAN, num : BOOLEAN, scroll : BOOLEAN]
      BY DEF KbdInv, KbdTypeOK
  <2>3. /\ kbd.caps_lock \in BOOLEAN /\ kbd.num_lock \in BOOLEAN
        /\ kbd.scroll_lock \in BOOLEAN
        /\ locks.caps \in BOOLEAN /\ locks.num \in BOOLEAN /\ locks.scroll \in BOOLEAN
      BY <2>2, Zenon DEF FlagsType
  <2>. QED
      BY <2>1, <2>3, Zenon DEF Settled
<1>. QED
    BY <1>1, KbdInvariant, PTL

(* Every byte gives the character that was expected of it. *)
THEOREM DecodesTyping == Spec => DecodesWhatWasTyped
<1>1. KbdInv /\ [Next]_vars =>
        [HandleByte /\ typist.oneShift /\ "PrtSc" \notin typist.keys =>
           pushed' = Head(wire).expect]_vars
    BY HandleFacts DEF Careful
<1>. QED
    BY <1>1, KbdInvariant, PTL DEF Spec, DecodesWhatWasTyped
=============================================================================
