------------------------------- MODULE Printf -------------------------------
(***************************************************************************)
(* printf and the number printers of kernel/print_utils.c.                 *)
(*                                                                         *)
(* The caller pushes its arguments on the stack, a u64 or a double in two  *)
(* words and everything else in one; printf walks through the format and   *)
(* takes from the stack what each directive says.  Words count modulo Word *)
(* (2^32).  The two words of a double are modelled as a sign and a number  *)
(* of units of 1/Unit, Unit a power of two, so that whole numbers may be   *)
(* larger than an integer type; it is the double nearest to that.  Floats  *)
(* and doubles are rounded to their significant bits wherever the code     *)
(* computes with them; infinities, and numbers too small for a float, are  *)
(* left out.  Where on the page the text goes is the subject of module     *)
(* Console.                                                                *)
(***************************************************************************)
EXTENDS Integers, Sequences

CONSTANTS HexBase,    \* values of a hexadecimal digit, 16 in the code
          WordDigits, \* hexadecimal digits of a word, 8 in the code
          HalfDigits, \* of an u16, 4 in the code
          ByteBits,   \* bits of an u8, 8 in the code
          Precision,  \* decimals, 9 in the code
          DecCount,   \* decimals of print_f32_fixed, 2 in kernel.c:511
          UnitBits,   \* bits of a double's fraction
          FloatBits,  \* significant bits of an f32, 24 in the code
          DoubleBits, \* and of an f64, 53 in the code
          Ascii,      \* characters, by code
          Alphabet,   \* what formats consist of: characters and whole words
          Texts       \* strings, by address

ASSUME PrintfAssumption ==
    /\ HexBase \in 2 .. 16
    /\ WordDigits \in Nat \ {0} /\ HalfDigits \in 1 .. WordDigits
    /\ ByteBits \in Nat \ {0}
    /\ Precision \in Nat \ {0} /\ DecCount \in 1 .. Precision
    /\ {UnitBits, FloatBits, DoubleBits} \subseteq Nat \ {0}

Power(b, n) == LET power[k \in 0 .. n] == IF k = 0 THEN 1 ELSE b * power[k - 1]
               IN  power[n]

Word == Power(HexBase, WordDigits)
Byte == Power(2, ByteBits)
Unit == Power(2, UnitBits)

(* The decimals are digits of an u32.                                      *)
ASSUME PrecisionAssumption == 2 * Power(10, Precision) <= Word

VARIABLES format, \* the format, as the pieces the caller has put together:
                  \* their characters and the words passed for them
          stack,  \* the words of the arguments
          i,      \* the index of the next character
          args,   \* the words taken so far
          out,    \* what has been printed
          printf  \* "idle", "running" or "trapped"

printfVars == <<format, stack, i, args, out, printf>>

(* The characters of the first n pieces.                                   *)
Joined(f, n) == LET joined[k \in 0 .. n] ==
                      IF k = 0 THEN <<>> ELSE joined[k - 1] \o f[k].chars
                IN  joined[n]

fmt == Joined(format, Len(format))

-----------------------------------------------------------------------------
(* The number printers.                                                    *)

Digit == <<"0", "1", "2", "3", "4", "5", "6", "7", "8", "9", "a", "b", "c", "d",
           "e", "f">>

(* The last n digits of a number in a base, the most significant first.    *)
Digits(n, base, number) ==
    [k \in 1 .. n |-> Digit[1 + ((number \div Power(base, n - k)) % base)]]

(* print_unum and print_u64 divide by ten until nothing is left; 0 has one *)
(* digit, too.                                                             *)
Length(number) == CHOOSE n \in 1 .. number + 1 :
                     /\ number < Power(10, n)
                     /\ n = 1 \/ Power(10, n - 1) <= number

print_unum(number) == Digits(Length(number), 10, number)

print_hex(digits, n) == <<"0x">> \o Digits(digits, HexBase, n)

print_bin_byte(n) == <<"0b">> \o Digits(ByteBits, 2, n)

print_bool(n) == <<IF n % Byte # 0 THEN "true" ELSE "false">>

Negative(n) == n >= Word \div 2

print_inum(n) ==
    IF Negative(n) THEN <<"-">> \o print_unum(Word - n) ELSE print_unum(n)

(* The nearest number with so many significant bits, or the even one of    *)
(* two: what an operation on floats or doubles makes of its exact result.  *)
Exponent(bits, n) == CHOOSE e \in 0 .. n \div Power(2, bits) :
                        /\ n < Power(2, bits + e)
                        /\ e = 0 \/ Power(2, bits + e - 1) <= n

Rounded(bits) ==
    [n \in Nat |->
        LET ulp == Power(2, Exponent(bits, n))
            q == n \div ulp
            r == n % ulp
            up == 2 * r > ulp \/ (2 * r = ulp /\ q % 2 = 1)
        IN  ulp * IF up THEN q + 1 ELSE q]

(* The absolute values of a double and of the float it is converted to.    *)
Double(low, high) == Rounded(DoubleBits)[low + Word * (high % (Word \div 2))]
Float(low, high) == Rounded(FloatBits)[Double(low, high)]

(* The conversion to an i32 is defined.                                    *)
InI32(negative, num) == \/ num \div Unit < Word \div 2
                        \/ negative /\ num \div Unit = Word \div 2

(* The integer part is printed as an u32.                                  *)
IntegerPart(negative, num) ==
    print_unum((IF negative THEN -(num \div Unit) ELSE num \div Unit) % Word)

(* dec after k turns of the loop: the rest, which is exact, times ten      *)
(* again and again.                                                        *)
Tenfold(bits, num, k) ==
    LET dec[j \in 0 .. k] == IF j = 0 THEN num % Unit
                                     ELSE Rounded(bits)[10 * dec[j - 1]]
    IN  dec[k]

\* Faulty variants, here and below, are in no specification: a run that put
\* one in the place of its original must fail.
\* Faulty: the decimals stand one place too far to the right.
DecimalLate(bits, num, k) == (Tenfold(bits, num, k - 1) \div Unit) % 10

Decimal(bits, num, k) == (Tenfold(bits, num, k) \div Unit) % 10

(* Every `0' after the first decimal becomes the end of the string.        *)
Shown(bits, num) == CHOOSE n \in 1 .. Precision :
                       /\ \A k \in 2 .. n : Decimal(bits, num, k) # 0
                       /\ n = Precision \/ Decimal(bits, num, n + 1) = 0

print_decimals(bits, negative, num, count) ==
    IntegerPart(negative, num) \o <<".">>
        \o [k \in 1 .. count |-> Digit[1 + Decimal(bits, num, k)]]

(* Any text: what is printed after an undefined conversion, or at an       *)
(* address of no string.                                                   *)
AnyText == <<"?">>

print_f32_fixed(negative, dec_count) ==
    [num \in Nat |->
        IF InI32(negative, num) THEN print_decimals(FloatBits, negative, num, dec_count)
                                ELSE AnyText]

print_f32(negative) ==
    [num \in Nat |->
        IF InI32(negative, num)
          THEN print_decimals(FloatBits, negative, num, Shown(FloatBits, num))
          ELSE AnyText]

print_f64(negative) ==
    [num \in Nat |-> print_decimals(DoubleBits, negative, num, Shown(DoubleBits, num))]

-----------------------------------------------------------------------------
(* printf.                                                                 *)

(* The direct call of print_f32_fixed in the main loop is modelled as a    *)
(* format of one directive, `fixed', that no other format can spell.       *)
Directives == {"c", "s", "b", "n", "u", "f", "fixed", "d", "x", "a", "B", "X"}
Floats == {"f", "fixed"}
Doubles == Floats \cup {"d"}

(* va_arg *)
Width(d) == IF d \in Doubles \cup {"a"} THEN 2 ELSE 1

(* What a directive prints of its argument, whose words are w. *)
Text(d, w) ==
    CASE d = "c" -> <<Ascii[w[1] % Byte]>>
      [] d = "s" -> IF w[1] \in DOMAIN Texts THEN Texts[w[1]] ELSE AnyText
      [] d = "b" -> print_bin_byte(w[1])
      [] d = "n" -> print_inum(w[1])
      [] d = "u" -> print_unum(w[1])
      [] d = "f" -> print_f32(Negative(w[2]))[Float(w[1], w[2])]
      [] d = "fixed" -> print_f32_fixed(Negative(w[2]), DecCount)[Float(w[1], w[2])]
      [] d = "d" -> print_f64(Negative(w[2]))[Double(w[1], w[2])]
      [] d = "x" -> print_hex(WordDigits, w[1])
      [] d = "a" -> print_unum(w[1] + Word * w[2])
      [] d = "B" -> print_bool(w[1])
      [] d = "X" -> print_hex(HalfDigits, w[1])

(* What is printed for a directive or a character: from where in the       *)
(* format, and from where on the stack.                                    *)
Piece(d, text, from, at) ==
    [directive |-> d, text |-> text, from |-> from, at |-> at]

PrintfInit == /\ format = <<>> /\ stack = <<>> /\ out = <<>>
              /\ i = 1 /\ args = 0
              /\ printf = "idle"

(* A call with a format and its arguments. *)
Call(pieces, words) ==
    /\ printf' = "running"
    /\ format' = pieces /\ stack' = words
    /\ i' = 1 /\ args' = 0 /\ out' = <<>>

Running == printf = "running" /\ i <= Len(fmt)
AtDirective == Running /\ fmt[i] = "%" /\ i < Len(fmt)

(* A character, or a `%' at the end of the format. *)
Character ==
    /\ Running /\ ~AtDirective
    /\ out' = Append(out, Piece("text", <<fmt[i]>>, i, 0))
    /\ i' = i + 1
    /\ UNCHANGED <<format, stack, args, printf>>

\* Faulty: every directive counts one word.
TakeOneWord ==
    /\ AtDirective
    /\ LET d == fmt[i + 1]
       IN  /\ d \in Directives
           /\ out' = Append(out, Piece(d, Text(d, SubSeq(stack, args + 1, args + Width(d))),
                                       i, args + 1))
    /\ args' = args + 1
    /\ i' = i + 2
    /\ UNCHANGED <<format, stack, printf>>

TakeArgument ==
    /\ AtDirective
    /\ LET d == fmt[i + 1]
       IN  /\ d \in Directives
           /\ out' = Append(out, Piece(d, Text(d, SubSeq(stack, args + 1, args + Width(d))),
                                       i, args + 1))
           /\ args' = args + Width(d)
    /\ i' = i + 2
    /\ UNCHANGED <<format, stack, printf>>

(* -1 * num overflows for the smallest number, and so does the conversion  *)
(* of a float beyond an i32: undefined, so that the compiler may have put  *)
(* a trap there or let the program go on.                                  *)
Undefined(d, w) == \/ d = "n" /\ w[1] = Word \div 2
                   \/ d \in Floats /\ ~InI32(Negative(w[2]), Float(w[1], w[2]))

Overflow ==
    /\ AtDirective
    /\ LET d == fmt[i + 1]
       IN  Undefined(d, SubSeq(stack, args + 1, args + Width(d)))
    /\ printf' = "trapped"
    /\ UNCHANGED <<format, stack, i, args, out>>

(* An unknown directive is printed as it stands. *)
Unknown ==
    /\ AtDirective /\ fmt[i + 1] \notin Directives
    /\ out' = Append(out, Piece("text", <<"%", fmt[i + 1]>>, i, 0))
    /\ i' = i + 2
    /\ UNCHANGED <<format, stack, args, printf>>

\* Faulty: the end of the format is not looked at.
ReturnAfterEnd == /\ printf = "running" /\ i > Len(fmt) + 1
                  /\ printf' = "idle"
                  /\ UNCHANGED <<format, stack, i, args, out>>

Return == /\ printf = "running" /\ i > Len(fmt)
          /\ printf' = "idle"
          /\ UNCHANGED <<format, stack, i, args, out>>

PrintfStep == Character \/ TakeArgument \/ Overflow \/ Unknown \/ Return

-----------------------------------------------------------------------------
(* Properties.                                                             *)

(* The arguments printf can take are those of its own directives; those of *)
(* the documented `%<n>f' and `%<y>x' (print_utils.c:385) it does not know *)
(* for ones.                                                               *)
Known(piece) == /\ piece.chars[1] = "%" /\ Len(piece.chars) = 2
                /\ piece.chars[2] \in Directives

(* Where piece k of a format begins, the words passed for the pieces before *)
(* it, and those of them that printf does not know of.                      *)
Start(f, k) == Len(Joined(f, k - 1)) + 1

Total(w, n) == LET total[k \in 0 .. n] == IF k = 0 THEN 0 ELSE total[k - 1] + w[k]
               IN  total[n]

Words(f, k) == Total([j \in DOMAIN f |-> f[j].words], k - 1)
Skipped(f, k) ==
    Total([j \in DOMAIN f |-> IF Known(f[j]) THEN 0 ELSE f[j].words], k - 1)

(* What the caller has to keep to: directives have their argument passed,  *)
(* a `%' that begins none is followed by something else, and a single one  *)
(* is the end of the format.                                               *)
WellFormed(f) ==
    \A k \in DOMAIN f :
        LET c == f[k].chars
        IN  /\ c # <<>>
            /\ \A j \in 2 .. Len(c) : c[j] = "%" => j = 2 /\ c[1] = "%"
            /\ c = <<"%">> => k = Len(f)
            /\ Len(c) > 1 /\ c[1] = "%" /\ c[2] \in Directives
                 => Known(f[k]) /\ f[k].words = Width(c[2])

WellPassed(f, words) == /\ f \in Seq([chars : Seq(Alphabet), words : Nat])
                        /\ WellFormed(f)
                        /\ words \in Seq(0 .. Word - 1)
                        /\ Len(words) = Words(f, Len(f) + 1)

(* A printed text is that of piece k, and its argument the one passed, if  *)
(* no directive with a number comes before it.  Each one that does makes   *)
(* all that follow read too early on the stack, by the words of its own    *)
(* argument.                                                               *)
Takes(p, k) == /\ p.directive = format[k].chars[2]
               /\ p.from = Start(format, k)
               /\ p.at = 1 + Words(format, k) - Skipped(format, k)

(* Every directive takes its argument, once and in the order of the        *)
(* format, and nothing is taken for anything else, nor ever from beyond    *)
(* what was passed.                                                        *)
TakesWhatWasPassed ==
    /\ args <= Len(stack)
    /\ \A k \in DOMAIN format :
         Known(format[k]) /\ Start(format, k) < i => \E n \in DOMAIN out : Takes(out[n], k)
    /\ \A n \in DOMAIN out :
         out[n].directive # "text" => \E k \in DOMAIN format : Known(format[k]) /\ Takes(out[n], k)
    /\ \A n, m \in DOMAIN out : n < m => out[n].from < out[m].from

DigitValue(c) == CHOOSE d \in 0 .. 15 : Digit[d + 1] = c

Value(text, base) ==
    LET value[k \in 0 .. Len(text)] ==
            IF k = 0 THEN 0 ELSE base * value[k - 1] + DigitValue(text[k])
    IN  value[Len(text)]

Point(text) == CHOOSE k \in DOMAIN text : text[k] = "."

From(p, k) == SubSeq(p.text, k, Len(p.text))

(* What is printed of a whole number is the number, in every base, and a   *)
(* decimal number does not begin with a zero.                              *)
ShowsNumber(p) ==
    LET w == stack[p.at]
        d == p.directive
        signed == IF Negative(w) THEN w - Word ELSE w
    IN  /\ d = "u" => Value(p.text, 10) = w
        /\ d = "a" => Value(p.text, 10) = w + Word * stack[p.at + 1]
        /\ d \in {"u", "a"} => Len(p.text) = 1 \/ p.text[1] # "0"
        /\ d = "n" => signed = IF p.text[1] = "-" THEN -Value(From(p, 2), 10)
                                                  ELSE Value(p.text, 10)
        /\ d = "x" => Value(From(p, 2), HexBase) = w
        /\ d = "X" => Value(From(p, 2), HexBase) = w % Power(HexBase, HalfDigits)
        /\ d = "b" => Value(From(p, 2), 2) = w % Byte

(* The number shown of a double.  Of a negative one the integer part is    *)
(* printed as it stands in an u32 (print_utils.c:206), without a sign.  A  *)
(* text that ends early does so because the next decimal is a zero: the    *)
(* decimals are cut at the first one behind the first decimal, 1.90625 is  *)
(* shown as 1.9 (print_utils.c:219).                                       *)
IntegerShown(p, negative) ==
    LET n == Value(SubSeq(p.text, 1, Point(p.text) - 1), 10)
    IN  IF negative THEN (Word - n) % Word ELSE n

DecimalsShown(p) ==
    LET decimals == From(p, Point(p.text) + 1)
    IN  IF p.directive # "fixed" /\ Len(decimals) < Precision
          THEN Append(decimals, "0") ELSE decimals

(* The first m decimals of a double are those of the value passed, but for *)
(* what is cut behind them and for the roundings: one of the value, when   *)
(* it becomes a float, and one of each decimal, none of which is more than *)
(* half of the last significant bit.  This is about the decimals that so   *)
(* many bits can tell apart, seven of a float and all of a double; and not *)
(* about integer parts beyond an i32 or, of a double, an u32.              *)
ShowsDouble(p) ==
    LET low == stack[p.at]
        high == stack[p.at + 1]
        negative == Negative(high)
        value == Double(low, high)
        float == p.directive \in Floats
        precision == Power(2, IF float THEN FloatBits ELSE DoubleBits)
        decimals == DecimalsShown(p)
        fits == IF float THEN InI32(negative, Float(low, high))
                         ELSE value \div Unit < Word
    IN  fits => \A m \in 0 .. Len(decimals) :
            LET ten == Power(10, m)
                shown == ten * IntegerShown(p, negative) + Value(SubSeq(decimals, 1, m), 10)
                rest == (ten * value - shown * Unit) * precision
                rounded == ten * (m * Unit + IF float THEN value ELSE 0)
            IN  ten <= precision => /\ rest >= -rounded
                                    /\ rest < Unit * precision + rounded

(* Every directive shows the value of the words it has taken, whatever its *)
(* type, sign and width, up to the decimals that are cut and the roundings *)
(* of floats.                                                              *)
ShowsWhatWasPassed ==
    \A n \in DOMAIN out :
        IF out[n].directive \in Doubles THEN ShowsDouble(out[n])
                                        ELSE ShowsNumber(out[n])
=============================================================================
