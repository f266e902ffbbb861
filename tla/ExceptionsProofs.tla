-------------------------- MODULE ExceptionsProofs --------------------------
(***************************************************************************)
(* Theorems about Printf and Exceptions: for every call with the arguments *)
(* that its format asks for, printf takes them and shows them, and reports *)
(* are true.                                                               *)
(***************************************************************************)
EXTENDS Exceptions, SequenceTheorems, WellFoundedInduction, TLAPS

-----------------------------------------------------------------------------
(* Recursive functions on an initial part of the natural numbers. *)

(* A set of numbers has a least one. *)
LEMMA LeastExists ==
    ASSUME NEW S \in SUBSET Nat, S # {}
    PROVE  \E a \in S : \A b \in S : a <= b
  <1>1. PICK a \in S : \A b \in S : <<b, a>> \notin OpToRel(<, Nat)
    BY NatLessThanWellFounded, WFMin
  <1>2. \A b \in S : ~(b < a)
    BY <1>1 DEF OpToRel
  <1>. QED
    BY <1>2, SMT

(* Functions that agree at zero, and at each number if they agree before   *)
(* it, agree.                                                              *)
Alike(f, g, n) == /\ f[0] = g[0]
                  /\ \A k \in 1 .. n : f[k - 1] = g[k - 1] => f[k] = g[k]

(* Functions that go on from number to number in the same way agree. *)
LEMMA Agree ==
    ASSUME NEW n \in Nat, NEW f, NEW g, Alike(f, g, n)
    PROVE  f[n] = g[n]
  <1>. DEFINE Bad == {k \in 0 .. n : f[k] # g[k]}
  <1>1. ASSUME Bad # {}
        PROVE  FALSE
    <2>1. Bad \in SUBSET Nat
      OBVIOUS
    <2>2. PICK a \in Bad : \A b \in Bad : a <= b
      <3>. HIDE DEF Bad
      <3>. QED
        BY <1>1, <2>1, LeastExists
    <2>3. a \in 0 .. n /\ f[a] # g[a] /\ a # 0
      BY <2>2 DEF Alike
    <2>4. a \in 1 .. n /\ a - 1 \in 0 .. n /\ a - 1 \notin Bad
      BY <2>2, <2>3
    <2>. QED
      BY <2>3, <2>4 DEF Alike
  <1>. QED
    BY <1>1

(* A step that is given for every number and value gives a function. *)
Follows(h, a, G, n) == h[0] = a /\ \A k \in 1 .. n : h[k] = G[k][h[k - 1]]

(* A recursive function exists. *)
LEMMA Recursion ==
    ASSUME NEW S, NEW a \in S, NEW m \in Nat, NEW G \in [1 .. m -> [S -> S]]
    PROVE  \E h \in [0 .. m -> S] : Follows(h, a, G, m)
  <1>. DEFINE Bad == {n \in 0 .. m : ~\E h \in [0 .. n -> S] : Follows(h, a, G, n)}
  <1>1. ASSUME Bad # {}
        PROVE  FALSE
    <2>1. Bad \in SUBSET Nat
      OBVIOUS
    <2>2. PICK n \in Bad : \A b \in Bad : n <= b
      <3>. HIDE DEF Bad
      <3>. QED
        BY <1>1, <2>1, LeastExists
    <2>3. n \in 0 .. m /\ ~\E h \in [0 .. n -> S] : Follows(h, a, G, n)
      BY <2>2
    <2>4. n # 0
      <3>1. SUFFICES ASSUME n = 0
                     PROVE  FALSE
        OBVIOUS
      <3>2. PICK h : h = [k \in 0 .. 0 |-> a]
        OBVIOUS
      <3>3. h \in [0 .. n -> S] /\ Follows(h, a, G, n)
        BY <3>1, <3>2 DEF Follows
      <3>. QED
        BY <2>3, <3>3
    <2>5. n - 1 \in 0 .. m /\ n - 1 \notin Bad /\ n \in 1 .. m
      BY <2>2, <2>3, <2>4
    <2>6. PICK h \in [0 .. n - 1 -> S] : Follows(h, a, G, n - 1)
      BY <2>5
    <2>7. h[n - 1] \in S /\ G[n][h[n - 1]] \in S
      BY <2>5, <2>6
    <2>8. PICK g : g = [k \in 0 .. n |-> IF k = n THEN G[n][h[n - 1]] ELSE h[k]]
      OBVIOUS
    <2>9. g \in [0 .. n -> S]
      BY <2>5, <2>6, <2>7, <2>8
    <2>10. Follows(g, a, G, n)
      <3>1. g[0] = a
        BY <2>5, <2>6, <2>8 DEF Follows
      <3>2. ASSUME NEW k \in 1 .. n
            PROVE  g[k] = G[k][g[k - 1]]
        <4>1. k - 1 \in 0 .. n /\ k - 1 # n /\ g[k - 1] = h[k - 1]
          BY <2>5, <2>8
        <4>2. CASE k = n
          BY <2>8, <4>1, <4>2
        <4>3. CASE k # n
          BY <2>5, <2>6, <2>8, <4>1, <4>3 DEF Follows
        <4>. QED
          BY <4>2, <4>3
      <3>. QED
        BY <3>1, <3>2 DEF Follows
    <2>. QED
      BY <2>3, <2>9, <2>10
  <1>2. m \in 0 .. m /\ m \notin Bad
    BY <1>1
  <1>. QED
    BY <1>2

-----------------------------------------------------------------------------
(* Powers. *)

(* The powers of b, as one function. *)
LEMMA PowerFunction ==
    ASSUME NEW b \in Nat \ {0}, NEW m \in Nat
    PROVE  \E h \in [0 .. m -> Nat \ {0}] :
             /\ h[0] = 1
             /\ \A k \in 1 .. m : h[k] = b * h[k - 1]
             /\ \A n \in 0 .. m : Power(b, n) = h[n]
  <1>. DEFINE G == [k \in 1 .. m |-> [v \in Nat \ {0} |-> b * v]]
  <1>1. G \in [1 .. m -> [Nat \ {0} -> Nat \ {0}]]
    <2>1. \A v \in Nat \ {0} : b * v \in Nat \ {0}
      OBVIOUS
    <2>. QED
      BY <2>1
  <1>2. PICK h \in [0 .. m -> Nat \ {0}] : Follows(h, 1, G, m)
    <2>1. 1 \in Nat \ {0}
      OBVIOUS
    <2>. HIDE DEF G
    <2>. QED
      BY <1>1, <2>1, Recursion
  <1>3. h[0] = 1 /\ \A k \in 1 .. m : h[k] = b * h[k - 1]
    <2>1. ASSUME NEW k \in 1 .. m
          PROVE  G[k][h[k - 1]] = b * h[k - 1]
      <3>1. h[k - 1] \in Nat \ {0}
        BY <1>2
      <3>. QED
        BY <3>1
    <2>. HIDE DEF G
    <2>. QED
      BY <1>2, <2>1 DEF Follows
  <1>4. ASSUME NEW n \in 0 .. m
        PROVE  Power(b, n) = h[n]
    <2>. DEFINE Expand(f) == [k \in 0 .. n |-> IF k = 0 THEN 1 ELSE b * f[k - 1]]
    <2>1. PICK r : r = [k \in 0 .. n |-> h[k]]
      OBVIOUS
    <2>2. r = Expand(r)
      BY <1>3, <2>1
    <2>3. PICK f : f = CHOOSE g : g = Expand(g)
      OBVIOUS
    <2>4. f = Expand(f)
      <3>. HIDE DEF Expand
      <3>. QED
        BY <2>2, <2>3
    <2>5. Power(b, n) = f[n]
      BY <2>3 DEF Power
    <2>6. \A k \in 0 .. n : f[k] = IF k = 0 THEN 1 ELSE b * f[k - 1]
      BY <2>4
    <2>7. Alike(f, h, n)
      BY <1>3, <2>6 DEF Alike
    <2>. QED
      BY <2>5, <2>7, Agree
  <1>. QED
    BY <1>3, <1>4

(* What a power is. *)
LEMMA PowerFacts ==
    ASSUME NEW b \in Nat \ {0}, NEW n \in Nat
    PROVE  /\ Power(b, n) \in Nat \ {0}
           /\ Power(b, 0) = 1
           /\ Power(b, n + 1) = b * Power(b, n)
  <1>1. PICK m \in Nat : m = n + 1
    OBVIOUS
  <1>2. PICK h \in [0 .. m -> Nat \ {0}] :
          /\ h[0] = 1
          /\ \A k \in 1 .. m : h[k] = b * h[k - 1]
          /\ \A k \in 0 .. m : Power(b, k) = h[k]
    BY PowerFunction
  <1>. QED
    BY <1>1, <1>2

(* A power is larger than its exponent. *)
LEMMA PowerExceeds ==
    ASSUME NEW b \in Nat, b > 1, NEW n \in Nat
    PROVE  n < Power(b, n)
  <1>. DEFINE Bad == {k \in Nat : ~(k < Power(b, k))}
  <1>1. ASSUME Bad # {}
        PROVE  FALSE
    <2>1. PICK a \in Bad : \A k \in Bad : a <= k
      <3>1. Bad \in SUBSET Nat
        OBVIOUS
      <3>. HIDE DEF Bad
      <3>. QED
        BY <1>1, <3>1, LeastExists
    <2>2. a \in Nat /\ ~(a < Power(b, a)) /\ Power(b, 0) = 1
      BY <2>1, PowerFacts
    <2>3. a # 0
      BY <2>2
    <2>4. a - 1 \in Nat /\ a - 1 \notin Bad
      BY <2>1, <2>2, <2>3
    <2>5. PICK B \in Nat \ {0} : B = Power(b, a - 1) /\ Power(b, (a - 1) + 1) = b * B
      BY <2>4, PowerFacts
    <2>6. (a - 1) + 1 = a /\ a - 1 < B
      BY <2>2, <2>4, <2>5
    <2>7. PICK c \in Nat : b = 2 + c
      <3>1. b - 2 \in Nat /\ b = 2 + (b - 2)
        OBVIOUS
      <3>. QED
        BY <3>1
    <2>8. b * B = B + B + c * B /\ c * B \in Nat
      BY <2>7
    <2>. QED
      BY <2>2, <2>5, <2>6, <2>8
  <1>. QED
    BY <1>1

(* The powers of a sum. *)
LEMMA PowerAdds ==
    ASSUME NEW b \in Nat \ {0}, NEW m \in Nat, NEW n \in Nat
    PROVE  Power(b, m + n) = Power(b, m) * Power(b, n)
  <1>. DEFINE Bad == {k \in Nat : Power(b, m + k) # Power(b, m) * Power(b, k)}
  <1>1. ASSUME Bad # {}
        PROVE  FALSE
    <2>1. PICK a \in Bad : \A k \in Bad : a <= k
      <3>1. Bad \in SUBSET Nat
        OBVIOUS
      <3>. HIDE DEF Bad
      <3>. QED
        BY <1>1, <3>1, LeastExists
    <2>2. PICK M \in Nat : M = Power(b, m)
      BY PowerFacts
    <2>3. a \in Nat /\ Power(b, m + a) # M * Power(b, a)
      BY <2>1, <2>2
    <2>4. a # 0
      <3>1. M * Power(b, 0) = M /\ m + 0 = m
        BY <2>2, PowerFacts
      <3>. QED
        BY <2>2, <2>3, <3>1
    <2>5. a - 1 \in Nat /\ a - 1 \notin Bad
      BY <2>1, <2>3, <2>4
    <2>6. PICK B \in Nat : B = Power(b, a - 1) /\ Power(b, (a - 1) + 1) = b * B
      BY <2>5, PowerFacts
    <2>7. /\ m + (a - 1) \in Nat /\ (m + (a - 1)) + 1 = m + a /\ (a - 1) + 1 = a
          /\ Power(b, m + (a - 1)) = M * B
      BY <2>2, <2>5, <2>6
    <2>8. Power(b, m + a) = b * (M * B)
      BY <2>7, PowerFacts
    <2>9. b * (M * B) = M * (b * B)
      OBVIOUS
    <2>. QED
      BY <2>3, <2>6, <2>7, <2>8, <2>9
  <1>. QED
    BY <1>1

(* What a power of two is. *)
LEMMA TwoFacts ==
    ASSUME NEW n \in Nat
    PROVE  /\ Power(2, n) \in Nat \ {0}
           /\ Power(2, 0) = 1
           /\ Power(2, n + 1) = 2 * Power(2, n)
  <1>1. PICK b \in Nat \ {0} : b = 2
    OBVIOUS
  <1>. QED
    BY <1>1, PowerFacts

(* A power of two divides the larger ones. *)
LEMMA TwoDivides ==
    ASSUME NEW m \in Nat, NEW n \in Nat
    PROVE  /\ m <= n => \E c \in Nat \ {0} : Power(2, n) = c * Power(2, m)
           /\ Power(2, m) < 2 * Power(2, n) => m <= n
  <1>1. PICK M \in Nat \ {0}, N \in Nat \ {0} : M = Power(2, m) /\ N = Power(2, n)
    BY TwoFacts
  <1>2. ASSUME m <= n
        PROVE  \E c \in Nat \ {0} : N = c * M
    <2>1. n - m \in Nat /\ m + (n - m) = n
      BY <1>2
    <2>2. PICK c \in Nat \ {0} : c = Power(2, n - m)
      BY <2>1, TwoFacts
    <2>3. N = M * c
      BY <1>1, <2>1, <2>2, PowerAdds
    <2>4. M * c = c * M
      OBVIOUS
    <2>. QED
      BY <2>3, <2>4
  <1>3. ASSUME ~(m <= n)
        PROVE  ~(M < 2 * N)
    <2>1. m - (n + 1) \in Nat /\ (n + 1) + (m - (n + 1)) = m /\ n + 1 \in Nat
      BY <1>3
    <2>2. PICK c \in Nat \ {0} : c = Power(2, m - (n + 1))
      BY <2>1, TwoFacts
    <2>3. M = (2 * N) * c
      BY <1>1, <2>1, <2>2, PowerAdds, TwoFacts
    <2>4. PICK e \in Nat : c = 1 + e
      <3>1. c - 1 \in Nat /\ c = 1 + (c - 1)
        OBVIOUS
      <3>. QED
        BY <3>1
    <2>5. (2 * N) * c = 2 * N + (2 * N) * e /\ (2 * N) * e \in Nat
      BY <2>4
    <2>. QED
      BY <2>3, <2>5
  <1>. QED
    BY <1>1, <1>2, <1>3

(* Powers of ten rise. *)
LEMMA TenRises ==
    ASSUME NEW m \in Nat, NEW k \in 0 .. m
    PROVE  /\ Power(10, k) \in Nat /\ Power(10, m) \in Nat
           /\ Power(10, k) <= Power(10, m)
  <1>1. PICK b \in Nat \ {0}, l \in Nat : b = 10 /\ l = m - k /\ k \in Nat /\ k + l = m
    OBVIOUS
  <1>2. PICK K \in Nat \ {0}, L \in Nat \ {0} : K = Power(b, k) /\ L = Power(b, l)
    BY <1>1, PowerFacts
  <1>3. Power(b, m) = K * L
    BY <1>1, <1>2, PowerAdds
  <1>4. PICK c \in Nat : L = 1 + c
    <2>1. L - 1 \in Nat /\ L = 1 + (L - 1)
      OBVIOUS
    <2>. QED
      BY <2>1
  <1>5. K * L = K + K * c /\ K * c \in Nat
    BY <1>4
  <1>. QED
    BY <1>1, <1>2, <1>3, <1>5

-----------------------------------------------------------------------------
(* Division. *)

(* Quotient and rest. *)
LEMMA DivFacts ==
    ASSUME NEW x \in Nat, NEW b \in Nat \ {0}
    PROVE  /\ x \div b \in Nat /\ x % b \in Nat /\ x % b < b
           /\ x = b * (x \div b) + (x % b)
           /\ x < b => x \div b = 0 /\ x % b = x
  OBVIOUS

(* There is one quotient and one rest. *)
LEMMA DivUnique ==
    ASSUME NEW b \in Nat \ {0}, NEW q \in Nat, NEW r \in Nat, r < b
    PROVE  (b * q + r) \div b = q /\ (b * q + r) % b = r
  <1>1. PICK x \in Nat : x = b * q + r
    OBVIOUS
  <1>2. PICK d \in Nat, m \in Nat : d = x \div b /\ m = x % b
    BY DivFacts
  <1>3. b * q + r = b * d + m /\ m < b
    BY <1>1, <1>2, DivFacts
  <1>4. ASSUME q < d
        PROVE  FALSE
    <2>1. PICK e \in Nat : d = q + 1 + e
      BY <1>4
    <2>2. b * d = b * q + b + b * e /\ b * e \in Nat /\ b * q \in Nat
      BY <2>1
    <2>. QED
      BY <1>3, <2>2
  <1>5. ASSUME d < q
        PROVE  FALSE
    <2>1. PICK e \in Nat : q = d + 1 + e
      BY <1>5
    <2>2. b * q = b * d + b + b * e /\ b * e \in Nat /\ b * d \in Nat
      BY <2>1
    <2>. QED
      BY <1>3, <2>2
  <1>6. q = d
    BY <1>4, <1>5
  <1>. QED
    BY <1>1, <1>2, <1>3, <1>6

(* Two divisions in a row are one. *)
LEMMA NestedDiv ==
    ASSUME NEW x \in Nat, NEW b \in Nat \ {0}, NEW B \in Nat \ {0}
    PROVE  (x \div B) \div b = x \div (b * B)
  <1>1. PICK q \in Nat, r \in Nat : q = x \div B /\ r = x % B
    BY DivFacts
  <1>2. PICK t \in Nat, s \in Nat : t = q \div b /\ s = q % b
    BY DivFacts
  <1>3. x = B * q + r /\ r < B /\ q = b * t + s /\ s < b
    BY <1>1, <1>2, DivFacts
  <1>4. PICK w \in Nat, c \in Nat \ {0} : w = B * s + r /\ c = b * B
    OBVIOUS
  <1>5. x = c * t + w
    BY <1>3, <1>4
  <1>6. w < c
    <2>1. PICK e \in Nat : b = s + 1 + e
      BY <1>3
    <2>2. b * B = B * s + B + B * e /\ B * e \in Nat /\ B * s \in Nat
      BY <2>1
    <2>. QED
      BY <1>3, <1>4, <2>2
  <1>7. x \div c = t
    BY <1>5, <1>6, DivUnique
  <1>. QED
    BY <1>1, <1>2, <1>4, <1>7

(* The last digit in base b joined to those in front of it. *)
LEMMA LastDigit ==
    ASSUME NEW x \in Nat, NEW b \in Nat \ {0}, NEW B \in Nat \ {0}
    PROVE  b * ((x \div b) % B) + (x % b) = x % (b * B)
  <1>1. PICK q \in Nat, r \in Nat : q = x \div b /\ r = x % b
    BY DivFacts
  <1>2. PICK t \in Nat, s \in Nat : t = q \div B /\ s = q % B
    BY DivFacts
  <1>3. x = b * q + r /\ r < b /\ q = B * t + s /\ s < B
    BY <1>1, <1>2, DivFacts
  <1>4. PICK w \in Nat, c \in Nat \ {0} : w = b * s + r /\ c = b * B
    OBVIOUS
  <1>5. x = c * t + w
    BY <1>3, <1>4
  <1>6. w < c
    <2>1. PICK e \in Nat : B = s + 1 + e
      BY <1>3
    <2>2. b * B = b * s + b + b * e /\ b * e \in Nat /\ b * s \in Nat
      BY <2>1
    <2>. QED
      BY <1>3, <1>4, <2>2
  <1>7. x % c = w
    BY <1>5, <1>6, DivUnique
  <1>. QED
    BY <1>1, <1>2, <1>4, <1>7

-----------------------------------------------------------------------------
(* Rounding. *)

(* The weight of the last significant bit. *)
LEMMA ExponentFacts ==
    ASSUME NEW bits \in Nat \ {0}, NEW n \in Nat
    PROVE  LET e == Exponent(bits, n)
           IN  /\ e \in Nat
               /\ n < Power(2, bits) * Power(2, e)
               /\ e = 0 \/ Power(2, bits) * Power(2, e) <= 2 * n
  <1>1. PICK P \in Nat \ {0} : P = Power(2, bits)
    BY TwoFacts
  <1>2. ASSUME NEW e \in Nat
        PROVE  Power(2, bits + e) = P * Power(2, e) /\ Power(2, e) \in Nat \ {0}
    <2>1. PICK b \in Nat \ {0} : b = 2
      OBVIOUS
    <2>2. bits \in Nat /\ Power(b, bits + e) = Power(b, bits) * Power(b, e)
      BY <2>1, PowerAdds
    <2>. QED
      BY <1>1, <2>1, <2>2, TwoFacts
  <1>. DEFINE Enough == {e \in Nat : n < Power(2, bits + e)}
  <1>3. PICK q \in Nat : q = n \div P
    BY DivFacts
  <1>4. q \in Enough
    <2>1. PICK r \in Nat : n = P * q + r /\ r < P
      BY <1>3, DivFacts
    <2>2. PICK Q \in Nat : Q = Power(2, q) /\ q < Q
      BY <1>2, PowerExceeds
    <2>3. PICK d \in Nat : Q = q + 1 + d
      <3>1. Q - (q + 1) \in Nat /\ Q = q + 1 + (Q - (q + 1))
        BY <2>2
      <3>. QED
        BY <3>1
    <2>4. P * Q = P * q + P + P * d /\ P * d \in Nat /\ P * q \in Nat
      BY <2>3
    <2>5. n < P * Q
      BY <2>1, <2>4
    <2>. QED
      BY <1>2, <2>2, <2>5
  <1>5. PICK e \in Enough : \A k \in Enough : e <= k
    <2>1. Enough \in SUBSET Nat /\ Enough # {}
      BY <1>4
    <2>. HIDE DEF Enough
    <2>. QED
      BY <2>1, LeastExists
  <1>6. e \in 0 .. q /\ n < Power(2, bits + e)
    <2>1. e <= q
      BY <1>4, <1>5
    <2>. QED
      BY <1>5, <2>1
  <1>7. ASSUME e # 0
        PROVE  Power(2, bits + e - 1) <= n
    <2>1. e - 1 \in Nat /\ bits + e - 1 = bits + (e - 1) /\ ~(e <= e - 1)
      BY <1>6, <1>7
    <2>2. e - 1 \notin Enough
      BY <1>5, <2>1
    <2>3. Power(2, bits + (e - 1)) \in Nat
      BY <2>1, TwoFacts
    <2>. QED
      BY <2>1, <2>2, <2>3
  <1>8. PICK l : l = Exponent(bits, n)
    OBVIOUS
  <1>9. /\ l \in 0 .. q
        /\ n < Power(2, bits + l)
        /\ l = 0 \/ Power(2, bits + l - 1) <= n
    BY <1>1, <1>3, <1>6, <1>7, <1>8 DEF Exponent
  <1>10. l = 0 \/ P * Power(2, l) <= 2 * n
    <2>1. SUFFICES ASSUME l # 0
                   PROVE  P * Power(2, l) <= 2 * n
      OBVIOUS
    <2>2. l \in Nat /\ bits + l - 1 \in Nat /\ (bits + l - 1) + 1 = bits + l
      BY <1>9, <2>1
    <2>3. PICK B \in Nat : B = Power(2, bits + l - 1) /\ Power(2, bits + l) = 2 * B
      BY <2>2, TwoFacts
    <2>. QED
      BY <1>2, <1>9, <2>1, <2>2, <2>3
  <1>. QED
    BY <1>1, <1>2, <1>8, <1>9, <1>10

(* A rounded number is a multiple of a power of two, and half of it away   *)
(* from the exact one at most.                                             *)
Near(x, n, u) == 2 * (x - n) <= u /\ 2 * (n - x) <= u

(* What rounding gives: so many significant bits, near the exact number. *)
LEMMA RoundedFacts ==
    ASSUME NEW bits \in Nat \ {0}, NEW n \in Nat
    PROVE  \E e \in Nat, q \in Nat :
             /\ Rounded(bits)[n] = Power(2, e) * q
             /\ q <= Power(2, bits)
             /\ Near(Rounded(bits)[n], n, Power(2, e))
             /\ e = 0 \/ Power(2, bits) * Power(2, e) <= 2 * n
  <1>1. PICK e \in Nat : e = Exponent(bits, n)
    BY ExponentFacts
  <1>2. PICK u \in Nat \ {0}, P \in Nat \ {0} : u = Power(2, e) /\ P = Power(2, bits)
    BY TwoFacts
  <1>3. n < P * u /\ (e = 0 \/ P * u <= 2 * n)
    BY <1>1, <1>2, ExponentFacts
  <1>4. PICK q \in Nat, r \in Nat : q = n \div u /\ r = n % u
    BY DivFacts
  <1>5. n = u * q + r /\ r < u
    BY <1>4, DivFacts
  <1>6. q < P
    <2>1. ASSUME q >= P
          PROVE  FALSE
      <3>1. PICK d \in Nat : q = P + d
        <4>1. q - P \in Nat /\ q = P + (q - P)
          BY <2>1
        <4>. QED
          BY <4>1
      <3>2. u * q = P * u + u * d /\ u * d \in Nat
        BY <3>1
      <3>. QED
        BY <1>3, <1>5, <3>2
    <2>. QED
      BY <2>1
  <1>. DEFINE up == 2 * r > u \/ (2 * r = u /\ q % 2 = 1)
  <1>8. PICK x : x = Rounded(bits)[n]
    OBVIOUS
  <1>9. x = u * IF up THEN q + 1 ELSE q
    BY <1>1, <1>2, <1>4, <1>8 DEF Rounded
  <1>10. u * (q + 1) = u * q + u /\ u * q \in Nat
    OBVIOUS
  <1>11. CASE up
    <2>1. x = u * (q + 1) /\ 2 * r >= u
      BY <1>9, <1>11
    <2>2. Near(x, n, u)
      BY <1>5, <1>10, <2>1 DEF Near
    <2>3. q + 1 \in Nat /\ q + 1 <= P
      BY <1>6
    <2>. QED
      BY <1>2, <1>3, <1>8, <2>1, <2>2, <2>3
  <1>12. CASE ~up
    <2>1. x = u * q /\ 2 * r <= u
      BY <1>9, <1>12
    <2>2. Near(x, n, u)
      BY <1>5, <1>10, <2>1 DEF Near
    <2>. QED
      BY <1>2, <1>3, <1>6, <1>8, <2>1, <2>2
  <1>. QED
    BY <1>11, <1>12

(* How far away that is, measured by the number itself. *)
LEMMA RoundingError ==
    ASSUME NEW bits \in Nat \ {0}, NEW n \in Nat
    PROVE  LET x == Rounded(bits)[n]
               P == Power(2, bits)
           IN  x \in Nat /\ (x - n) * P <= n /\ (n - x) * P <= n
  <1>1. PICK e \in Nat, q \in Nat :
          /\ Rounded(bits)[n] = Power(2, e) * q
          /\ Near(Rounded(bits)[n], n, Power(2, e))
          /\ e = 0 \/ Power(2, bits) * Power(2, e) <= 2 * n
    BY RoundedFacts
  <1>2. PICK u \in Nat \ {0}, P \in Nat \ {0} : u = Power(2, e) /\ P = Power(2, bits)
    BY TwoFacts
  <1>3. PICK x \in Nat : x = Rounded(bits)[n]
    BY <1>1, <1>2
  <1>4. 2 * (x - n) <= u /\ 2 * (n - x) <= u
    BY <1>1, <1>2, <1>3 DEF Near
  <1>5. CASE e = 0
    <2>1. u = 1
      BY <1>2, <1>5, TwoFacts
    <2>2. x = n
      BY <1>4, <2>1
    <2>. QED
      BY <1>2, <1>3, <2>2
  <1>6. CASE e # 0
    <2>1. P * u <= 2 * n
      BY <1>1, <1>2, <1>6
    <2>2. ASSUME NEW d \in Int, 2 * d <= u
          PROVE  d * P <= n
      <3>1. PICK c \in Nat : u = 2 * d + c
        <4>1. u - 2 * d \in Nat /\ u = 2 * d + (u - 2 * d)
          BY <2>2
        <4>. QED
          BY <4>1
      <3>2. P * u = 2 * (d * P) + P * c /\ P * c \in Nat /\ d * P \in Int
        BY <3>1
      <3>. QED
        BY <2>1, <3>2
    <2>3. x - n \in Int /\ n - x \in Int
      OBVIOUS
    <2>. QED
      BY <1>2, <1>3, <1>4, <2>2, <2>3
  <1>. QED
    BY <1>5, <1>6

(* Numbers of so many significant bits, the last of which counts for no    *)
(* more than the place before the point.                                   *)
Fine(bits, x) == \E a \in 0 .. UnitBits, q \in Nat :
                    x = q * Power(2, a) /\ q < Power(2, bits)

(* One decimal more: a number below t is multiplied by ten and rounded.    *)
(* If the bits can tell ten times t numbers apart, what was before the     *)
(* point does not change, no carry reaches it.                             *)
LEMMA NextDecimal ==
    ASSUME NEW bits \in Nat \ {0}, NEW d \in Nat, Fine(bits, d), NEW t \in Nat,
           d < t * Unit, 10 * t <= Power(2, bits)
    PROVE  LET x == Rounded(bits)[10 * d]
           IN  /\ x \in Nat /\ Fine(bits, x)
               /\ x < (10 * t) * Unit
               /\ (x \div Unit) \div 10 = d \div Unit
  <1>1. UnitBits \in Nat /\ Unit = Power(2, UnitBits)
    BY PrintfAssumption DEF Unit
  <1>2. PICK U \in Nat \ {0}, P \in Nat \ {0} : U = Unit /\ P = Power(2, bits)
    BY <1>1, TwoFacts
  <1>3. PICK n \in Nat : n = 10 * d
    OBVIOUS
  <1>4. PICK e \in Nat, q \in Nat :
          /\ Rounded(bits)[n] = Power(2, e) * q
          /\ q <= Power(2, bits)
          /\ Near(Rounded(bits)[n], n, Power(2, e))
          /\ e = 0 \/ Power(2, bits) * Power(2, e) <= 2 * n
    BY RoundedFacts
  <1>5. PICK u \in Nat \ {0} : u = Power(2, e)
    BY TwoFacts
  <1>6. PICK x \in Nat : x = Rounded(bits)[n]
    BY <1>4, <1>5
  <1>7. /\ x = u * q /\ q <= P
        /\ 2 * (x - n) <= u /\ 2 * (n - x) <= u
        /\ e = 0 \/ P * u <= 2 * n
    BY <1>2, <1>4, <1>5, <1>6 DEF Near
  <1>8. d < t * U /\ 10 * t <= P
    BY <1>2
  <1>9. (10 * t) * U = 10 * (t * U) /\ t * U \in Nat /\ (10 * t) * U <= P * U
    <2>1. PICK c \in Nat : P = 10 * t + c
      <3>1. P - 10 * t \in Nat /\ P = 10 * t + (P - 10 * t)
        BY <1>8
      <3>. QED
        BY <3>1
    <2>2. P * U = (10 * t) * U + c * U /\ c * U \in Nat /\ (10 * t) * U = 10 * (t * U) /\ t * U \in Nat
      BY <2>1
    <2>. QED
      BY <2>2
  <1>10. n < (10 * t) * U /\ n < P * U
    BY <1>3, <1>8, <1>9
  <1>11. e <= UnitBits
    <2>1. CASE e = 0
      BY <1>1, <2>1
    <2>2. CASE e # 0
      <3>1. P * u < 2 * (P * U) /\ P * u \in Nat
        BY <1>7, <1>10, <2>2
      <3>2. u < 2 * U
        <4>1. ASSUME u >= 2 * U
              PROVE  FALSE
          <5>1. PICK c \in Nat : u = 2 * U + c
            <6>1. u - 2 * U \in Nat /\ u = 2 * U + (u - 2 * U)
              BY <4>1
            <6>. QED
              BY <6>1
          <5>2. P * u = 2 * (P * U) + P * c /\ P * c \in Nat
            BY <5>1
          <5>. QED
            BY <3>1, <5>2
        <4>. QED
          BY <4>1
      <3>. QED
        BY <1>1, <1>2, <1>5, <3>2, TwoDivides
    <2>. QED
      BY <2>1, <2>2
  <1>12. PICK A \in Nat, s \in Nat : A = d \div U /\ d = U * A + s /\ s < U
    <2>1. d \div U \in Nat /\ d % U \in Nat /\ d % U < U /\ d = U * (d \div U) + (d % U)
      BY DivFacts
    <2>. QED
      BY <2>1
  <1>13. PICK B \in Nat, G \in Nat : B = U * A /\ G = B + U
    OBVIOUS
  <1>14. G <= t * U
    <2>1. A < t
      <3>1. ASSUME A >= t
            PROVE  FALSE
        <4>1. PICK c \in Nat : A = t + c
          <5>1. A - t \in Nat /\ A = t + (A - t)
            BY <3>1
          <5>. QED
            BY <5>1
        <4>2. U * A = t * U + U * c /\ U * c \in Nat
          BY <4>1
        <4>. QED
          BY <1>8, <1>9, <1>12, <4>2
      <3>. QED
        BY <3>1
    <2>2. PICK c \in Nat : t = A + 1 + c
      <3>1. t - (A + 1) \in Nat /\ t = A + 1 + (t - (A + 1))
        BY <2>1
      <3>. QED
        BY <3>1
    <2>3. t * U = U * A + U + U * c /\ U * c \in Nat
      BY <2>2
    <2>. QED
      BY <1>13, <2>3
  (* It does not become less: what is before the point can be represented. *)
  <1>15. 10 * B <= x
    <2>1. PICK c \in Nat : U = c * u
      BY <1>1, <1>2, <1>5, <1>11, TwoDivides
    <2>2. PICK z \in Nat : z = 10 * (c * A)
      OBVIOUS
    <2>3. 10 * B = u * z
      <3>1. U * A = u * (c * A)
        BY <2>1
      <3>2. 10 * (u * (c * A)) = u * (10 * (c * A))
        OBVIOUS
      <3>. QED
        BY <1>13, <2>2, <3>1, <3>2
    <2>4. ASSUME q < z
          PROVE  FALSE
      <3>1. PICK k \in Nat : z = q + 1 + k
        <4>1. z - (q + 1) \in Nat /\ z = q + 1 + (z - (q + 1))
          BY <2>4
        <4>. QED
          BY <4>1
      <3>2. u * z = u * q + u + u * k /\ u * k \in Nat /\ u * q \in Nat
        BY <3>1
      <3>3. 10 * B <= n
        BY <1>3, <1>12, <1>13
      <3>. QED
        BY <1>7, <2>3, <3>2, <3>3
    <2>5. PICK k \in Nat : q = z + k
      <3>1. q - z \in Nat /\ q = z + (q - z)
        BY <2>4
      <3>. QED
        BY <3>1
    <2>6. u * q = u * z + u * k /\ u * k \in Nat
      BY <2>5
    <2>. QED
      BY <1>7, <2>3, <2>6
  (* Nor does a carry come in. *)
  <1>16. x < 10 * G
    <2>1. d < G
      BY <1>12, <1>13
    <2>2. CASE e = 0
      <3>1. u = 1
        BY <1>5, <2>2, TwoFacts
      <3>. QED
        BY <1>3, <1>7, <2>1, <3>1
    <2>3. CASE e # 0
      <3>1. PICK a \in 0 .. UnitBits, b \in Nat : d = b * Power(2, a) /\ b < P
        BY <1>2 DEF Fine
      <3>2. PICK v \in Nat \ {0} : v = Power(2, a) /\ a \in Nat /\ a <= UnitBits
        BY <1>1, <3>1, TwoFacts
      <3>3. PICK c \in Nat : U = c * v
        BY <1>1, <1>2, <3>2, TwoDivides
      <3>4. PICK g \in Nat : g = c * A + c
        OBVIOUS
      <3>5. G = g * v /\ d = b * v
        <4>1. U * A + U = (c * A + c) * v
          BY <3>3
        <4>. QED
          BY <1>13, <3>1, <3>2, <3>4, <4>1
      <3>6. b < g
        <4>1. ASSUME b >= g
              PROVE  FALSE
          <5>1. PICK k \in Nat : b = g + k
            <6>1. b - g \in Nat /\ b = g + (b - g)
              BY <4>1
            <6>. QED
              BY <6>1
          <5>2. b * v = g * v + k * v /\ k * v \in Nat
            BY <5>1
          <5>. QED
            BY <2>1, <3>5, <5>2
        <4>. QED
          BY <4>1
      <3>7. d + v <= G
        <4>1. PICK k \in Nat : g = b + 1 + k
          <5>1. g - (b + 1) \in Nat /\ g = b + 1 + (g - (b + 1))
            BY <3>6
          <5>. QED
            BY <5>1
        <4>2. g * v = b * v + v + k * v /\ k * v \in Nat /\ b * v \in Nat
          BY <4>1
        <4>. QED
          BY <3>5, <4>2
      <3>8. d < P * v
        <4>1. PICK k \in Nat : P = b + 1 + k
          <5>1. P - (b + 1) \in Nat /\ P = b + 1 + (P - (b + 1))
            BY <3>1
          <5>. QED
            BY <5>1
        <4>2. P * v = b * v + v + k * v /\ k * v \in Nat /\ b * v \in Nat
          BY <4>1
        <4>. QED
          BY <3>5, <4>2
      <3>9. P * u < 20 * (P * v)
        BY <1>3, <1>7, <2>3, <3>8
      <3>10. u < 20 * v
        <4>1. ASSUME u >= 20 * v
              PROVE  FALSE
          <5>1. PICK k \in Nat : u = 20 * v + k
            <6>1. u - 20 * v \in Nat /\ u = 20 * v + (u - 20 * v)
              BY <4>1
            <6>. QED
              BY <6>1
          <5>2. P * u = 20 * (P * v) + P * k /\ P * k \in Nat
            BY <5>1
          <5>. QED
            BY <3>9, <5>2
        <4>. QED
          BY <4>1
      <3>. QED
        BY <1>3, <1>7, <3>7, <3>10
    <2>. QED
      BY <2>2, <2>3
  <1>17. x < (10 * t) * U
    BY <1>9, <1>14, <1>16
  <1>18. Fine(bits, x)
    <2>1. CASE q < P
      <3>1. x = q * Power(2, e) /\ e \in 0 .. UnitBits
        BY <1>1, <1>5, <1>7, <1>11
      <3>. QED
        BY <1>2, <2>1, <3>1 DEF Fine
    <2>2. CASE q = P
      <3>1. bits - 1 \in Nat /\ (bits - 1) + 1 = bits
        OBVIOUS
      <3>2. PICK H \in Nat \ {0} : H = Power(2, bits - 1) /\ P = 2 * H
        BY <1>2, <3>1, TwoFacts
      <3>3. u < U
        <4>1. ASSUME u >= U
              PROVE  FALSE
          <5>1. PICK k \in Nat : u = U + k
            <6>1. u - U \in Nat /\ u = U + (u - U)
              BY <4>1
            <6>. QED
              BY <6>1
          <5>2. u * P = P * U + P * k /\ P * k \in Nat
            BY <5>1
          <5>. QED
            BY <1>7, <1>9, <1>17, <2>2, <5>2
        <4>. QED
          BY <4>1
      <3>4. e # UnitBits
        BY <1>1, <1>2, <1>5, <3>3
      <3>5. e + 1 \in 0 .. UnitBits
        BY <1>1, <1>11, <3>4
      <3>6. Power(2, e + 1) = 2 * u
        BY <1>5, TwoFacts
      <3>7. x = H * (2 * u) /\ H < P
        BY <1>7, <2>2, <3>2
      <3>. QED
        BY <1>2, <3>5, <3>6, <3>7 DEF Fine
    <2>. QED
      BY <1>7, <2>1, <2>2
  <1>19. (x \div U) \div 10 = A
    <2>1. PICK w \in Nat, m \in Nat : w = x \div U /\ x = U * w + m /\ m < U
      <3>1. x \div U \in Nat /\ x % U \in Nat /\ x % U < U /\ x = U * (x \div U) + (x % U)
        BY DivFacts
      <3>. QED
        BY <3>1
    <2>2. ASSUME w < 10 * A
          PROVE  FALSE
      <3>1. PICK k \in Nat : 10 * A = w + 1 + k
        <4>1. 10 * A - (w + 1) \in Nat /\ 10 * A = w + 1 + (10 * A - (w + 1))
          BY <2>2
        <4>. QED
          BY <4>1
      <3>2. U * (10 * A) = U * w + U + U * k /\ U * k \in Nat /\ U * (10 * A) = 10 * (U * A)
        BY <3>1
      <3>. QED
        BY <1>13, <1>15, <2>1, <3>2
    <2>3. ASSUME w >= 10 * A + 10
          PROVE  FALSE
      <3>1. PICK k \in Nat : w = 10 * A + 10 + k
        <4>1. w - (10 * A + 10) \in Nat /\ w = 10 * A + 10 + (w - (10 * A + 10))
          BY <2>3
        <4>. QED
          BY <4>1
      <3>2. U * w = 10 * (U * A) + 10 * U + U * k /\ U * k \in Nat
        BY <3>1
      <3>. QED
        BY <1>13, <1>16, <2>1, <3>2
    <2>4. w \div 10 = A
      BY <2>2, <2>3
    <2>. QED
      BY <2>1, <2>4
  <1>. QED
    BY <1>2, <1>3, <1>6, <1>12, <1>17, <1>18, <1>19

(* Behind the point of a rounded number such a number remains. *)
LEMMA FineRest ==
    ASSUME NEW bits \in Nat \ {0}, NEW n \in Nat, NEW x, x = Rounded(bits)[n]
    PROVE  Fine(bits, x % Unit)
  <1>1. UnitBits \in Nat /\ Unit = Power(2, UnitBits)
    BY PrintfAssumption DEF Unit
  <1>2. PICK U \in Nat \ {0}, P \in Nat \ {0} : U = Unit /\ P = Power(2, bits)
    BY <1>1, TwoFacts
  <1>3. PICK a \in Nat, q \in Nat : x = Power(2, a) * q /\ q < P
    <2>1. PICK e \in Nat, q \in Nat : x = Power(2, e) * q /\ q <= P
      BY <1>2, RoundedFacts
    <2>2. CASE q < P
      BY <2>1, <2>2
    <2>3. CASE q = P
      <3>1. bits - 1 \in Nat /\ (bits - 1) + 1 = bits
        OBVIOUS
      <3>2. PICK H \in Nat \ {0} : H = Power(2, bits - 1) /\ P = 2 * H
        BY <1>2, <3>1, TwoFacts
      <3>3. PICK u \in Nat : u = Power(2, e) /\ Power(2, e + 1) = 2 * u
        BY TwoFacts
      <3>4. u * (2 * H) = (2 * u) * H
        OBVIOUS
      <3>. QED
        BY <2>1, <2>3, <3>2, <3>3, <3>4
    <2>. QED
      BY <2>1, <2>2, <2>3
  <1>4. PICK v \in Nat \ {0} : v = Power(2, a)
    BY TwoFacts
  <1>5. CASE a <= UnitBits
    <2>1. PICK c \in Nat \ {0} : U = c * v
      BY <1>1, <1>2, <1>4, <1>5, TwoDivides
    <2>2. PICK s \in Nat, m \in Nat : q = c * s + m /\ m < c
      <3>1. q \div c \in Nat /\ q % c \in Nat /\ q % c < c /\ q = c * (q \div c) + (q % c)
        BY DivFacts
      <3>. QED
        BY <3>1
    <2>3. m <= q
      <3>1. c * s \in Nat
        OBVIOUS
      <3>. QED
        BY <2>2, <3>1
    <2>4. PICK r \in Nat : r = m * v
      OBVIOUS
    <2>5. x = U * s + r
      <3>1. v * (c * s + m) = (c * v) * s + m * v
        OBVIOUS
      <3>. QED
        BY <1>3, <1>4, <2>1, <2>2, <2>4, <3>1
    <2>6. r < U
      <3>1. PICK k \in Nat : c = m + 1 + k
        <4>1. c - (m + 1) \in Nat /\ c = m + 1 + (c - (m + 1))
          BY <2>2
        <4>. QED
          BY <4>1
      <3>2. c * v = m * v + v + k * v /\ k * v \in Nat
        BY <3>1
      <3>. QED
        BY <2>1, <2>4, <3>2
    <2>7. x % U = r
      BY <2>5, <2>6, DivUnique
    <2>8. a \in 0 .. UnitBits /\ m < P
      BY <1>1, <1>3, <1>5, <2>3
    <2>. QED
      BY <1>2, <1>4, <2>4, <2>7, <2>8 DEF Fine
  <1>6. CASE ~(a <= UnitBits)
    <2>1. UnitBits <= a
      BY <1>1, <1>6
    <2>2. PICK c \in Nat : v = c * U
      BY <1>1, <1>2, <1>4, <2>1, TwoDivides
    <2>3. PICK s \in Nat : s = c * q
      OBVIOUS
    <2>4. x = U * s + 0
      <3>1. (c * U) * q = U * (c * q)
        OBVIOUS
      <3>. QED
        BY <1>3, <1>4, <2>2, <2>3, <3>1
    <2>5. x % U = 0
      BY <2>4, DivUnique
    <2>6. 0 \in 0 .. UnitBits /\ 0 = 0 * Power(2, 0)
      BY <1>1, TwoFacts
    <2>. QED
      BY <1>2, <2>5, <2>6 DEF Fine
  <1>. QED
    BY <1>5, <1>6

(* The decimals behind the point, as one function. *)
LEMMA TenfoldFunction ==
    ASSUME NEW bits \in Nat \ {0}, NEW num \in Nat, NEW m \in Nat
    PROVE  \E h \in [0 .. m -> Nat] :
             /\ h[0] = num % Unit
             /\ \A k \in 1 .. m : h[k] = Rounded(bits)[10 * h[k - 1]]
             /\ \A n \in 0 .. m : Tenfold(bits, num, n) = h[n]
  <1>1. PICK R : R = Rounded(bits)
    OBVIOUS
  <1>. DEFINE More(v) == R[10 * v]
  <1>2. \A v \in Nat : More(v) \in Nat
    <2>1. ASSUME NEW v \in Nat
          PROVE  R[10 * v] \in Nat
      <3>1. PICK n \in Nat : n = 10 * v
        OBVIOUS
      <3>. QED
        BY <1>1, <3>1, RoundingError
    <2>. QED
      BY <2>1
  <1>3. PICK a \in Nat : a = num % Unit
    <2>1. PICK U \in Nat \ {0} : U = Unit
      BY PrintfAssumption, TwoFacts DEF Unit
    <2>. QED
      BY <2>1, DivFacts
  <1>3a. ASSUME NEW n \in 0 .. m
         PROVE  Tenfold(bits, num, n) =
                  (CHOOSE f : f = [k \in 0 .. n |-> IF k = 0 THEN a ELSE More(f[k - 1])])[n]
    BY <1>1, <1>3 DEF Tenfold
  <1>. HIDE DEF More
  <1>. DEFINE G == [k \in 1 .. m |-> [v \in Nat |-> More(v)]]
  <1>4. G \in [1 .. m -> [Nat -> Nat]]
    BY <1>2
  <1>5. PICK h \in [0 .. m -> Nat] : Follows(h, a, G, m)
    <2>. HIDE DEF G
    <2>. QED
      BY <1>4, Recursion
  <1>6. h[0] = a /\ \A k \in 1 .. m : h[k] = More(h[k - 1])
    <2>1. ASSUME NEW k \in 1 .. m
          PROVE  G[k][h[k - 1]] = More(h[k - 1])
      <3>1. h[k - 1] \in Nat
        BY <1>5
      <3>. QED
        BY <3>1
    <2>. HIDE DEF G
    <2>. QED
      BY <1>5, <2>1 DEF Follows
  <1>7. ASSUME NEW n \in 0 .. m
        PROVE  Tenfold(bits, num, n) = h[n]
    <2>. DEFINE Expand(f) == [k \in 0 .. n |-> IF k = 0 THEN a ELSE More(f[k - 1])]
    <2>1. PICK r : r = [k \in 0 .. n |-> h[k]]
      OBVIOUS
    <2>2. r = Expand(r)
      BY <1>6, <2>1
    <2>3. PICK f : f = CHOOSE g : g = Expand(g)
      OBVIOUS
    <2>4. f = Expand(f)
      <3>. HIDE DEF Expand
      <3>. QED
        BY <2>2, <2>3
    <2>5. Tenfold(bits, num, n) = f[n]
      BY <1>3a, <2>3, Zenon
    <2>6. \A k \in 0 .. n : f[k] = IF k = 0 THEN a ELSE More(f[k - 1])
      BY <2>4
    <2>7. Alike(f, h, n)
      BY <1>6, <2>6 DEF Alike
    <2>. QED
      BY <2>5, <2>7, Agree
  <1>. QED
    BY <1>1, <1>3, <1>6, <1>7 DEF More

(* What dec is from turn to turn. *)
LEMMA TenfoldFacts ==
    ASSUME NEW bits \in Nat \ {0}, NEW num \in Nat, NEW k \in Nat
    PROVE  /\ Tenfold(bits, num, k) \in Nat
           /\ Tenfold(bits, num, 0) = num % Unit
           /\ Tenfold(bits, num, k + 1) = Rounded(bits)[10 * Tenfold(bits, num, k)]
  <1>1. PICK m \in Nat : m = k + 1
    OBVIOUS
  <1>2. PICK h \in [0 .. m -> Nat] :
          /\ h[0] = num % Unit
          /\ \A n \in 1 .. m : h[n] = Rounded(bits)[10 * h[n - 1]]
          /\ \A n \in 0 .. m : Tenfold(bits, num, n) = h[n]
    BY TenfoldFunction
  <1>3. 0 \in 0 .. m /\ k \in 0 .. m /\ k + 1 \in 1 .. m /\ k + 1 \in 0 .. m /\ (k + 1) - 1 = k
    BY <1>1
  <1>. QED
    BY <1>2, <1>3

(* dec after k turns: how large it is, and how far from the exact product. *)
Turned(bits, num, k) ==
    LET dec == Tenfold(bits, num, k)
        exact == Power(10, k) * (num % Unit)
        limit == Power(10, k) * Unit
    IN  /\ Fine(bits, dec) /\ dec < limit
        /\ (dec - exact) * Power(2, bits) <= k * limit
        /\ (exact - dec) * Power(2, bits) <= k * limit

(* The place before the point is only multiplied by ten in the next turn,  *)
(* and another digit added to it.                                          *)
LEMMA NextTurn ==
    ASSUME NEW bits \in Nat \ {0}, NEW num \in Nat, NEW k \in Nat, Turned(bits, num, k),
           Power(10, k + 1) <= Power(2, bits)
    PROVE  /\ Turned(bits, num, k + 1)
           /\ (Tenfold(bits, num, k + 1) \div Unit) \div 10 = Tenfold(bits, num, k) \div Unit
  <1>1. PICK U \in Nat \ {0}, P \in Nat \ {0} : U = Unit /\ P = Power(2, bits)
    BY PrintfAssumption, TwoFacts DEF Unit
  <1>2. PICK T \in Nat : T = Power(10, k) /\ Power(10, k + 1) = 10 * T
    BY PowerFacts
  <1>3. PICK d \in Nat : d = Tenfold(bits, num, k)
    BY TenfoldFacts
  <1>4. PICK r \in Nat : r = num % Unit
    BY <1>1, DivFacts
  <1>5. PICK y \in Nat : y = 10 * d
    OBVIOUS
  <1>6. PICK x \in Nat : x = Tenfold(bits, num, k + 1) /\ x = Rounded(bits)[y]
    <2>1. Tenfold(bits, num, k + 1) \in Nat
      <3>1. PICK n \in Nat : n = k + 1
        OBVIOUS
      <3>. QED
        BY <3>1, TenfoldFacts
    <2>2. Tenfold(bits, num, k + 1) = Rounded(bits)[10 * Tenfold(bits, num, k)]
      BY TenfoldFacts
    <2>. QED
      BY <1>3, <1>5, <2>1, <2>2
  <1>7. /\ Fine(bits, d) /\ d < T * U
        /\ (d - T * r) * P <= k * (T * U)
        /\ (T * r - d) * P <= k * (T * U)
    BY <1>1, <1>2, <1>3, <1>4 DEF Turned
  <1>8. 10 * T <= P
    BY <1>1, <1>2
  <1>9. Fine(bits, x) /\ x < (10 * T) * U /\ (x \div U) \div 10 = d \div U
    BY <1>1, <1>5, <1>6, <1>7, <1>8, NextDecimal
  <1>10. (x - y) * P <= y /\ (y - x) * P <= y
    BY <1>1, <1>6, RoundingError
  <1>11. PICK L \in Nat, X \in Nat : L = T * U /\ X = T * r
    OBVIOUS
  <1>12. (10 * T) * U = 10 * L /\ (10 * T) * r = 10 * X
    BY <1>11
  <1>13. (k + 1) * (10 * L) = 10 * (k * L) + 10 * L /\ k * L \in Nat
    OBVIOUS
  <1>14. y <= 10 * L
    BY <1>5, <1>7, <1>11
  <1>15. (x - 10 * X) * P <= (k + 1) * (10 * L)
    <2>1. (x - 10 * X) * P = (x - y) * P + 10 * ((d - X) * P)
      BY <1>5
    <2>2. (x - y) * P \in Int /\ (d - X) * P \in Int
      OBVIOUS
    <2>3. (d - X) * P <= k * L
      BY <1>7, <1>11
    <2>. QED
      BY <1>10, <1>13, <1>14, <2>1, <2>2, <2>3
  <1>16. (10 * X - x) * P <= (k + 1) * (10 * L)
    <2>1. (10 * X - x) * P = (y - x) * P + 10 * ((X - d) * P)
      BY <1>5
    <2>2. (y - x) * P \in Int /\ (X - d) * P \in Int
      OBVIOUS
    <2>3. (X - d) * P <= k * L
      BY <1>7, <1>11
    <2>. QED
      BY <1>10, <1>13, <1>14, <2>1, <2>2, <2>3
  <1>17. Turned(bits, num, k + 1)
    BY <1>1, <1>2, <1>4, <1>6, <1>9, <1>12, <1>15, <1>16 DEF Turned
  <1>. QED
    BY <1>1, <1>3, <1>6, <1>9, <1>17

(* As long as the bits can tell the decimals apart, dec is as it should be. *)
LEMMA TurnedFacts ==
    ASSUME NEW bits \in Nat \ {0}, NEW num \in Nat, Fine(bits, num % Unit),
           NEW k \in Nat, Power(10, k) <= Power(2, bits)
    PROVE  Turned(bits, num, k)
  <1>. DEFINE Bad == {n \in Nat : Power(10, n) <= Power(2, bits) /\ ~Turned(bits, num, n)}
  <1>1. ASSUME Bad # {}
        PROVE  FALSE
    <2>1. PICK n \in Bad : \A b \in Bad : n <= b
      <3>1. Bad \in SUBSET Nat
        OBVIOUS
      <3>. HIDE DEF Bad
      <3>. QED
        BY <1>1, <3>1, LeastExists
    <2>2. n \in Nat /\ Power(10, n) <= Power(2, bits) /\ ~Turned(bits, num, n)
      BY <2>1
    <2>3. CASE n = 0
      <3>1. PICK U \in Nat \ {0}, P \in Nat \ {0} : U = Unit /\ P = Power(2, bits)
        BY PrintfAssumption, TwoFacts DEF Unit
      <3>2. PICK r \in Nat : r = num % U /\ r < U
        BY DivFacts
      <3>3. Power(10, 0) = 1
        BY PowerFacts
      <3>4. Tenfold(bits, num, 0) = r
        BY <3>1, <3>2, TenfoldFacts
      <3>5. 1 * r = r /\ 1 * U = U /\ (r - r) * P = 0 /\ 0 * U = 0
        OBVIOUS
      <3>6. Turned(bits, num, 0)
        BY <3>1, <3>2, <3>3, <3>4, <3>5 DEF Turned
      <3>. QED
        BY <2>2, <2>3, <3>6
    <2>4. CASE n # 0
      <3>1. n - 1 \in Nat /\ (n - 1) + 1 = n /\ ~(n <= n - 1)
        BY <2>2, <2>4
      <3>2. PICK B \in Nat : B = Power(10, n - 1) /\ Power(10, (n - 1) + 1) = 10 * B
        <4>1. PICK ten \in Nat \ {0}, m \in Nat : ten = 10 /\ m = n - 1
          BY <3>1
        <4>2. Power(ten, m) \in Nat /\ Power(ten, m + 1) = ten * Power(ten, m)
          BY PowerFacts
        <4>. QED
          BY <4>1, <4>2
      <3>3. PICK P \in Nat : P = Power(2, bits)
        BY TwoFacts
      <3>4. Power(10, n - 1) <= Power(2, bits)
        BY <2>2, <3>1, <3>2, <3>3
      <3>5. Turned(bits, num, n - 1)
        <4>1. n - 1 \notin Bad
          BY <2>1, <3>1
        <4>. QED
          BY <3>1, <3>4, <4>1
      <3>. QED
        BY <2>2, <3>1, <3>5, NextTurn
    <2>. QED
      BY <2>3, <2>4
  <1>. QED
    BY <1>1

-----------------------------------------------------------------------------
(* Digits. *)

Figures == {Digit[d + 1] : d \in 0 .. 15}

(* Each digit has its figure, which is no other mark or label. *)
LEMMA DigitFacts ==
    ASSUME NEW d \in 0 .. 15
    PROVE  DigitValue(Digit[d + 1]) = d /\ Digit[d + 1] \notin {"-", ".", "0x", "0b", "at", "code"}
  <1>1. \A e \in 0 .. 15 : Digit[e + 1] = Digit[d + 1] => e = d
    BY DEF Digit
  <1>. QED
    BY <1>1 DEF Digit, DigitValue

(* A function that obeys the recursion of Value on the text's beginnings.  *)
Reads(h, text, base, n) ==
    /\ h[0] = 0
    /\ \A k \in 1 .. n : h[k] = base * h[k - 1] + DigitValue(text[k])

(* The text a function reads has the value it ends with. *)
LEMMA ValueIs ==
    ASSUME NEW t, NEW n \in Nat, Len(t) = n, NEW b \in Nat, NEW h, Reads(h, t, b, n)
    PROVE  Value(t, b) = h[n]
  <1>. DEFINE Expand(f) == [k \in 0 .. n |-> IF k = 0 THEN 0
                                             ELSE b * f[k - 1] + DigitValue(t[k])]
  <1>1. PICK r : r = [k \in 0 .. n |-> h[k]]
    OBVIOUS
  <1>2. r = Expand(r)
    <2>1. \A k \in 0 .. n : h[k] = IF k = 0 THEN 0 ELSE b * r[k - 1] + DigitValue(t[k])
      BY <1>1 DEF Reads
    <2>. QED
      BY <1>1, <2>1
  <1>3. PICK f : f = CHOOSE g : g = Expand(g)
    OBVIOUS
  <1>4. f = Expand(f)
    <2>. HIDE DEF Expand
    <2>. QED
      BY <1>2, <1>3
  <1>5. Value(t, b) = f[n]
    BY <1>3 DEF Value
  <1>6. \A k \in 0 .. n : f[k] = IF k = 0 THEN 0 ELSE b * f[k - 1] + DigitValue(t[k])
    BY <1>4
  <1>7. Alike(f, h, n)
    BY <1>6 DEF Alike, Reads
  <1>. QED
    BY <1>5, <1>7, Agree

(* Digits have the value of the last digits of the number. *)
LEMMA DigitsShow ==
    ASSUME NEW b \in 2 .. 16, NEW n \in Nat, NEW x \in Nat
    PROVE  /\ Value(Digits(n, b, x), b) = x % Power(b, n)
           /\ Len(Digits(n, b, x)) = n
           /\ Digits(n, b, x) \in Seq(Figures)
           /\ \A k \in 1 .. n : \E d \in 0 .. 15 : Digits(n, b, x)[k] = Digit[d + 1]
  <1>1. PICK t : t = Digits(n, b, x)
    OBVIOUS
  <1>. DEFINE Front(k) == x \div Power(b, n - k)
              h == [k \in 0 .. n |-> Front(k) % Power(b, k)]
  <1>2. ASSUME NEW k \in 0 .. n
        PROVE  Front(k) \in Nat /\ Power(b, k) \in Nat \ {0} /\ Front(k) % b \in 0 .. 15
    <2>1. k \in Nat /\ n - k \in Nat /\ b \in Nat \ {0}
      OBVIOUS
    <2>2. Power(b, k) \in Nat \ {0} /\ Power(b, n - k) \in Nat \ {0}
      BY <2>1, PowerFacts
    <2>3. Front(k) \in Nat
      BY <2>2, DivFacts
    <2>. HIDE DEF Front
    <2>4. Front(k) % b \in Nat /\ Front(k) % b < b
      BY <2>1, <2>3, DivFacts
    <2>. QED
      BY <2>2, <2>3, <2>4
  <1>3. ASSUME NEW k \in 1 .. n
        PROVE  t[k] = Digit[(Front(k) % b) + 1] /\ DigitValue(t[k]) = Front(k) % b
    <2>1. Front(k) % b \in 0 .. 15 /\ t[k] = Digit[1 + (Front(k) % b)]
      BY <1>1, <1>2 DEF Digits
    <2>. HIDE DEF Front
    <2>2. 1 + (Front(k) % b) = (Front(k) % b) + 1
      BY <2>1
    <2>. QED
      BY <2>1, <2>2, DigitFacts
  <1>4. Len(t) = n
    BY <1>1 DEF Digits
  <1>5. ASSUME NEW k \in 1 .. n
        PROVE  h[k] = b * h[k - 1] + DigitValue(t[k])
    <2>1. /\ k - 1 \in 0 .. n /\ k - 1 \in Nat /\ n - k \in Nat /\ n - (k - 1) = (n - k) + 1
          /\ (k - 1) + 1 = k /\ b \in Nat \ {0}
      OBVIOUS
    <2>2. PICK B \in Nat \ {0}, C \in Nat \ {0} : B = Power(b, k - 1) /\ C = Power(b, n - k)
      BY <2>1, PowerFacts
    <2>3. Power(b, k) = b * B /\ Power(b, n - (k - 1)) = b * C
      BY <2>1, <2>2, PowerFacts
    <2>4. PICK q \in Nat : q = Front(k)
      BY <1>2
    <2>5. Front(k - 1) = q \div b
      BY <2>1, <2>2, <2>3, <2>4, NestedDiv
    <2>6. h[k] = q % (b * B) /\ h[k - 1] = (q \div b) % B
      BY <2>1, <2>2, <2>3, <2>4, <2>5
    <2>7. DigitValue(t[k]) = q % b
      BY <1>3, <2>4
    <2>8. b * ((q \div b) % B) + (q % b) = q % (b * B)
      BY <2>1, LastDigit
    <2>. HIDE DEF h
    <2>. QED
      BY <2>6, <2>7, <2>8
  <1>6. h[0] = 0
    <2>1. 0 \in 0 .. n /\ n - n = 0 /\ b \in Nat \ {0}
      OBVIOUS
    <2>2. Power(b, 0) = 1
      BY <2>1, PowerFacts
    <2>3. Front(0) \in Nat
      BY <1>2, <2>1
    <2>. HIDE DEF Front
    <2>. QED
      BY <2>1, <2>2, <2>3
  <1>7. h[n] = x % Power(b, n)
    <2>1. n - n = 0 /\ b \in Nat \ {0} /\ n \in 0 .. n
      OBVIOUS
    <2>2. Power(b, 0) = 1
      BY <2>1, PowerFacts
    <2>3. Front(n) = x
      BY <2>1, <2>2
    <2>. HIDE DEF Front
    <2>. QED
      BY <2>1, <2>3
  <1>8. Value(t, b) = h[n]
    <2>1. b \in Nat
      OBVIOUS
    <2>. HIDE DEF h
    <2>2. Reads(h, t, b, n)
      BY <1>5, <1>6 DEF Reads
    <2>. QED
      BY <1>4, <2>1, <2>2, ValueIs
  <1>9. \A k \in 1 .. n : \E d \in 0 .. 15 : t[k] = Digit[d + 1]
    BY <1>2, <1>3
  <1>10. t \in Seq(Figures)
    <2>1. PICK f : f = [k \in 1 .. n |-> t[k]]
      OBVIOUS
    <2>2. t = f
      BY <1>1, <2>1 DEF Digits
    <2>3. \A k \in 1 .. n : t[k] \in Figures
      BY <1>9 DEF Figures
    <2>4. f \in [1 .. n -> Figures]
      BY <2>1, <2>3
    <2>. QED
      BY <2>2, <2>4
  <1>. QED
    BY <1>1, <1>4, <1>7, <1>8, <1>9, <1>10

(* How often a number can be divided. *)
LEMMA LengthFacts ==
    ASSUME NEW x \in Nat
    PROVE  /\ Length(x) \in Nat \ {0}
           /\ x < Power(10, Length(x))
           /\ Length(x) = 1 \/ Power(10, Length(x) - 1) <= x
  <1>1. ASSUME NEW n \in Nat
        PROVE  n < Power(10, n)
    <2>1. PICK b \in Nat : b = 10 /\ b > 1
      OBVIOUS
    <2>. QED
      BY <2>1, PowerExceeds
  <1>. DEFINE Enough == {n \in Nat \ {0} : x < Power(10, n)}
  <1>2. x + 1 \in Enough
    <2>1. Power(10, x + 1) \in Nat /\ x + 1 < Power(10, x + 1)
      BY <1>1, PowerFacts
    <2>. QED
      BY <2>1
  <1>3. PICK n \in Enough : \A k \in Enough : n <= k
    <2>1. Enough \in SUBSET Nat /\ Enough # {}
      BY <1>2
    <2>. HIDE DEF Enough
    <2>. QED
      BY <2>1, LeastExists
  <1>4. n \in 1 .. x + 1 /\ x < Power(10, n)
    <2>1. n <= x + 1
      BY <1>2, <1>3
    <2>. QED
      BY <1>3, <2>1
  <1>5. n = 1 \/ Power(10, n - 1) <= x
    <2>1. SUFFICES ASSUME n # 1
                   PROVE  Power(10, n - 1) <= x
      OBVIOUS
    <2>2. n - 1 \in Nat \ {0} /\ n - 1 \notin Enough
      BY <1>3, <1>4, <2>1
    <2>3. Power(10, n - 1) \in Nat
      BY <2>2, PowerFacts
    <2>. QED
      BY <2>2, <2>3
  <1>6. PICK l : l = Length(x)
    OBVIOUS
  <1>7. /\ l \in 1 .. x + 1
        /\ x < Power(10, l)
        /\ l = 1 \/ Power(10, l - 1) <= x
    BY <1>4, <1>5, <1>6 DEF Length
  <1>. QED
    BY <1>6, <1>7

(* The number, without a zero in front. *)
LEMMA UnumFacts ==
    ASSUME NEW x \in Nat
    PROVE  /\ Value(print_unum(x), 10) = x
           /\ print_unum(x) \in Seq(Figures)
           /\ Len(print_unum(x)) \in Nat \ {0}
           /\ Len(print_unum(x)) = 1 \/ print_unum(x)[1] # "0"
  <1>1. PICK n \in Nat \ {0} : n = Length(x)
    BY LengthFacts
  <1>2. x < Power(10, n) /\ (n = 1 \/ Power(10, n - 1) <= x)
    BY <1>1, LengthFacts
  <1>3. PICK t : t = Digits(n, 10, x)
    OBVIOUS
  <1>4. Value(t, 10) = x % Power(10, n) /\ Len(t) = n /\ t \in Seq(Figures)
    <2>1. PICK b \in 2 .. 16 : b = 10
      OBVIOUS
    <2>. QED
      BY <1>3, <2>1, DigitsShow
  <1>5. x % Power(10, n) = x
    <2>1. PICK P \in Nat \ {0} : P = Power(10, n)
      BY PowerFacts
    <2>. QED
      BY <1>2, <2>1, DivFacts
  <1>6. ASSUME n # 1
        PROVE  t[1] # "0"
    <2>1. n - 1 \in Nat /\ (n - 1) + 1 = n
      OBVIOUS
    <2>2. PICK P \in Nat \ {0} : P = Power(10, n - 1)
      BY <2>1, PowerFacts
    <2>3. Power(10, n) = 10 * P
      BY <2>1, <2>2, PowerFacts
    <2>4. PICK q \in Nat, m \in Nat : q = x \div P /\ m = x % P
      BY DivFacts
    <2>5. x = P * q + m /\ m < P /\ P <= x /\ x < 10 * P
      BY <1>2, <1>6, <2>2, <2>3, <2>4, DivFacts
    <2>6. q # 0
      BY <2>5
    <2>7. q < 10
      <3>1. ASSUME q >= 10
            PROVE  FALSE
        <4>1. PICK e \in Nat : q = 10 + e
          BY <3>1
        <4>2. P * q = 10 * P + P * e /\ P * e \in Nat
          BY <4>1
        <4>. QED
          BY <2>5, <4>2
      <3>. QED
        BY <3>1
    <2>8. t[1] = Digit[1 + (q % 10)]
      BY <1>3, <2>2, <2>4 DEF Digits
    <2>9. q % 10 = q /\ q \in 1 .. 9
      BY <2>6, <2>7
    <2>10. \A d \in 1 .. 9 : Digit[1 + d] # "0"
      BY DEF Digit
    <2>. QED
      BY <2>8, <2>9, <2>10
  <1>. QED
    BY <1>1, <1>3, <1>4, <1>5, <1>6 DEF print_unum

(* A sign or prefix in front of the digits. *)
LEMMA Prefixed ==
    ASSUME NEW S, NEW t \in Seq(S), NEW c
    PROVE  /\ Len(<<c>> \o t) = Len(t) + 1
           /\ (<<c>> \o t)[1] = c
           /\ \A k \in 1 .. Len(t) : (<<c>> \o t)[k + 1] = t[k]
           /\ SubSeq(<<c>> \o t, 2, Len(t) + 1) = t
  <1>1. PICK n \in Nat : n = Len(t)
    OBVIOUS
  <1>2. PICK u, s : u = <<c>> /\ s = u \o t
    OBVIOUS
  <1>3. u \in Seq(S \cup {c}) /\ t \in Seq(S \cup {c}) /\ Len(u) = 1 /\ u[1] = c
    BY <1>2
  <1>4. s \in Seq(S \cup {c}) /\ Len(s) = n + 1 /\ s[1] = c
    BY <1>1, <1>2, <1>3
  <1>5. ASSUME NEW k \in 1 .. n
        PROVE  s[k + 1] = t[k]
    <2>1. k + 1 \in 1 .. n + 1 /\ k + 1 > 1 /\ (k + 1) - 1 = k
      OBVIOUS
    <2>. QED
      BY <1>1, <1>2, <1>3, <2>1
  <1>6. SubSeq(s, 2, n + 1) = t
    <2>1. SubSeq(s, 2, n + 1) = [k \in 1 .. n |-> s[k + 1]]
      BY <1>4
    <2>2. t = [k \in 1 .. n |-> t[k]]
      BY <1>1
    <2>. QED
      BY <1>5, <2>1, <2>2
  <1>. QED
    BY <1>1, <1>2, <1>4, <1>5, <1>6

-----------------------------------------------------------------------------
(* What the printers show. *)

(* The sizes of words and bytes. *)
LEMMA WordFacts ==
    /\ HexBase \in 2 .. 16 /\ WordDigits \in Nat /\ HalfDigits \in Nat
    /\ ByteBits \in Nat /\ Precision \in Nat \ {0} /\ DecCount \in 1 .. Precision
    /\ FloatBits \in Nat \ {0} /\ DoubleBits \in Nat \ {0} /\ Unit \in Nat \ {0}
    /\ Word \in Nat /\ Word > 1 /\ Byte \in Nat \ {0}
    /\ Word \div 2 \in Nat /\ Word \div 2 > 0 /\ Word \div 2 < Word
  <1>1. /\ HexBase \in 2 .. 16 /\ WordDigits \in Nat \ {0} /\ HalfDigits \in Nat
        /\ ByteBits \in Nat /\ Precision \in Nat \ {0} /\ DecCount \in 1 .. Precision
        /\ FloatBits \in Nat \ {0} /\ DoubleBits \in Nat \ {0} /\ UnitBits \in Nat
    BY PrintfAssumption
  <1>2. HexBase \in Nat \ {0} /\ WordDigits - 1 \in Nat /\ (WordDigits - 1) + 1 = WordDigits
    BY <1>1
  <1>3. PICK P \in Nat \ {0} : P = Power(HexBase, WordDigits - 1)
    BY <1>2, PowerFacts
  <1>4. Word = HexBase * P
    BY <1>2, <1>3, PowerFacts DEF Word
  <1>5. Word \in Nat /\ Word > 1
    <2>1. PICK e \in Nat, f \in Nat : HexBase = 2 + e /\ P = 1 + f
      <3>1. HexBase - 2 \in Nat /\ HexBase = 2 + (HexBase - 2) /\ P - 1 \in Nat /\ P = 1 + (P - 1)
        BY <1>1, <1>3
      <3>. QED
        BY <3>1
    <2>2. HexBase * P = 2 + e + f + f + e * f /\ e * f \in Nat
      BY <2>1
    <2>. QED
      BY <1>4, <2>1, <2>2
  <1>6. Byte \in Nat \ {0} /\ Unit \in Nat \ {0}
    BY <1>1, TwoFacts DEF Byte, Unit
  <1>7. Word \div 2 \in Nat /\ Word \div 2 > 0 /\ Word \div 2 < Word
    BY <1>5
  <1>. QED
    BY <1>1, <1>5, <1>6, <1>7

(* Hexadecimal and binary numbers behind their prefixes. *)
LEMMA HexShown ==
    ASSUME NEW n \in Nat, NEW x \in Nat
    PROVE  LET t == print_hex(n, x)
           IN  /\ Value(SubSeq(t, 2, Len(t)), HexBase) = x % Power(HexBase, n)
               /\ t[1] = "0x"
  <1>1. PICK b \in 2 .. 16 : b = HexBase
    BY WordFacts
  <1>2. PICK d : d = Digits(n, b, x)
    OBVIOUS
  <1>3. d \in Seq(Figures) /\ Value(d, b) = x % Power(b, n)
    BY <1>2, DigitsShow
  <1>4. PICK t : t = <<"0x">> \o d
    OBVIOUS
  <1>5. Len(t) = Len(d) + 1 /\ t[1] = "0x" /\ SubSeq(t, 2, Len(d) + 1) = d
    BY <1>3, <1>4, Prefixed
  <1>. QED
    BY <1>1, <1>2, <1>3, <1>4, <1>5 DEF print_hex

(* The bits behind "0b". *)
LEMMA BinShown ==
    ASSUME NEW x \in Nat
    PROVE  LET t == print_bin_byte(x)
           IN  Value(SubSeq(t, 2, Len(t)), 2) = x % Byte
  <1>1. PICK b \in 2 .. 16 : b = 2
    OBVIOUS
  <1>2. PICK d : d = Digits(ByteBits, b, x)
    OBVIOUS
  <1>3. d \in Seq(Figures) /\ Value(d, b) = x % Power(b, ByteBits)
    BY <1>2, DigitsShow, WordFacts
  <1>4. PICK t : t = <<"0b">> \o d
    OBVIOUS
  <1>5. Len(t) = Len(d) + 1 /\ SubSeq(t, 2, Len(d) + 1) = d
    BY <1>3, <1>4, Prefixed
  <1>. QED
    BY <1>1, <1>2, <1>3, <1>4, <1>5 DEF print_bin_byte, Byte

(* A number with its sign. *)
LEMMA InumShown ==
    ASSUME NEW x \in 0 .. Word - 1
    PROVE  LET t == print_inum(x)
           IN  IF Negative(x)
                 THEN t[1] = "-" /\ Value(SubSeq(t, 2, Len(t)), 10) = Word - x
                 ELSE t[1] # "-" /\ Value(t, 10) = x
  <1>1. PICK t : t = print_inum(x)
    OBVIOUS
  <1>2. CASE Negative(x)
    <2>1. PICK y \in Nat : y = Word - x
      BY WordFacts
    <2>2. PICK d : d = print_unum(y)
      OBVIOUS
    <2>3. d \in Seq(Figures) /\ Value(d, 10) = y
      BY <2>2, UnumFacts
    <2>4. t = <<"-">> \o d
      BY <1>1, <1>2, <2>1, <2>2 DEF print_inum
    <2>5. Len(t) = Len(d) + 1 /\ t[1] = "-" /\ SubSeq(t, 2, Len(d) + 1) = d
      BY <2>3, <2>4, Prefixed
    <2>. QED
      BY <1>1, <1>2, <2>1, <2>3, <2>5
  <1>3. CASE ~Negative(x)
    <2>1. x \in Nat /\ t = print_unum(x)
      BY <1>1, <1>3, WordFacts DEF print_inum
    <2>2. Value(t, 10) = x /\ t \in Seq(Figures) /\ Len(t) \in Nat \ {0}
      BY <2>1, UnumFacts
    <2>3. t[1] \in Figures
      BY <2>2
    <2>4. t[1] # "-"
      BY <2>3, DigitFacts DEF Figures
    <2>. QED
      BY <1>1, <1>3, <2>2, <2>4
  <1>. QED
    BY <1>2, <1>3

(* How many decimals are shown. *)
LEMMA ShownFacts ==
    ASSUME NEW bits, NEW num
    PROVE  /\ Shown(bits, num) \in 1 .. Precision
           /\ Shown(bits, num) = Precision \/ Decimal(bits, num, Shown(bits, num) + 1) = 0
  <1>. DEFINE Zero(k) == Decimal(bits, num, k) = 0
              Ends == {n \in 1 .. Precision : n = Precision \/ Zero(n + 1)}
  <1>1. Ends \in SUBSET Nat /\ Precision \in Ends
    BY WordFacts
  <1>2. PICK n \in Ends : \A k \in Ends : n <= k
    <2>. HIDE DEF Ends
    <2>. QED
      BY <1>1, LeastExists
  <1>3. n \in 1 .. Precision /\ (n = Precision \/ Zero(n + 1))
    BY <1>2
  <1>4. ASSUME NEW k \in 2 .. n
        PROVE  ~Zero(k)
    <2>1. k - 1 \in 1 .. Precision /\ (k - 1) + 1 = k /\ k - 1 < n
      BY <1>3, WordFacts
    <2>2. k - 1 \notin Ends
      BY <1>2, <2>1
    <2>. HIDE DEF Zero
    <2>. QED
      BY <2>1, <2>2
  <1>5. PICK l : l = Shown(bits, num)
    OBVIOUS
  <1>6. l \in 1 .. Precision /\ (l = Precision \/ Zero(l + 1))
    BY <1>3, <1>4, <1>5 DEF Shown
  <1>. QED
    BY <1>5, <1>6

(* The decimals that are shown. *)
Decimals(bits, num, n) == [k \in 1 .. n |-> Digit[1 + Decimal(bits, num, k)]]

(* A decimal and its figure. *)
LEMMA DecimalFacts ==
    ASSUME NEW bits \in Nat \ {0}, NEW num \in Nat, NEW k \in Nat
    PROVE  /\ Decimal(bits, num, k) = (Tenfold(bits, num, k) \div Unit) % 10
           /\ Digit[1 + Decimal(bits, num, k)] \in Figures
           /\ DigitValue(Digit[1 + Decimal(bits, num, k)]) = Decimal(bits, num, k)
  <1>1. PICK d \in Nat, U \in Nat \ {0} : d = Tenfold(bits, num, k) /\ U = Unit
    BY TenfoldFacts, WordFacts
  <1>2. PICK q \in Nat : q = d \div U
    BY DivFacts
  <1>3. PICK c \in 0 .. 15 : c = Decimal(bits, num, k) /\ c = q % 10
    BY <1>1, <1>2 DEF Decimal
  <1>4. 1 + c = c + 1
    OBVIOUS
  <1>. QED
    BY <1>1, <1>2, <1>3, <1>4, DigitFacts DEF Figures

(* The number that decimals make together: no carry has been lost on the way. *)
LEMMA DecimalsValue ==
    ASSUME NEW bits \in Nat \ {0}, NEW num \in Nat, Fine(bits, num % Unit),
           NEW m \in Nat, Power(10, m) <= Power(2, bits), NEW s, Len(s) = m,
           \A k \in 1 .. m : DigitValue(s[k]) = Decimal(bits, num, k)
    PROVE  Value(s, 10) = Tenfold(bits, num, m) \div Unit
  <1>1. PICK U \in Nat \ {0} : U = Unit
    BY WordFacts
  <1>. DEFINE h == [k \in 0 .. m |-> Tenfold(bits, num, k) \div Unit]
  <1>2. ASSUME NEW k \in 1 .. m
        PROVE  h[k] = 10 * h[k - 1] + DigitValue(s[k])
    <2>1. PICK l \in Nat : l = k - 1 /\ l + 1 = k /\ l \in 0 .. m /\ k \in 0 .. m /\ k \in Nat
      OBVIOUS
    <2>2. Power(10, k) <= Power(2, bits) /\ Power(10, l) <= Power(2, bits)
      <3>1. PICK P \in Nat : P = Power(2, bits)
        BY TwoFacts
      <3>2. /\ Power(10, k) \in Nat /\ Power(10, l) \in Nat /\ Power(10, m) \in Nat
            /\ Power(10, k) <= Power(10, m) /\ Power(10, l) <= Power(10, m)
        BY <2>1, TenRises
      <3>. QED
        BY <3>1, <3>2
    <2>3. Turned(bits, num, l)
      BY <2>2, TurnedFacts
    <2>4. (Tenfold(bits, num, k) \div Unit) \div 10 = Tenfold(bits, num, l) \div Unit
      BY <2>1, <2>2, <2>3, NextTurn
    <2>5. PICK d \in Nat : d = Tenfold(bits, num, k)
      BY <2>1, TenfoldFacts
    <2>6. PICK q \in Nat : q = d \div Unit
      BY <1>1, DivFacts
    <2>7. DigitValue(s[k]) = q % 10
      BY <2>1, <2>5, <2>6, DecimalFacts
    <2>8. h[k] = q /\ h[k - 1] = q \div 10
      BY <2>1, <2>4, <2>5, <2>6
    <2>9. q = 10 * (q \div 10) + (q % 10)
      OBVIOUS
    <2>. HIDE DEF h
    <2>. QED
      BY <2>7, <2>8, <2>9
  <1>3. h[0] = 0
    <2>1. PICK r \in Nat : r = num % U /\ r < U /\ r \div U = 0
      <3>1. PICK r \in Nat : r = num % U /\ r < U
        BY DivFacts
      <3>. QED
        BY <3>1, DivFacts
    <2>2. Tenfold(bits, num, 0) = r
      BY <1>1, <2>1, TenfoldFacts
    <2>. QED
      BY <1>1, <2>1, <2>2
  <1>4. PICK b \in Nat : b = 10
    OBVIOUS
  <1>5. \A k \in 1 .. m : h[k] = b * h[k - 1] + DigitValue(s[k])
    BY <1>2, <1>4
  <1>6. Value(s, b) = h[m]
    <2>. HIDE DEF h
    <2>1. Reads(h, s, b, m)
      BY <1>3, <1>5 DEF Reads
    <2>. QED
      BY <2>1, ValueIs
  <1>. QED
    BY <1>4, <1>6

(* The point between the digits is found. *)
Pointed(u, d) == u \o <<".">> \o d

(* The point stands where the integer part ends. *)
LEMMA PointFound ==
    ASSUME NEW u \in Seq(Figures), NEW d \in Seq(Figures)
    PROVE  LET t == Pointed(u, d)
           IN  /\ Len(t) - Point(t) = Len(d)
               /\ SubSeq(t, Point(t) + 1, Len(t)) = d
               /\ SubSeq(t, 1, Point(t) - 1) = u
  <1>1. PICK m \in Nat, n \in Nat : m = Len(u) /\ n = Len(d)
    OBVIOUS
  <1>. DEFINE S == Figures \cup {"."}
  <1>2. PICK v, t, point : v = u \o <<".">> /\ t = v \o d /\ point = Point(t)
    OBVIOUS
  <1>3. v \in Seq(S) /\ Len(v) = m + 1 /\ v[m + 1] = "." /\ \A k \in 1 .. m : v[k] = u[k]
    <2>1. PICK w : w = <<".">>
      OBVIOUS
    <2>2. u \in Seq(S) /\ w \in Seq(S) /\ Len(w) = 1 /\ w[1] = "."
      BY <2>1
    <2>. HIDE DEF S
    <2>. QED
      BY <1>1, <1>2, <2>1, <2>2
  <1>4. t \in Seq(S) /\ Len(t) = m + 1 + n
    <2>1. d \in Seq(S)
      OBVIOUS
    <2>. HIDE DEF S
    <2>. QED
      BY <1>1, <1>2, <1>3, <2>1
  <1>5. \A k \in 1 .. m + 1 : t[k] = v[k]
    BY <1>1, <1>2, <1>3
  <1>6. \A k \in 1 .. n : t[m + 1 + k] = d[k]
    <2>1. ASSUME NEW k \in 1 .. n
          PROVE  t[m + 1 + k] = d[k]
      <3>1. m + 1 + k > m + 1 /\ m + 1 + k \in 1 .. m + 1 + n /\ (m + 1 + k) - (m + 1) = k
        OBVIOUS
      <3>. QED
        BY <1>1, <1>2, <1>3, <3>1
    <2>. QED
      BY <2>1
  <1>7. DOMAIN t = 1 .. m + 1 + n
    BY <1>4
  <1>8. ASSUME NEW k \in DOMAIN t, t[k] = "."
        PROVE  k = m + 1
    <2>1. "." \notin Figures
      BY DigitFacts DEF Figures
    <2>2. k <= m => t[k] \in Figures
      BY <1>1, <1>3, <1>5, <1>7
    <2>3. k > m + 1 => t[k] \in Figures
      <3>1. SUFFICES ASSUME k > m + 1
                     PROVE  t[k] \in Figures
        OBVIOUS
      <3>2. k - (m + 1) \in 1 .. n /\ m + 1 + (k - (m + 1)) = k
        BY <1>7, <3>1
      <3>. QED
        BY <1>1, <1>6, <3>2
    <2>. QED
      BY <1>7, <1>8, <2>1, <2>2, <2>3
  <1>9. point = m + 1
    <2>1. m + 1 \in DOMAIN t /\ t[m + 1] = "."
      BY <1>3, <1>5, <1>7
    <2>. QED
      BY <1>2, <1>8, <2>1 DEF Point
  <1>10. SubSeq(t, m + 2, m + 1 + n) = d
    <2>1. SubSeq(t, m + 2, m + 1 + n) = [k \in 1 .. n |-> t[m + 1 + k]]
      BY <1>4
    <2>2. d = [k \in 1 .. n |-> d[k]]
      BY <1>1
    <2>. QED
      BY <1>6, <2>1, <2>2
  <1>11. SubSeq(t, 1, m) = u
    <2>1. SubSeq(t, 1, m) = [k \in 1 .. m |-> t[k]]
      BY <1>4
    <2>2. u = [k \in 1 .. m |-> u[k]]
      BY <1>1
    <2>. QED
      BY <1>3, <1>5, <2>1, <2>2
  <1>12. Len(t) - point = n /\ point + 1 = m + 2 /\ Len(t) = m + 1 + n /\ point - 1 = m
    BY <1>4, <1>9
  <1>. QED
    BY <1>1, <1>2, <1>10, <1>11, <1>12 DEF Pointed

(* The integer part, which stands for itself or, without its sign, for     *)
(* what is missing to a word.                                              *)
LEMMA IntegerFacts ==
    ASSUME NEW negative \in BOOLEAN, NEW num \in Nat, num \div Unit < Word
    PROVE  LET t == IntegerPart(negative, num)
               n == Value(t, 10)
           IN  /\ t \in Seq(Figures)
               /\ (IF negative THEN (Word - n) % Word ELSE n) = num \div Unit
  <1>1. PICK W \in Nat \ {0}, I \in Nat : W = Word /\ I = num \div Unit /\ I < W
    <2>1. PICK W \in Nat \ {0}, U \in Nat \ {0} : W = Word /\ U = Unit
      BY WordFacts
    <2>2. PICK I \in Nat : I = num \div U
      BY DivFacts
    <2>. QED
      BY <2>1, <2>2
  <1>2. PICK c \in Nat : c = (IF negative THEN -I ELSE I) % W
    BY <1>1
  <1>3. PICK t : t = print_unum(c)
    OBVIOUS
  <1>4. t = IntegerPart(negative, num)
    BY <1>1, <1>2, <1>3 DEF IntegerPart
  <1>5. t \in Seq(Figures) /\ Value(t, 10) = c
    BY <1>3, UnumFacts
  <1>6. CASE ~negative
    <2>1. c = I
      BY <1>1, <1>2, <1>6, DivFacts
    <2>. QED
      BY <1>1, <1>4, <1>5, <1>6, <2>1
  <1>7. CASE negative /\ I = 0
    <2>1. c = 0
      BY <1>2, <1>7
    <2>2. W - 0 = W * 1 + 0 /\ 0 < W
      OBVIOUS
    <2>3. (W * 1 + 0) % W = 0
      BY <2>2, DivUnique
    <2>4. (W - c) % W = 0
      BY <2>1, <2>2, <2>3
    <2>. QED
      BY <1>1, <1>4, <1>5, <1>7, <2>4
  <1>8. CASE negative /\ I # 0
    <2>1. PICK q \in Int : -I = W * q + c /\ c < W
      <3>1. (-I) \div W \in Int /\ -I = W * ((-I) \div W) + ((-I) % W) /\ (-I) % W < W
        OBVIOUS
      <3>2. c = (-I) % W
        BY <1>2, <1>8
      <3>. QED
        BY <3>1, <3>2
    <2>2. ASSUME q >= 0
          PROVE  FALSE
      <3>1. W * q >= 0
        BY <2>2
      <3>. QED
        BY <1>8, <2>1, <3>1
    <2>3. ASSUME q < -1
          PROVE  FALSE
      <3>1. PICK e \in Nat : q = -2 - e
        <4>1. -2 - q \in Nat /\ q = -2 - (-2 - q)
          BY <2>3
        <4>. QED
          BY <4>1
      <3>2. W * q = -2 * W - W * e /\ W * e \in Nat
        BY <3>1
      <3>. QED
        BY <1>1, <2>1, <3>2
    <2>4. q = -1
      BY <2>2, <2>3
    <2>5. c = W - I
      BY <2>1, <2>4
    <2>6. W - c = I
      BY <2>5
    <2>7. I % W = I
      BY <1>1, DivFacts
    <2>. QED
      BY <1>1, <1>4, <1>5, <1>8, <2>6, <2>7
  <1>. QED
    BY <1>6, <1>7, <1>8

(* What remains of the number behind the decimals. *)
LEMMA RestFacts ==
    ASSUME NEW bits \in Nat \ {0}, NEW num \in Nat, Fine(bits, num % Unit),
           NEW m \in Nat, Power(10, m) <= Power(2, bits)
    PROVE  LET ten == Power(10, m)
               shown == ten * (num \div Unit) + (Tenfold(bits, num, m) \div Unit)
               rest == (ten * num - shown * Unit) * Power(2, bits)
               rounded == ten * (m * Unit)
           IN  rest >= -rounded /\ rest < Unit * Power(2, bits) + rounded
  <1>1. PICK U \in Nat \ {0}, P \in Nat \ {0}, T \in Nat :
          U = Unit /\ P = Power(2, bits) /\ T = Power(10, m)
    <2>1. PICK U \in Nat \ {0}, P \in Nat \ {0} : U = Unit /\ P = Power(2, bits)
      BY WordFacts, TwoFacts
    <2>2. PICK T \in Nat : T = Power(10, m)
      BY PowerFacts
    <2>. QED
      BY <2>1, <2>2
  <1>2. PICK d \in Nat : d = Tenfold(bits, num, m)
    BY TenfoldFacts
  <1>3. PICK I \in Nat, r \in Nat : I = num \div U /\ r = num % U /\ num = U * I + r
    <2>1. num \div U \in Nat /\ num % U \in Nat /\ num = U * (num \div U) + (num % U)
      BY DivFacts
    <2>. QED
      BY <2>1
  <1>4. PICK D \in Nat, s \in Nat : D = d \div U /\ d = U * D + s /\ s < U
    <2>1. d \div U \in Nat /\ d % U \in Nat /\ d % U < U /\ d = U * (d \div U) + (d % U)
      BY DivFacts
    <2>. QED
      BY <2>1
  <1>5. Turned(bits, num, m)
    BY TurnedFacts
  <1>6. (d - T * r) * P <= m * (T * U) /\ (T * r - d) * P <= m * (T * U)
    BY <1>1, <1>2, <1>3, <1>5 DEF Turned
  <1>7. PICK X \in Int : X = (T * r - d) * P
    OBVIOUS
  <1>8. (d - T * r) * P = -X
    BY <1>7
  <1>9. T * num - (T * I + D) * U = (T * r - d) + s
    <2>1. T * (U * I + r) = T * (U * I) + T * r /\ T * (U * I) = (T * I) * U
      OBVIOUS
    <2>2. (T * I + D) * U = (T * I) * U + U * D
      OBVIOUS
    <2>3. PICK a \in Nat, b \in Nat, c \in Nat, t \in Nat, z \in Nat :
            a = T * (U * I) /\ b = T * r /\ c = U * D /\ t = T * num /\ z = (T * I + D) * U
      OBVIOUS
    <2>4. t = a + b
      BY <1>3, <2>1, <2>3
    <2>5. z = a + c
      BY <2>1, <2>2, <2>3
    <2>6. d = c + s
      BY <1>4, <2>3
    <2>7. t - z = (b - d) + s
      BY <2>4, <2>5, <2>6
    <2>. QED
      BY <2>3, <2>7
  <1>10. PICK rest \in Int : rest = (T * num - (T * I + D) * U) * P
    OBVIOUS
  <1>11. rest = X + s * P
    <2>1. ((T * r - d) + s) * P = (T * r - d) * P + s * P
      OBVIOUS
    <2>. QED
      BY <1>7, <1>9, <1>10, <2>1
  <1>12. s * P >= 0 /\ s * P < U * P /\ s * P \in Int
    <2>1. PICK k \in Nat : U = s + 1 + k
      <3>1. U - (s + 1) \in Nat /\ U = s + 1 + (U - (s + 1))
        BY <1>4
      <3>. QED
        BY <3>1
    <2>2. U * P = s * P + P + k * P /\ k * P \in Nat /\ s * P \in Nat
      BY <2>1
    <2>. QED
      BY <2>2
  <1>13. PICK L \in Nat : L = m * (T * U) /\ L = T * (m * U)
    OBVIOUS
  <1>14. rest >= -L /\ rest < U * P + L
    BY <1>6, <1>7, <1>8, <1>11, <1>12, <1>13
  <1>. QED
    BY <1>1, <1>2, <1>3, <1>4, <1>10, <1>13, <1>14

(* The decimals of an entry, with the zero that ends them. *)
LEMMA DecimalsTold ==
    ASSUME NEW p, NEW bits \in Nat \ {0}, NEW num \in Nat, NEW n \in 1 .. Precision,
           NEW u \in Seq(Figures), p.text = Pointed(u, Decimals(bits, num, n)),
           p.directive = "fixed" \/ n = Precision \/ Decimal(bits, num, n + 1) = 0,
           NEW m \in 0 .. Len(DecimalsShown(p))
    PROVE  /\ m \in Nat
           /\ Len(SubSeq(DecimalsShown(p), 1, m)) = m
           /\ \A k \in 1 .. m : DigitValue(SubSeq(DecimalsShown(p), 1, m)[k]) = Decimal(bits, num, k)
           /\ SubSeq(p.text, 1, Point(p.text) - 1) = u
  <1>1. PICK d : d = Decimals(bits, num, n)
    OBVIOUS
  <1>2. ASSUME NEW k \in Nat
        PROVE  /\ Digit[1 + Decimal(bits, num, k)] \in Figures
               /\ DigitValue(Digit[1 + Decimal(bits, num, k)]) = Decimal(bits, num, k)
    BY DecimalFacts
  <1>3. n \in Nat
    BY WordFacts
  <1>4. d \in Seq(Figures) /\ Len(d) = n /\ \A k \in 1 .. n : DigitValue(d[k]) = Decimal(bits, num, k)
    <2>1. d = [k \in 1 .. n |-> Digit[1 + Decimal(bits, num, k)]]
      BY <1>1 DEF Decimals
    <2>2. \A k \in 1 .. n : Digit[1 + Decimal(bits, num, k)] \in Figures
      BY <1>2, <1>3
    <2>3. d \in Seq(Figures) /\ Len(d) = n
      BY <1>3, <2>1, <2>2
    <2>4. \A k \in 1 .. n : d[k] = Digit[1 + Decimal(bits, num, k)] /\ k \in Nat
      BY <1>3, <2>1
    <2>. QED
      BY <1>2, <2>3, <2>4
  <1>5. SubSeq(p.text, 1, Point(p.text) - 1) = u /\ From(p, Point(p.text) + 1) = d
    <2>1. PICK t : t = Pointed(u, d)
      OBVIOUS
    <2>2. PICK v \in Seq(Figures) : v = d
      BY <1>4
    <2>3. SubSeq(t, Point(t) + 1, Len(t)) = v /\ SubSeq(t, 1, Point(t) - 1) = u
      BY <2>1, <2>2, PointFound
    <2>. QED
      BY <1>1, <2>1, <2>2, <2>3 DEF From
  <1>6. PICK s : s = DecimalsShown(p)
    OBVIOUS
  <1>7. \E z \in Nat : /\ s \in Seq(Figures) /\ Len(s) = z
                       /\ \A k \in 1 .. z : DigitValue(s[k]) = Decimal(bits, num, k)
    <2>1. CASE p.directive # "fixed" /\ n < Precision
      <3>1. s = Append(d, "0") /\ Decimal(bits, num, n + 1) = 0
        BY <1>4, <1>5, <1>6, <2>1 DEF DecimalsShown
      <3>2. "0" \in Figures /\ DigitValue("0") = 0
        <4>1. 0 \in 0 .. 15 /\ Digit[0 + 1] = "0"
          BY DEF Digit
        <4>. QED
          BY <4>1, DigitFacts DEF Figures
      <3>3. s \in Seq(Figures) /\ Len(s) = n + 1 /\ s[n + 1] = "0" /\ \A k \in 1 .. n : s[k] = d[k]
        BY <1>4, <3>1, <3>2
      <3>4. ASSUME NEW k \in 1 .. n + 1
            PROVE  DigitValue(s[k]) = Decimal(bits, num, k)
        <4>1. k \in 1 .. n \/ k = n + 1
          BY <1>3
        <4>. QED
          BY <1>4, <3>1, <3>2, <3>3, <4>1
      <3>5. n + 1 \in Nat
        BY <1>3
      <3>. QED
        BY <3>3, <3>4, <3>5
    <2>2. CASE ~(p.directive # "fixed" /\ n < Precision)
      <3>1. s = d
        BY <1>4, <1>5, <1>6, <2>2 DEF DecimalsShown
      <3>. QED
        BY <1>3, <1>4, <3>1
    <2>. QED
      BY <2>1, <2>2
  <1>8. PICK z \in Nat : /\ s \in Seq(Figures) /\ Len(s) = z
                         /\ \A k \in 1 .. z : DigitValue(s[k]) = Decimal(bits, num, k)
    BY <1>7
  <1>9. m \in 0 .. z
    BY <1>6, <1>8
  <1>10. PICK t : t = SubSeq(s, 1, m)
    OBVIOUS
  <1>11. Len(t) = m /\ \A k \in 1 .. m : t[k] = s[k] /\ k \in 1 .. z
    <2>1. t = [k \in 1 .. m |-> s[k]]
      BY <1>8, <1>9, <1>10
    <2>. QED
      BY <1>9, <2>1
  <1>. QED
    BY <1>5, <1>6, <1>8, <1>9, <1>10, <1>11

(* A number with decimals, up to what is cut and the roundings. *)
LEMMA NumberWithDecimals ==
    ASSUME NEW p, NEW bits \in Nat \ {0}, NEW negative \in BOOLEAN, NEW num \in Nat,
           Fine(bits, num % Unit), num \div Unit < Word, NEW n \in 1 .. Precision,
           p.text = print_decimals(bits, negative, num, n),
           p.directive = "fixed" \/ n = Precision \/ Decimal(bits, num, n + 1) = 0,
           NEW m \in 0 .. Len(DecimalsShown(p)), Power(10, m) <= Power(2, bits)
    PROVE  LET ten == Power(10, m)
               shown == ten * IntegerShown(p, negative)
                            + Value(SubSeq(DecimalsShown(p), 1, m), 10)
               rest == (ten * num - shown * Unit) * Power(2, bits)
               rounded == ten * (m * Unit)
           IN  /\ m \in Nat /\ shown \in Nat
               /\ rest >= -rounded /\ rest < Unit * Power(2, bits) + rounded
  <1>1. PICK u : u = IntegerPart(negative, num)
    OBVIOUS
  <1>2. u \in Seq(Figures) /\ p.text = Pointed(u, Decimals(bits, num, n))
    BY <1>1, IntegerFacts DEF print_decimals, Decimals, Pointed
  <1>3. PICK s : s = SubSeq(DecimalsShown(p), 1, m)
    OBVIOUS
  <1>4. /\ m \in Nat /\ Len(s) = m
        /\ \A k \in 1 .. m : DigitValue(s[k]) = Decimal(bits, num, k)
        /\ SubSeq(p.text, 1, Point(p.text) - 1) = u
    BY <1>2, <1>3, DecimalsTold
  <1>5. Value(s, 10) = Tenfold(bits, num, m) \div Unit
    BY <1>4, DecimalsValue
  <1>6. IntegerShown(p, negative) = num \div Unit
    BY <1>1, <1>4, IntegerFacts DEF IntegerShown
  <1>7. num \div Unit \in Nat /\ Tenfold(bits, num, m) \div Unit \in Nat /\ Power(10, m) \in Nat
    <2>1. PICK U \in Nat \ {0}, d \in Nat : U = Unit /\ d = Tenfold(bits, num, m)
      BY <1>4, WordFacts, TenfoldFacts
    <2>2. num \div U \in Nat /\ d \div U \in Nat
      BY DivFacts
    <2>3. Power(10, m) \in Nat
      BY <1>4, PowerFacts
    <2>. QED
      BY <2>1, <2>2, <2>3
  <1>8. PICK shown \in Nat :
          shown = Power(10, m) * (num \div Unit) + (Tenfold(bits, num, m) \div Unit)
    BY <1>7
  <1>. QED
    BY <1>3, <1>4, <1>5, <1>6, <1>8, RestFacts

(* What a directive prints of each word. *)
LEMMA TextFacts ==
    ASSUME NEW w
    PROVE  /\ Text("b", w) = print_bin_byte(w[1])
           /\ Text("n", w) = print_inum(w[1])
           /\ Text("u", w) = print_unum(w[1])
           /\ Text("f", w) = print_f32(Negative(w[2]))[Float(w[1], w[2])]
           /\ Text("fixed", w) = print_f32_fixed(Negative(w[2]), DecCount)[Float(w[1], w[2])]
           /\ Text("d", w) = print_f64(Negative(w[2]))[Double(w[1], w[2])]
           /\ Text("x", w) = print_hex(WordDigits, w[1])
           /\ Text("a", w) = print_unum(w[1] + Word * w[2])
           /\ Text("X", w) = print_hex(HalfDigits, w[1])
  BY DEF Text

(* An entry is what its directive prints of words on the stack. *)
Prints(p, words) ==
    LET last == p.at + Width(p.directive) - 1
    IN  /\ p.directive \in Directives
        /\ p.at \in Nat \ {0} /\ last <= Len(words)
        /\ p.text = Text(p.directive, SubSeq(words, p.at, last))

(* The words an entry was printed of. *)
LEMMA WordsTaken ==
    ASSUME NEW p, NEW words \in Seq(0 .. Word - 1), Prints(p, words)
    PROVE  \E w : /\ p.text = Text(p.directive, w)
                  /\ w[1] = words[p.at] /\ words[p.at] \in 0 .. Word - 1
                  /\ Width(p.directive) = 2
                       => w[2] = words[p.at + 1] /\ words[p.at + 1] \in 0 .. Word - 1
  <1>1. PICK a \in Nat \ {0}, n \in {1, 2} : a = p.at /\ n = Width(p.directive)
    BY DEF Prints, Width
  <1>2. PICK w : w = SubSeq(words, a, a + n - 1)
    OBVIOUS
  <1>3. a + n - 1 <= Len(words) /\ p.text = Text(p.directive, w)
    BY <1>1, <1>2 DEF Prints
  <1>4. a \in 1 .. Len(words) /\ (n = 2 => a + 1 \in 1 .. Len(words))
    BY <1>1, <1>3
  <1>5. w[1] = words[a] /\ (n = 2 => w[2] = words[a + 1])
    <2>1. PICK z \in Nat : z = a + n - 1
      OBVIOUS
    <2>2. w = [k \in 1 .. z - a + 1 |-> words[a + k - 1]]
      BY <1>2, <2>1
    <2>3. z - a + 1 = n
      BY <2>1
    <2>4. 1 \in 1 .. n /\ (n = 2 => 2 \in 1 .. n) /\ a + 1 - 1 = a /\ a + 2 - 1 = a + 1
      OBVIOUS
    <2>. QED
      BY <2>2, <2>3, <2>4
  <1>6. words[a] \in 0 .. Word - 1 /\ (n = 2 => words[a + 1] \in 0 .. Word - 1)
    <2>1. PICK S : S = 0 .. Word - 1
      OBVIOUS
    <2>2. words \in Seq(S)
      BY <2>1
    <2>3. words[a] \in S /\ (n = 2 => words[a + 1] \in S)
      BY <1>4, <2>2
    <2>. QED
      BY <2>1, <2>3
  <1>. QED
    BY <1>1, <1>3, <1>5, <1>6

(* An entry shows its number. *)
LEMMA NumberShown ==
    ASSUME NEW p, stack \in Seq(0 .. Word - 1), Prints(p, stack)
    PROVE  ShowsNumber(p)
  <1>1. PICK w : /\ p.text = Text(p.directive, w)
                 /\ w[1] = stack[p.at] /\ stack[p.at] \in 0 .. Word - 1
                 /\ Width(p.directive) = 2
                      => w[2] = stack[p.at + 1] /\ stack[p.at + 1] \in 0 .. Word - 1
    BY WordsTaken
  <1>2. PICK x \in Nat : x = stack[p.at] /\ x \in 0 .. Word - 1 /\ w[1] = x
    BY <1>1, WordFacts
  <1>3. CASE p.directive = "u"
    <2>1. p.text = print_unum(x)
      BY <1>1, <1>2, <1>3, TextFacts
    <2>. QED
      BY <1>2, <1>3, <2>1, UnumFacts DEF ShowsNumber
  <1>4. CASE p.directive = "a"
    <2>1. Width(p.directive) = 2
      BY <1>4 DEF Width
    <2>2. PICK y \in Nat : y = stack[p.at + 1] /\ w[2] = y
      BY <1>1, <2>1, WordFacts
    <2>3. PICK z \in Nat : z = x + Word * y
      BY WordFacts
    <2>4. p.text = print_unum(z)
      BY <1>1, <1>2, <1>4, <2>2, <2>3, TextFacts
    <2>. QED
      BY <1>2, <1>4, <2>2, <2>3, <2>4, UnumFacts DEF ShowsNumber
  <1>5. CASE p.directive = "n"
    <2>1. p.text = print_inum(x)
      BY <1>1, <1>2, <1>5, TextFacts
    <2>2. IF Negative(x)
            THEN p.text[1] = "-" /\ Value(From(p, 2), 10) = Word - x
            ELSE p.text[1] # "-" /\ Value(p.text, 10) = x
      BY <1>2, <2>1, InumShown DEF From
    <2>3. -(Word - x) = x - Word
      BY WordFacts
    <2>. QED
      BY <1>2, <1>5, <2>2, <2>3 DEF ShowsNumber
  <1>6. CASE p.directive = "x"
    <2>1. p.text = print_hex(WordDigits, x)
      BY <1>1, <1>2, <1>6, TextFacts
    <2>2. Value(From(p, 2), HexBase) = x % Word
      BY <2>1, HexShown, WordFacts DEF From, Word
    <2>3. x % Word = x
      <3>1. PICK W \in Nat \ {0} : W = Word
        BY WordFacts
      <3>2. x < W
        BY <1>2, <3>1
      <3>. QED
        BY <3>1, <3>2, DivFacts
    <2>. QED
      BY <1>2, <1>6, <2>2, <2>3 DEF ShowsNumber
  <1>7. CASE p.directive = "X"
    <2>1. p.text = print_hex(HalfDigits, x)
      BY <1>1, <1>2, <1>7, TextFacts
    <2>2. Value(From(p, 2), HexBase) = x % Power(HexBase, HalfDigits)
      BY <2>1, HexShown, WordFacts DEF From
    <2>. QED
      BY <1>2, <1>7, <2>2 DEF ShowsNumber
  <1>8. CASE p.directive = "b"
    <2>1. p.text = print_bin_byte(x)
      BY <1>1, <1>2, <1>8, TextFacts
    <2>2. Value(From(p, 2), 2) = x % Byte
      BY <2>1, BinShown, WordFacts DEF From
    <2>. QED
      BY <1>2, <1>8, <2>2 DEF ShowsNumber
  <1>9. CASE p.directive \notin {"u", "a", "n", "x", "X", "b"}
    BY <1>9 DEF ShowsNumber
  <1>. QED
    BY <1>3, <1>4, <1>5, <1>6, <1>7, <1>8, <1>9

(* What is computed of the words of a double. *)
LEMMA DoubleFacts ==
    ASSUME NEW low \in 0 .. Word - 1, NEW high \in 0 .. Word - 1
    PROVE  LET value == Double(low, high)
               num == Float(low, high)
               P == Power(2, FloatBits)
           IN  /\ value \in Nat /\ Fine(DoubleBits, value % Unit)
               /\ num \in Nat /\ Fine(FloatBits, num % Unit)
               /\ (num - value) * P <= value /\ (value - num) * P <= value
               /\ Negative(high) \in BOOLEAN
  <1>1. PICK n \in Nat : n = low + Word * (high % (Word \div 2))
    <2>1. PICK H \in Nat \ {0}, W \in Nat : H = Word \div 2 /\ W = Word
      BY WordFacts
    <2>2. PICK a \in Nat, b \in Nat : a = low /\ b = high % H
      BY WordFacts, DivFacts
    <2>3. a + W * b \in Nat
      OBVIOUS
    <2>. QED
      BY <2>1, <2>2, <2>3
  <1>2. PICK v : v = Double(low, high)
    OBVIOUS
  <1>3. v = Rounded(DoubleBits)[n]
    BY <1>1, <1>2 DEF Double
  <1>4. v \in Nat /\ Fine(DoubleBits, v % Unit)
    BY <1>3, RoundingError, FineRest, WordFacts
  <1>5. PICK f : f = Float(low, high)
    OBVIOUS
  <1>6. f = Rounded(FloatBits)[v]
    BY <1>2, <1>5 DEF Float
  <1>7. /\ f \in Nat /\ Fine(FloatBits, f % Unit)
        /\ (f - v) * Power(2, FloatBits) <= v /\ (v - f) * Power(2, FloatBits) <= v
    BY <1>4, <1>6, RoundingError, FineRest, WordFacts
  <1>. QED
    BY <1>2, <1>4, <1>5, <1>7 DEF Negative

(* What fits into an i32 fits into a word. *)
LEMMA FitsWord ==
    ASSUME NEW negative \in BOOLEAN, NEW num \in Nat, InI32(negative, num)
    PROVE  num \div Unit < Word
  <1>1. num \div Unit \in Nat
    BY WordFacts, DivFacts
  <1>. QED
    BY <1>1, WordFacts DEF InI32

(* A float shows the double it was rounded from. *)
LEMMA FloatIsShown ==
    ASSUME NEW p, stack \in Seq(0 .. Word - 1), Prints(p, stack), p.directive \in Floats
    PROVE  ShowsDouble(p)
  <1>1. PICK w : /\ p.text = Text(p.directive, w)
                 /\ w[1] = stack[p.at] /\ stack[p.at] \in 0 .. Word - 1
                 /\ Width(p.directive) = 2
                      => w[2] = stack[p.at + 1] /\ stack[p.at + 1] \in 0 .. Word - 1
    BY WordsTaken
  <1>2. Width(p.directive) = 2
    BY DEF Width, Doubles
  <1>3. PICK low \in 0 .. Word - 1, high \in 0 .. Word - 1 :
          low = stack[p.at] /\ high = stack[p.at + 1] /\ low = w[1] /\ high = w[2]
    BY <1>1, <1>2
  <1>4. PICK value \in Nat, num \in Nat, negative \in BOOLEAN :
          value = Double(low, high) /\ num = Float(low, high) /\ negative = Negative(high)
    BY DoubleFacts
  <1>5. PICK P \in Nat \ {0}, U \in Nat \ {0} : P = Power(2, FloatBits) /\ U = Unit
    BY WordFacts, TwoFacts
  <1>6. /\ Fine(FloatBits, num % Unit)
        /\ (num - value) * P <= value /\ (value - num) * P <= value
    BY <1>4, <1>5, DoubleFacts
  <1>7. ASSUME InI32(negative, num)
        PROVE  \E n \in 1 .. Precision :
                 /\ p.text = print_decimals(FloatBits, negative, num, n)
                 /\ p.directive = "fixed" \/ n = Precision \/ Decimal(FloatBits, num, n + 1) = 0
    <2>1. CASE p.directive = "f"
      <3>1. p.text = print_f32(negative)[num]
        BY <1>1, <1>3, <1>4, <2>1, TextFacts
      <3>2. p.text = print_decimals(FloatBits, negative, num, Shown(FloatBits, num))
        BY <1>7, <3>1 DEF print_f32
      <3>. QED
        BY <3>2, ShownFacts
    <2>2. CASE p.directive = "fixed"
      <3>1. DecCount \in 1 .. Precision
        BY WordFacts
      <3>2. p.text = print_f32_fixed(negative, DecCount)[num]
        BY <1>1, <1>3, <1>4, <2>2, TextFacts
      <3>3. p.text = print_decimals(FloatBits, negative, num, DecCount)
        BY <1>7, <3>1, <3>2 DEF print_f32_fixed
      <3>. QED
        BY <2>2, <3>1, <3>3
    <2>. QED
      BY <2>1, <2>2 DEF Floats
  <1>8. ASSUME InI32(negative, num), NEW m \in 0 .. Len(DecimalsShown(p)), Power(10, m) <= P
        PROVE  LET ten == Power(10, m)
                   shown == ten * IntegerShown(p, negative)
                                + Value(SubSeq(DecimalsShown(p), 1, m), 10)
                   rest == (ten * value - shown * U) * P
                   rounded == ten * (m * U + value)
               IN  rest >= -rounded /\ rest < U * P + rounded
    <2>1. PICK n \in 1 .. Precision :
            /\ p.text = print_decimals(FloatBits, negative, num, n)
            /\ p.directive = "fixed" \/ n = Precision \/ Decimal(FloatBits, num, n + 1) = 0
      BY <1>7, <1>8
    <2>2. num \div Unit < Word /\ FloatBits \in Nat \ {0}
      BY <1>8, FitsWord, WordFacts
    <2>3. PICK ten, shown : /\ ten = Power(10, m)
                            /\ shown = ten * IntegerShown(p, negative)
                                         + Value(SubSeq(DecimalsShown(p), 1, m), 10)
      OBVIOUS
    <2>4. /\ m \in Nat /\ shown \in Nat
          /\ (ten * num - shown * U) * P >= -(ten * (m * U))
          /\ (ten * num - shown * U) * P < U * P + ten * (m * U)
      BY <1>5, <1>6, <1>8, <2>1, <2>2, <2>3, NumberWithDecimals
    <2>5. ten \in Nat
      BY <2>3, <2>4, PowerFacts
    <2>6. PICK x \in Int, y \in Int : x = (ten * num - shown * U) * P /\ y = (value - num) * P
      BY <2>4, <2>5
    <2>7. (ten * value - shown * U) * P = x + ten * y
      BY <2>4, <2>5, <2>6
    <2>8. -y <= value /\ y <= value
      <3>1. (num - value) * P = -y
        BY <2>6
      <3>. QED
        BY <1>6, <2>6, <3>1
    <2>9. ten * y <= ten * value /\ -(ten * y) <= ten * value /\ ten * y \in Int
      <3>1. PICK a \in Nat, b \in Nat : value = y + a /\ value = -y + b
        <4>1. value - y \in Nat /\ value + y \in Nat /\ value = y + (value - y) /\ value = -y + (value + y)
          BY <2>8
        <4>. QED
          BY <4>1
      <3>2. ten * value = ten * y + ten * a /\ ten * value = -(ten * y) + ten * b
        BY <2>5, <3>1
      <3>3. ten * a \in Nat /\ ten * b \in Nat /\ ten * y \in Int
        BY <2>5
      <3>. QED
        BY <3>2, <3>3
    <2>10. PICK z \in Nat, k \in Nat, v \in Nat, r \in Nat :
             z = ten * (m * U) /\ k = U * P /\ v = ten * value /\ r = ten * (m * U + value)
      BY <2>4, <2>5
    <2>11. r = z + v
      BY <2>4, <2>5, <2>10
    <2>12. x >= -z /\ x < k + z
      BY <2>4, <2>6, <2>10
    <2>13. x + ten * y >= -r /\ x + ten * y < k + r
      <3>1. PICK a \in Int : a = ten * y /\ a <= v /\ -a <= v
        BY <2>9, <2>10
      <3>2. x + a >= -r /\ x + a < k + r
        BY <2>11, <2>12, <3>1
      <3>. QED
        BY <3>1, <3>2
    <2>. QED
      BY <2>3, <2>7, <2>10, <2>13
  <1>. QED
    BY <1>3, <1>4, <1>5, <1>8 DEF ShowsDouble

(* And so does each of the directives with a double. *)
LEMMA DoubleIsShown ==
    ASSUME NEW p, stack \in Seq(0 .. Word - 1), Prints(p, stack), p.directive \in Doubles
    PROVE  ShowsDouble(p)
  <1>1. CASE p.directive \in Floats
    BY <1>1, FloatIsShown
  <1>2. CASE p.directive \notin Floats
    <2>1. p.directive = "d" /\ Width(p.directive) = 2
      BY <1>2 DEF Doubles, Width
    <2>2. PICK w : /\ p.text = Text(p.directive, w)
                   /\ w[1] = stack[p.at] /\ stack[p.at] \in 0 .. Word - 1
                   /\ w[2] = stack[p.at + 1] /\ stack[p.at + 1] \in 0 .. Word - 1
      BY <2>1, WordsTaken
    <2>3. PICK low \in 0 .. Word - 1, high \in 0 .. Word - 1 :
            low = stack[p.at] /\ high = stack[p.at + 1] /\ low = w[1] /\ high = w[2]
      BY <2>2
    <2>4. PICK value \in Nat, negative \in BOOLEAN :
            value = Double(low, high) /\ negative = Negative(high)
      BY DoubleFacts
    <2>5. PICK P \in Nat \ {0}, U \in Nat \ {0} : P = Power(2, DoubleBits) /\ U = Unit
      BY WordFacts, TwoFacts
    <2>6. Fine(DoubleBits, value % Unit) /\ DoubleBits \in Nat \ {0}
      BY <2>4, DoubleFacts, WordFacts
    <2>7. p.text = print_f64(negative)[value]
      BY <2>1, <2>2, <2>3, <2>4, TextFacts
    <2>8. PICK n \in 1 .. Precision : n = Shown(DoubleBits, value)
      BY ShownFacts
    <2>9. /\ p.text = print_decimals(DoubleBits, negative, value, n)
          /\ n = Precision \/ Decimal(DoubleBits, value, n + 1) = 0
      BY <2>7, <2>8, ShownFacts DEF print_f64
    <2>10. ASSUME value \div Unit < Word, NEW m \in 0 .. Len(DecimalsShown(p)), Power(10, m) <= P
           PROVE  LET ten == Power(10, m)
                      shown == ten * IntegerShown(p, negative)
                                   + Value(SubSeq(DecimalsShown(p), 1, m), 10)
                      rest == (ten * value - shown * U) * P
                      rounded == ten * (m * U + 0)
                  IN  rest >= -rounded /\ rest < U * P + rounded
      <3>1. /\ m \in Nat
            /\ LET ten == Power(10, m)
                   shown == ten * IntegerShown(p, negative)
                                + Value(SubSeq(DecimalsShown(p), 1, m), 10)
                   rest == (ten * value - shown * U) * P
                   rounded == ten * (m * U)
               IN  rest >= -rounded /\ rest < U * P + rounded
        BY <2>5, <2>6, <2>9, <2>10, NumberWithDecimals
      <3>2. m * U + 0 = m * U
        BY <3>1
      <3>. QED
        BY <3>1, <3>2
    <2>. QED
      BY <1>2, <2>3, <2>4, <2>5, <2>10 DEF ShowsDouble
  <1>. QED
    BY <1>1, <1>2

-----------------------------------------------------------------------------
(* The pieces of a format. *)

(* A function that does not fall from one number to the next rises. *)
LEMMA Rising ==
    ASSUME NEW m \in Nat, NEW h \in [0 .. m -> Int],
           \A k \in 1 .. m : h[k - 1] <= h[k]
    PROVE  \A a, b \in 0 .. m : a <= b => h[a] <= h[b]
  <1>. DEFINE Bad == {b \in 0 .. m : \E a \in 0 .. b : ~(h[a] <= h[b])}
  <1>1. ASSUME Bad # {}
        PROVE  FALSE
    <2>1. PICK b \in Bad : \A c \in Bad : b <= c
      <3>1. Bad \in SUBSET Nat
        OBVIOUS
      <3>. HIDE DEF Bad
      <3>. QED
        BY <1>1, <3>1, LeastExists
    <2>2. b \in 0 .. m
      BY <2>1
    <2>3. PICK a \in 0 .. b : ~(h[a] <= h[b])
      BY <2>1
    <2>4. a # b
      BY <2>2, <2>3
    <2>5. b - 1 \in 0 .. m /\ b \in 1 .. m /\ a \in 0 .. b - 1 /\ ~(b <= b - 1)
      BY <2>2, <2>3, <2>4
    <2>6. b - 1 \notin Bad
      BY <2>1, <2>5
    <2>7. h[a] <= h[b - 1] /\ h[b - 1] <= h[b]
      BY <2>5, <2>6
    <2>8. h[a] \in Int /\ h[b - 1] \in Int /\ h[b] \in Int
      BY <2>2, <2>3, <2>5
    <2>. QED
      BY <2>3, <2>7, <2>8
  <1>2. ASSUME NEW a \in 0 .. m, NEW b \in 0 .. m, a <= b
        PROVE  h[a] <= h[b]
    <2>1. a \in 0 .. b
      BY <1>2
    <2>2. Bad = {}
      <3>. HIDE DEF Bad
      <3>. QED
        BY <1>1
    <2>. QED
      BY <2>1, <2>2
  <1>. QED
    BY <1>2

(* What a total is. *)
LEMMA TotalFacts ==
    ASSUME NEW m \in Nat, NEW w \in [1 .. m -> Nat]
    PROVE  /\ Total(w, 0) = 0
           /\ \A n \in 0 .. m : Total(w, n) \in Nat
           /\ \A n \in 1 .. m : Total(w, n) = Total(w, n - 1) + w[n]
  <1>. DEFINE G == [k \in 1 .. m |-> [v \in Nat |-> v + w[k]]]
  <1>1. G \in [1 .. m -> [Nat -> Nat]]
    OBVIOUS
  <1>2. PICK h \in [0 .. m -> Nat] : Follows(h, 0, G, m)
    <2>1. 0 \in Nat
      OBVIOUS
    <2>. HIDE DEF G
    <2>. QED
      BY <1>1, <2>1, Recursion
  <1>3. h[0] = 0 /\ \A k \in 1 .. m : h[k] = h[k - 1] + w[k]
    <2>1. ASSUME NEW k \in 1 .. m
          PROVE  G[k][h[k - 1]] = h[k - 1] + w[k]
      <3>1. h[k - 1] \in Nat
        BY <1>2
      <3>. QED
        BY <3>1
    <2>. HIDE DEF G
    <2>. QED
      BY <1>2, <2>1 DEF Follows
  <1>4. ASSUME NEW n \in 0 .. m
        PROVE  Total(w, n) = h[n]
    <2>. DEFINE Expand(f) == [k \in 0 .. n |-> IF k = 0 THEN 0 ELSE f[k - 1] + w[k]]
    <2>1. PICK r : r = [k \in 0 .. n |-> h[k]]
      OBVIOUS
    <2>2. r = Expand(r)
      BY <1>3, <2>1
    <2>3. PICK f : f = CHOOSE g : g = Expand(g)
      OBVIOUS
    <2>4. f = Expand(f)
      <3>. HIDE DEF Expand
      <3>. QED
        BY <2>2, <2>3
    <2>5. Total(w, n) = f[n]
      BY <2>3 DEF Total
    <2>6. \A k \in 0 .. n : f[k] = IF k = 0 THEN 0 ELSE f[k - 1] + w[k]
      BY <2>4
    <2>7. Alike(f, h, n)
      BY <1>3, <2>6 DEF Alike
    <2>. QED
      BY <2>5, <2>7, Agree
  <1>. QED
    BY <1>2, <1>3, <1>4

(* What joined pieces are. *)
LEMMA JoinedFunction ==
    ASSUME NEW m \in Nat, NEW S, NEW f, \A k \in 1 .. m : f[k].chars \in Seq(S)
    PROVE  /\ Joined(f, 0) = <<>>
           /\ \A n \in 0 .. m : Joined(f, n) \in Seq(S)
           /\ \A n \in 1 .. m : Joined(f, n) = Joined(f, n - 1) \o f[n].chars
  <1>. DEFINE More(v, k) == v \o f[k].chars
              T == Seq(S)
              G == [k \in 1 .. m |-> [v \in T |-> More(v, k)]]
  <1>1. \A k \in 1 .. m : \A v \in T : More(v, k) \in T
    OBVIOUS
  <1>2. PICK e : e = <<>>
    OBVIOUS
  <1>3. e \in T
    BY <1>2
  <1>4. ASSUME NEW n \in 0 .. m
        PROVE  Joined(f, n) =
                 (CHOOSE j : j = [k \in 0 .. n |-> IF k = 0 THEN e ELSE More(j[k - 1], k)])[n]
    BY <1>2 DEF Joined
  <1>. HIDE DEF More, T
  <1>5. G \in [1 .. m -> [T -> T]]
    BY <1>1
  <1>6. PICK h \in [0 .. m -> T] : Follows(h, e, G, m)
    <2>. HIDE DEF G
    <2>. QED
      BY <1>3, <1>5, Recursion
  <1>7. h[0] = e /\ \A k \in 1 .. m : h[k] = More(h[k - 1], k)
    <2>1. ASSUME NEW k \in 1 .. m
          PROVE  G[k][h[k - 1]] = More(h[k - 1], k)
      <3>1. h[k - 1] \in T
        BY <1>6
      <3>. QED
        BY <3>1
    <2>. HIDE DEF G
    <2>. QED
      BY <1>6, <2>1 DEF Follows
  <1>8. ASSUME NEW n \in 0 .. m
        PROVE  Joined(f, n) = h[n]
    <2>. DEFINE Expand(j) == [k \in 0 .. n |-> IF k = 0 THEN e ELSE More(j[k - 1], k)]
    <2>1. PICK r : r = [k \in 0 .. n |-> h[k]]
      OBVIOUS
    <2>2. r = Expand(r)
      BY <1>7, <2>1
    <2>3. PICK j : j = CHOOSE g : g = Expand(g)
      OBVIOUS
    <2>4. j = Expand(j)
      <3>. HIDE DEF Expand
      <3>. QED
        BY <2>2, <2>3
    <2>5. Joined(f, n) = j[n]
      BY <1>4, <2>3, Zenon
    <2>6. \A k \in 0 .. n : j[k] = IF k = 0 THEN e ELSE More(j[k - 1], k)
      BY <2>4
    <2>7. Alike(j, h, n)
      BY <1>7, <2>6 DEF Alike
    <2>. QED
      BY <2>5, <2>7, Agree
  <1>9. /\ Joined(f, 0) = e
        /\ \A n \in 0 .. m : Joined(f, n) \in T
        /\ \A n \in 1 .. m : Joined(f, n) = More(Joined(f, n - 1), n)
    BY <1>6, <1>7, <1>8
  <1>. QED
    BY <1>2, <1>9 DEF More, T

Forms == Seq([chars : Seq(Alphabet), words : Nat])

(* The parts of a format. *)
LEMMA FormFacts ==
    ASSUME NEW f \in Forms
    PROVE  /\ Len(f) \in Nat /\ DOMAIN f = 1 .. Len(f)
           /\ \A k \in 1 .. Len(f) : /\ f[k].chars \in Seq(Alphabet)
                                     /\ Len(f[k].chars) \in Nat
                                     /\ f[k].words \in Nat
  <1>. DEFINE S == [chars : Seq(Alphabet), words : Nat]
  <1>1. f \in Seq(S)
    BY DEF Forms
  <1>2. \A p \in S : p.chars \in Seq(Alphabet) /\ p.words \in Nat
    OBVIOUS
  <1>. HIDE DEF S
  <1>3. Len(f) \in Nat /\ DOMAIN f = 1 .. Len(f) /\ \A k \in 1 .. Len(f) : f[k] \in S
    BY <1>1
  <1>4. \A k \in 1 .. Len(f) : f[k].chars \in Seq(Alphabet) /\ f[k].words \in Nat
    BY <1>2, <1>3
  <1>5. \A k \in 1 .. Len(f) : Len(f[k].chars) \in Nat
    BY <1>4
  <1>. QED
    BY <1>3, <1>4, <1>5

(* Pieces follow each other. *)
LEMMA StartFacts ==
    ASSUME NEW f \in Forms
    PROVE  /\ \A k \in 1 .. Len(f) + 1 : Start(f, k) \in Nat \ {0}
           /\ Start(f, 1) = 1
           /\ \A k \in 1 .. Len(f) : Start(f, k + 1) = Start(f, k) + Len(f[k].chars)
           /\ Start(f, Len(f) + 1) = Len(Joined(f, Len(f))) + 1
           /\ Joined(f, Len(f)) \in Seq(Alphabet)
  <1>1. PICK m \in Nat, S \in {Alphabet} : m = Len(f)
    BY FormFacts
  <1>2. \A k \in 1 .. m : f[k].chars \in Seq(S)
    BY <1>1, FormFacts
  <1>3. /\ Joined(f, 0) = <<>>
        /\ \A n \in 0 .. m : Joined(f, n) \in Seq(S)
        /\ \A n \in 1 .. m : Joined(f, n) = Joined(f, n - 1) \o f[n].chars
    BY <1>2, JoinedFunction
  <1>4. ASSUME NEW k \in 1 .. m + 1
        PROVE  Start(f, k) \in Nat \ {0} /\ Start(f, k) = Len(Joined(f, k - 1)) + 1
    <2>1. k - 1 \in 0 .. m
      OBVIOUS
    <2>2. Len(Joined(f, k - 1)) \in Nat
      BY <1>3, <2>1
    <2>. QED
      BY <2>2 DEF Start
  <1>5. Start(f, 1) = 1
    <2>1. 1 - 1 = 0 /\ Len(Joined(f, 0)) = 0
      BY <1>3
    <2>. QED
      BY <2>1 DEF Start
  <1>6. ASSUME NEW k \in 1 .. m
        PROVE  Start(f, k + 1) = Start(f, k) + Len(f[k].chars)
    <2>1. k - 1 \in 0 .. m /\ k \in 0 .. m /\ (k + 1) - 1 = k /\ k + 1 \in 1 .. m + 1 /\ k \in 1 .. m + 1
      OBVIOUS
    <2>2. PICK u \in Seq(S), v \in Seq(S) : u = Joined(f, k - 1) /\ v = f[k].chars
      BY <1>2, <1>3, <2>1
    <2>3. Joined(f, k) = u \o v
      BY <1>3, <2>2
    <2>4. PICK a \in Nat, b \in Nat : a = Len(u) /\ b = Len(v) /\ Len(u \o v) = a + b
      OBVIOUS
    <2>5. Start(f, k + 1) = Len(Joined(f, k)) + 1 /\ Start(f, k) = Len(u) + 1
      BY <1>4, <2>1, <2>2
    <2>6. Start(f, k + 1) = a + b + 1 /\ Start(f, k) = a + 1 /\ Len(f[k].chars) = b
      BY <2>2, <2>3, <2>4, <2>5
    <2>7. a + b + 1 = a + 1 + b
      OBVIOUS
    <2>. QED
      BY <2>6, <2>7
  <1>7. Start(f, m + 1) = Len(Joined(f, m)) + 1
    <2>1. m + 1 \in 1 .. m + 1 /\ (m + 1) - 1 = m
      OBVIOUS
    <2>. QED
      BY <1>4, <2>1
  <1>8. Joined(f, m) \in Seq(S)
    BY <1>3
  <1>. QED
    BY <1>1, <1>4, <1>5, <1>6, <1>7, <1>8

(* Pieces begin in their order. *)
LEMMA StartsRise ==
    ASSUME NEW f \in Forms
    PROVE  \A a, b \in 1 .. Len(f) + 1 : a <= b => Start(f, a) <= Start(f, b)
  <1>1. PICK m \in Nat : m = Len(f)
    BY FormFacts
  <1>2. PICK h : h = [k \in 0 .. m |-> Start(f, k + 1)]
    OBVIOUS
  <1>3. h \in [0 .. m -> Int]
    BY <1>1, <1>2, StartFacts
  <1>4. ASSUME NEW k \in 1 .. m
        PROVE  h[k - 1] <= h[k]
    <2>1. k - 1 \in 0 .. m /\ k \in 0 .. m /\ (k - 1) + 1 = k /\ k \in 1 .. m + 1
      OBVIOUS
    <2>2. h[k - 1] = Start(f, k) /\ h[k] = Start(f, k + 1)
      BY <1>2, <2>1
    <2>3. Start(f, k + 1) = Start(f, k) + Len(f[k].chars) /\ Start(f, k) \in Nat
      BY <1>1, <2>1, StartFacts
    <2>4. Len(f[k].chars) \in Nat
      BY <1>1, FormFacts
    <2>. QED
      BY <2>2, <2>3, <2>4
  <1>5. \A a, b \in 0 .. m : a <= b => h[a] <= h[b]
    BY <1>3, <1>4, Rising
  <1>6. ASSUME NEW a \in 1 .. m + 1, NEW b \in 1 .. m + 1, a <= b
        PROVE  Start(f, a) <= Start(f, b)
    <2>1. /\ a - 1 \in 0 .. m /\ b - 1 \in 0 .. m /\ a - 1 <= b - 1
          /\ (a - 1) + 1 = a /\ (b - 1) + 1 = b
      BY <1>6
    <2>. QED
      BY <1>2, <1>5, <2>1
  <1>. QED
    BY <1>1, <1>6

(* The characters of a piece are found behind its start. *)
LEMMA CharsFound ==
    ASSUME NEW f \in Forms, NEW k \in 1 .. Len(f), NEW j \in 1 .. Len(f[k].chars)
    PROVE  Joined(f, Len(f))[Start(f, k) + j - 1] = f[k].chars[j]
  <1>1. PICK m \in Nat, S \in {Alphabet} : m = Len(f)
    BY FormFacts
  <1>2. \A n \in 1 .. m : f[n].chars \in Seq(S)
    BY <1>1, FormFacts
  <1>3. /\ \A n \in 0 .. m : Joined(f, n) \in Seq(S)
        /\ \A n \in 1 .. m : Joined(f, n) = Joined(f, n - 1) \o f[n].chars
    BY <1>2, JoinedFunction
  <1>4. \A n \in 1 .. m : Start(f, n) = Len(Joined(f, n - 1)) + 1
    BY DEF Start
  <1>5. PICK x \in Nat : x = Start(f, k) + j - 1
    <2>1. Len(f) \in Nat /\ k \in 1 .. Len(f) + 1 /\ Len(f[k].chars) \in Nat
      BY FormFacts
    <2>2. Start(f, k) \in Nat
      BY <2>1, StartFacts
    <2>3. j \in Nat \ {0}
      BY <2>1
    <2>. QED
      BY <2>2, <2>3
  <1>. DEFINE Bad == {n \in k .. m : Joined(f, n)[x] # f[k].chars[j]}
  <1>6. k \notin Bad
    <2>1. PICK u \in Seq(S), v \in Seq(S) : u = Joined(f, k - 1) /\ v = f[k].chars
      BY <1>1, <1>2, <1>3
    <2>2. Joined(f, k) = u \o v /\ Start(f, k) = Len(u) + 1
      BY <1>1, <1>3, <1>4, <2>1
    <2>3. Len(u) \in Nat /\ Len(v) \in Nat /\ j \in 1 .. Len(v)
      BY <2>1
    <2>4. x = Len(u) + j
      BY <1>5, <2>2, <2>3
    <2>5. (u \o v)[Len(u) + j] = v[j]
      BY <2>3
    <2>. QED
      BY <2>1, <2>2, <2>4, <2>5
  <1>7. ASSUME Bad # {}
        PROVE  FALSE
    <2>1. PICK n \in Bad : \A b \in Bad : n <= b
      <3>1. Bad \in SUBSET Nat
        BY <1>1
      <3>. HIDE DEF Bad
      <3>. QED
        BY <1>7, <3>1, LeastExists
    <2>2. n \in k .. m /\ Joined(f, n)[x] # f[k].chars[j] /\ n # k
      BY <1>6, <2>1
    <2>3. n - 1 \in k .. m /\ ~(n <= n - 1) /\ n \in 1 .. m /\ n - 1 \in 0 .. m
      BY <1>1, <2>2
    <2>4. Joined(f, n - 1)[x] = f[k].chars[j]
      BY <2>1, <2>3
    <2>5. PICK u \in Seq(S), v \in Seq(S) : u = Joined(f, n - 1) /\ v = f[n].chars
      BY <1>2, <1>3, <2>3
    <2>6. Joined(f, n) = u \o v /\ Start(f, n) = Len(u) + 1
      BY <1>3, <1>4, <2>3, <2>5
    <2>7. x \in 1 .. Len(u)
      <3>1. k + 1 \in 1 .. m + 1 /\ n \in 1 .. m + 1 /\ k + 1 <= n /\ k \in 1 .. m + 1
        BY <1>1, <2>2, <2>3
      <3>2. Start(f, k + 1) <= Start(f, n)
        BY <1>1, <3>1, StartsRise
      <3>3. Start(f, k + 1) = Start(f, k) + Len(f[k].chars) /\ Start(f, k) \in Nat \ {0}
        BY <1>1, <3>1, StartFacts
      <3>4. PICK a \in Nat, b \in Nat, c \in Nat \ {0} :
              a = Len(f[k].chars) /\ b = Len(u) /\ c = Start(f, k)
        BY <3>3, FormFacts
      <3>5. j \in 1 .. a /\ x = c + j - 1 /\ c + a <= b + 1
        BY <1>5, <2>6, <3>2, <3>3, <3>4
      <3>6. x \in 1 .. b
        BY <3>5
      <3>. QED
        BY <3>4, <3>6
    <2>8. (u \o v)[x] = u[x]
      BY <2>7
    <2>. QED
      BY <2>2, <2>4, <2>5, <2>6, <2>8
  <1>8. m \in k .. m
    BY <1>1
  <1>9. Bad = {}
    <2>. HIDE DEF Bad
    <2>. QED
      BY <1>7
  <1>. QED
    BY <1>1, <1>5, <1>8, <1>9

(* The words printf takes for the pieces before one. *)
Taken(f, k) == Words(f, k) - Skipped(f, k)
TakenOf(piece) == IF Known(piece) THEN piece.words ELSE 0

(* The words passed for the pieces before one, and those skipped of them. *)
LEMMA WordsFacts ==
    ASSUME NEW f \in Forms
    PROVE  /\ Words(f, 1) = 0
           /\ \A k \in 1 .. Len(f) + 1 : Words(f, k) \in Nat
           /\ \A k \in 1 .. Len(f) : Words(f, k + 1) = Words(f, k) + f[k].words
  <1>1. PICK m \in Nat, w \in {[j \in DOMAIN f |-> f[j].words]} : m = Len(f)
    BY FormFacts
  <1>2. w \in [1 .. m -> Nat]
    BY <1>1, FormFacts
  <1>3. /\ Total(w, 0) = 0
        /\ \A n \in 0 .. m : Total(w, n) \in Nat
        /\ \A n \in 1 .. m : Total(w, n) = Total(w, n - 1) + w[n]
    BY <1>2, TotalFacts
  <1>4. \A k \in 1 .. m + 1 : Words(f, k) = Total(w, k - 1) /\ k - 1 \in 0 .. m
    BY <1>1 DEF Words
  <1>5. \A k \in 1 .. m : Words(f, k + 1) = Total(w, k) /\ w[k] = f[k].words
    <2>1. ASSUME NEW k \in 1 .. m
          PROVE  Words(f, k + 1) = Total(w, k) /\ w[k] = f[k].words
      <3>1. k + 1 \in 1 .. m + 1 /\ (k + 1) - 1 = k
        OBVIOUS
      <3>. QED
        BY <1>1, <1>4, <3>1, FormFacts
    <2>. QED
      BY <2>1
  <1>6. Words(f, 1) = 0
    <2>1. 1 \in 1 .. m + 1 /\ 1 - 1 = 0
      OBVIOUS
    <2>. QED
      BY <1>3, <1>4, <2>1
  <1>7. \A k \in 1 .. m : k \in 1 .. m + 1
    OBVIOUS
  <1>. QED
    BY <1>1, <1>3, <1>4, <1>5, <1>6, <1>7

(* Those skipped, piece by piece. *)
LEMMA SkippedFacts ==
    ASSUME NEW f \in Forms
    PROVE  /\ Skipped(f, 1) = 0
           /\ \A k \in 1 .. Len(f) + 1 : Skipped(f, k) \in Nat
           /\ \A k \in 1 .. Len(f) :
                Skipped(f, k + 1) = Skipped(f, k) + (IF Known(f[k]) THEN 0 ELSE f[k].words)
  <1>1. PICK m \in Nat, w \in {[j \in DOMAIN f |-> IF Known(f[j]) THEN 0 ELSE f[j].words]} :
          m = Len(f)
    BY FormFacts
  <1>2. w \in [1 .. m -> Nat]
    BY <1>1, FormFacts
  <1>3. /\ Total(w, 0) = 0
        /\ \A n \in 0 .. m : Total(w, n) \in Nat
        /\ \A n \in 1 .. m : Total(w, n) = Total(w, n - 1) + w[n]
    BY <1>2, TotalFacts
  <1>4. \A k \in 1 .. m + 1 : Skipped(f, k) = Total(w, k - 1) /\ k - 1 \in 0 .. m
    BY <1>1 DEF Skipped
  <1>5. \A k \in 1 .. m : /\ Skipped(f, k + 1) = Total(w, k)
                          /\ w[k] = IF Known(f[k]) THEN 0 ELSE f[k].words
    <2>1. ASSUME NEW k \in 1 .. m
          PROVE  Skipped(f, k + 1) = Total(w, k) /\ w[k] = IF Known(f[k]) THEN 0 ELSE f[k].words
      <3>1. k + 1 \in 1 .. m + 1 /\ (k + 1) - 1 = k
        OBVIOUS
      <3>. QED
        BY <1>1, <1>4, <3>1, FormFacts
    <2>. QED
      BY <2>1
  <1>6. Skipped(f, 1) = 0
    <2>1. 1 \in 1 .. m + 1 /\ 1 - 1 = 0
      OBVIOUS
    <2>. QED
      BY <1>3, <1>4, <2>1
  <1>7. \A k \in 1 .. m : k \in 1 .. m + 1
    OBVIOUS
  <1>. QED
    BY <1>1, <1>3, <1>4, <1>5, <1>6, <1>7

(* The words taken, never more than were passed. *)
LEMMA TakenFacts ==
    ASSUME NEW f \in Forms
    PROVE  /\ Taken(f, 1) = 0
           /\ \A k \in 1 .. Len(f) + 1 : Taken(f, k) \in Nat /\ Taken(f, k) <= Words(f, Len(f) + 1)
           /\ \A k \in 1 .. Len(f) : Taken(f, k + 1) = Taken(f, k) + TakenOf(f[k])
  <1>1. PICK m \in Nat : m = Len(f)
    BY FormFacts
  <1>2. PICK h, g : /\ h = [k \in 0 .. m |-> Words(f, k + 1)]
                    /\ g = [k \in 0 .. m |-> Taken(f, k + 1)]
    OBVIOUS
  <1>3. \A k \in 1 .. m + 1 : Words(f, k) \in Nat /\ Skipped(f, k) \in Nat
    BY <1>1, WordsFacts, SkippedFacts
  <1>4. \A k \in 0 .. m : k + 1 \in 1 .. m + 1
    OBVIOUS
  <1>5. h \in [0 .. m -> Int] /\ g \in [0 .. m -> Int]
    BY <1>2, <1>3, <1>4 DEF Taken
  <1>6. ASSUME NEW k \in 1 .. m
        PROVE  /\ Taken(f, k + 1) = Taken(f, k) + TakenOf(f[k])
               /\ Words(f, k + 1) = Words(f, k) + f[k].words
               /\ f[k].words \in Nat /\ TakenOf(f[k]) \in Nat
    <2>1. k \in 1 .. m + 1
      OBVIOUS
    <2>2. /\ Words(f, k + 1) = Words(f, k) + f[k].words
          /\ Skipped(f, k + 1) = Skipped(f, k) + (IF Known(f[k]) THEN 0 ELSE f[k].words)
          /\ f[k].words \in Nat
      BY <1>1, WordsFacts, SkippedFacts, FormFacts
    <2>3. Words(f, k) \in Nat /\ Skipped(f, k) \in Nat
      BY <1>3, <2>1
    <2>. QED
      BY <2>2, <2>3 DEF Taken, TakenOf
  <1>7. ASSUME NEW k \in 1 .. m
        PROVE  h[k - 1] <= h[k] /\ g[k - 1] <= g[k]
    <2>1. k - 1 \in 0 .. m /\ k \in 0 .. m /\ (k - 1) + 1 = k /\ k \in 1 .. m + 1
      OBVIOUS
    <2>2. /\ h[k - 1] = Words(f, k) /\ h[k] = Words(f, k + 1)
          /\ g[k - 1] = Taken(f, k) /\ g[k] = Taken(f, k + 1)
      BY <1>2, <2>1
    <2>3. Words(f, k) \in Nat /\ Taken(f, k) \in Int
      BY <1>3, <2>1 DEF Taken
    <2>. QED
      BY <1>6, <2>2, <2>3
  <1>8. (\A a, b \in 0 .. m : a <= b => h[a] <= h[b]) /\ (\A a, b \in 0 .. m : a <= b => g[a] <= g[b])
    BY <1>5, <1>7, Rising
  <1>9. Taken(f, 1) = 0
    BY WordsFacts, SkippedFacts DEF Taken
  <1>10. ASSUME NEW k \in 1 .. m + 1
         PROVE  Taken(f, k) \in Nat /\ Taken(f, k) <= Words(f, m + 1)
    <2>1. /\ k - 1 \in 0 .. m /\ 0 \in 0 .. m /\ m \in 0 .. m /\ 0 <= k - 1 /\ k - 1 <= m
          /\ (k - 1) + 1 = k /\ 0 + 1 = 1 /\ m + 1 \in 1 .. m + 1
      OBVIOUS
    <2>2. g[0] <= g[k - 1] /\ h[k - 1] <= h[m]
      BY <1>8, <2>1
    <2>3. g[0] = 0 /\ g[k - 1] = Taken(f, k) /\ h[k - 1] = Words(f, k) /\ h[m] = Words(f, m + 1)
      BY <1>2, <1>9, <2>1
    <2>4. Words(f, k) \in Nat /\ Skipped(f, k) \in Nat /\ Words(f, m + 1) \in Nat
      BY <1>3, <2>1
    <2>. QED
      BY <2>2, <2>3, <2>4 DEF Taken
  <1>. QED
    BY <1>1, <1>6, <1>9, <1>10

(* Where in a format printf can be: at the start of a piece, or behind what *)
(* it has printed of a piece that it prints as it stands.                   *)
Inside(f, k, x) ==
    /\ k \in 1 .. Len(f) /\ ~Known(f[k])
    /\ x \in Start(f, k) + 1 .. Start(f, k) + Len(f[k].chars) - 1
    /\ f[k].chars[1] = "%" => x > Start(f, k) + 1

Place(f, k, x) == /\ k \in 1 .. Len(f) + 1
                  /\ x = Start(f, k) \/ Inside(f, k, x)

(* A sequence of one. *)
LEMMA Single ==
    ASSUME NEW S, NEW c \in Seq(S), Len(c) = 1
    PROVE  c = <<c[1]>>
  <1>1. PICK o \in S : o = c[1]
    OBVIOUS
  <1>2. PICK e : e = <<o>>
    OBVIOUS
  <1>3. e \in Seq(S) /\ Len(e) = 1 /\ e[1] = o
    BY <1>2
  <1>4. \A j \in 1 .. Len(c) : c[j] = e[j]
    BY <1>1, <1>3
  <1>. QED
    BY <1>1, <1>2, <1>3, <1>4, SeqEqual

(* Piece k of a format f whose characters are t: it starts at s and has n  *)
(* characters c.                                                           *)
PieceAt(f, t, k, s, n, c) ==
    /\ s = Start(f, k) /\ c = f[k].chars /\ n = Len(c)
    /\ s + n = Start(f, k + 1) /\ s + n <= Len(t) + 1
    /\ \A j \in 1 .. n : t[s + j - 1] = c[j]
    /\ \A j \in 2 .. n : c[j] = "%" => j = 2 /\ c[1] = "%"
    /\ n = 1 /\ c[1] = "%" => k = Len(f)
    /\ n > 1 /\ c[1] = "%" /\ c[2] \in Directives
         => Known(f[k]) /\ f[k].words = Width(c[2])
    /\ Known(f[k]) <=> c[1] = "%" /\ n = 2 /\ c[2] \in Directives

(* Each piece is at its place in the format. *)
LEMMA PieceFacts ==
    ASSUME NEW f \in Forms, WellFormed(f), NEW k \in 1 .. Len(f),
           NEW t, t = Joined(f, Len(f))
    PROVE  \E s \in Nat \ {0}, n \in Nat \ {0}, c \in Seq(Alphabet) : PieceAt(f, t, k, s, n, c)
  <1>1. Len(f) \in Nat /\ k \in DOMAIN f /\ f[k].chars \in Seq(Alphabet)
    BY FormFacts
  <1>2. PICK c \in Seq(Alphabet) : c = f[k].chars
    BY <1>1
  <1>3. /\ c # <<>>
        /\ \A j \in 2 .. Len(c) : c[j] = "%" => j = 2 /\ c[1] = "%"
        /\ c = <<"%">> => k = Len(f)
        /\ Len(c) > 1 /\ c[1] = "%" /\ c[2] \in Directives
             => Known(f[k]) /\ f[k].words = Width(c[2])
    BY <1>1, <1>2 DEF WellFormed
  <1>4. PICK n \in Nat \ {0} : n = Len(c)
    BY <1>3
  <1>5. ASSUME n = 1, c[1] = "%"
        PROVE  k = Len(f)
    <2>1. c = <<c[1]>>
      BY <1>4, <1>5, Single
    <2>. QED
      BY <1>3, <1>5, <2>1
  <1>6. /\ k \in 1 .. Len(f) + 1 /\ k + 1 \in 1 .. Len(f) + 1 /\ Len(f) + 1 \in 1 .. Len(f) + 1
        /\ k + 1 <= Len(f) + 1
    BY <1>1
  <1>7. PICK s \in Nat \ {0} : s = Start(f, k)
    BY <1>6, StartFacts
  <1>8. Start(f, k + 1) = s + n
    BY <1>2, <1>4, <1>7, StartFacts
  <1>9. s + n <= Len(t) + 1
    BY <1>6, <1>8, StartsRise, StartFacts
  <1>10. \A j \in 1 .. n : t[s + j - 1] = c[j]
    BY <1>2, <1>4, <1>7, CharsFound
  <1>11. Known(f[k]) <=> c[1] = "%" /\ n = 2 /\ c[2] \in Directives
    BY <1>2, <1>4 DEF Known
  <1>12. PieceAt(f, t, k, s, n, c)
    BY <1>2, <1>3, <1>4, <1>5, <1>7, <1>8, <1>9, <1>10, <1>11 DEF PieceAt
  <1>. QED
    BY <1>12

(* A format in which printf knows all there is to know. *)
Plain(f) == \A k \in 1 .. Len(f) : Known(f[k]) \/ Len(f[k].chars) = 1

(* Where it gets to from within a piece. *)
Reaches(f, k, y) == Inside(f, k, y) \/ y = Start(f, k + 1)

(* The three things printf can find there. *)
LEMMA Reading ==
    ASSUME NEW f \in Forms, WellFormed(f), NEW k, NEW x, Place(f, k, x),
           NEW t, t = Joined(f, Len(f)), x <= Len(t)
    PROVE  /\ k \in 1 .. Len(f) /\ x \in Nat \ {0} /\ Start(f, k) <= x
           /\ t[x] # "%" \/ x >= Len(t)
                => /\ ~Known(f[k]) /\ Reaches(f, k, x + 1)
                   /\ Plain(f) => f[k].chars = <<t[x]>> /\ x + 1 = Start(f, k + 1)
           /\ t[x] = "%" /\ x < Len(t)
                => /\ x = Start(f, k) /\ t[x + 1] = f[k].chars[2]
                   /\ t[x + 1] \in Directives
                        => /\ Known(f[k]) /\ f[k].words = Width(t[x + 1])
                           /\ x + 2 = Start(f, k + 1)
                   /\ t[x + 1] \notin Directives
                        => ~Known(f[k]) /\ Reaches(f, k, x + 2) /\ ~Plain(f)
  <1>1. PICK l \in Nat : l = Len(f)
    BY FormFacts
  <1>2. PICK z \in Nat : z = Len(t) /\ Start(f, l + 1) = z + 1
    <2>1. t \in Seq(Alphabet)
      BY StartFacts
    <2>. QED
      BY <1>1, <2>1, StartFacts
  <1>3. k \in 1 .. l
    <2>1. k \in 1 .. l + 1
      BY <1>1 DEF Place
    <2>2. k = l + 1 => x = z + 1
      BY <1>1, <1>2 DEF Place, Inside
    <2>3. k # l + 1
      BY <1>2, <2>2
    <2>. QED
      BY <2>1, <2>3
  <1>4a. PICK s \in Nat \ {0}, n \in Nat \ {0}, c \in Seq(Alphabet) : PieceAt(f, t, k, s, n, c)
    BY <1>1, <1>3, PieceFacts
  <1>4. /\ s = Start(f, k) /\ c = f[k].chars /\ n = Len(c)
        /\ s + n = Start(f, k + 1) /\ s + n <= z + 1
        /\ \A j \in 1 .. n : t[s + j - 1] = c[j]
        /\ \A j \in 2 .. n : c[j] = "%" => j = 2 /\ c[1] = "%"
        /\ n = 1 /\ c[1] = "%" => k = l
        /\ n > 1 /\ c[1] = "%" /\ c[2] \in Directives
             => Known(f[k]) /\ f[k].words = Width(c[2])
        /\ Known(f[k]) <=> c[1] = "%" /\ n = 2 /\ c[2] \in Directives
    BY <1>1, <1>2, <1>4a DEF PieceAt
  <1>5. x = s \/ Inside(f, k, x)
    BY <1>4 DEF Place
  <1>6. Inside(f, k, x)
          => x \in s + 1 .. s + n - 1 /\ ~Known(f[k]) /\ (c[1] = "%" => x > s + 1)
    BY <1>4 DEF Inside
  <1>7. x \in Nat \ {0} /\ x \in s .. s + n - 1
    BY <1>4, <1>5, <1>6
  <1>8. ASSUME NEW y \in s + 1 .. s + n, ~Known(f[k]), c[1] = "%" => y > s + 1 \/ n = 1
        PROVE  Reaches(f, k, y)
    <2>1. CASE y = s + n
      BY <1>4, <2>1 DEF Reaches
    <2>2. CASE y < s + n
      <3>1. y \in s + 1 .. s + n - 1 /\ n # 1
        BY <1>8, <2>2
      <3>. QED
        BY <1>1, <1>3, <1>4, <1>8, <3>1 DEF Reaches, Inside
    <2>. QED
      BY <1>8, <2>1, <2>2
  <1>9. ASSUME Inside(f, k, x)
        PROVE  t[x] # "%"
    <2>1. PICK j \in 2 .. n : j = x - s + 1
      BY <1>6, <1>9
    <2>2. s + j - 1 = x /\ (c[1] = "%" => j # 2) /\ j \in 1 .. n
      BY <1>6, <1>9, <2>1
    <2>3. t[s + j - 1] = c[j] /\ c[j] # "%"
      BY <1>4, <2>1, <2>2
    <2>. QED
      BY <2>2, <2>3
  <1>10. t[s] = c[1]
    <2>1. s + 1 - 1 = s /\ 1 \in 1 .. n
      BY <1>4
    <2>. QED
      BY <1>4, <2>1
  <1>11. ASSUME t[x] # "%" \/ x >= z
         PROVE  ~Known(f[k]) /\ Reaches(f, k, x + 1)
    <2>1. CASE Inside(f, k, x)
      <3>1. x + 1 \in s + 1 .. s + n /\ ~Known(f[k]) /\ (c[1] = "%" => x + 1 > s + 1)
        BY <1>6, <2>1
      <3>. QED
        BY <1>8, <3>1
    <2>2. CASE x = s
      <3>1. x + 1 \in s + 1 .. s + n
        BY <2>2
      <3>2. x >= z => n = 1
        <4>1. s + n <= z + 1
          BY <1>4
        <4>. QED
          BY <2>2, <4>1
      <3>3. ~Known(f[k]) /\ (c[1] = "%" => n = 1)
        BY <1>4, <1>10, <1>11, <2>2, <3>2
      <3>. QED
        BY <1>8, <3>1, <3>3
    <2>. QED
      BY <1>5, <2>1, <2>2
  <1>12. ASSUME t[x] = "%", x < z
         PROVE  /\ x = s /\ t[x + 1] = c[2] /\ n > 1 /\ c[1] = "%"
    <2>1. x = s /\ c[1] = "%"
      BY <1>5, <1>9, <1>10, <1>12
    <2>2. n > 1
      <3>1. SUFFICES ASSUME n = 1
                     PROVE  FALSE
        OBVIOUS
      <3>2. k = l
        BY <1>4, <2>1, <3>1
      <3>3. s + n = z + 1
        BY <1>2, <1>4, <3>2
      <3>. QED
        BY <1>12, <2>1, <3>1, <3>3
    <2>3. t[s + 1] = c[2]
      <3>1. s + 2 - 1 = s + 1 /\ 2 \in 1 .. n
        BY <2>2
      <3>. QED
        BY <1>4, <3>1
    <2>. QED
      BY <2>1, <2>2, <2>3
  <1>11a. ASSUME ~Known(f[k]), Plain(f)
          PROVE  n = 1 /\ c = <<t[x]>> /\ x + 1 = Start(f, k + 1)
    <2>1. n = 1
      BY <1>1, <1>3, <1>4, <1>11a DEF Plain
    <2>2. x = s
      BY <1>7, <2>1
    <2>3. c = <<c[1]>>
      BY <1>4, <2>1, Single
    <2>. QED
      BY <1>4, <1>10, <2>1, <2>2, <2>3
  <1>13. ASSUME t[x] = "%", x < z, t[x + 1] \in Directives
         PROVE  Known(f[k]) /\ f[k].words = Width(t[x + 1]) /\ x + 2 = Start(f, k + 1)
    <2>1. x = s /\ t[x + 1] = c[2] /\ n > 1 /\ c[1] = "%"
      BY <1>12, <1>13
    <2>2. Known(f[k]) /\ f[k].words = Width(c[2]) /\ n = 2
      BY <1>4, <1>13, <2>1
    <2>. QED
      BY <1>4, <2>1, <2>2
  <1>14. ASSUME t[x] = "%", x < z, t[x + 1] \notin Directives
         PROVE  ~Known(f[k]) /\ Reaches(f, k, x + 2) /\ ~Plain(f)
    <2>1. x = s /\ t[x + 1] = c[2] /\ n > 1 /\ c[1] = "%"
      BY <1>12, <1>14
    <2>2. ~Known(f[k])
      BY <1>4, <1>14, <2>1
    <2>3. x + 2 \in s + 1 .. s + n /\ x + 2 > s + 1
      BY <2>1
    <2>4. ~Plain(f)
      BY <1>11a, <2>1, <2>2
    <2>. QED
      BY <1>8, <2>2, <2>3, <2>4
  <1>15. t[x] = "%" /\ x < z => x = Start(f, k) /\ t[x + 1] = f[k].chars[2]
    BY <1>4, <1>12
  <1>16. k \in 1 .. Len(f) /\ x \in Nat \ {0} /\ Start(f, k) <= x
    BY <1>1, <1>3, <1>4, <1>7
  <1>17. t[x] # "%" \/ x >= z
            => /\ ~Known(f[k]) /\ Reaches(f, k, x + 1)
               /\ Plain(f) => f[k].chars = <<t[x]>> /\ x + 1 = Start(f, k + 1)
    BY <1>4, <1>11, <1>11a
  <1>. QED
    BY <1>2, <1>13, <1>14, <1>15, <1>16, <1>17

(* Pieces do not share a place. *)
LEMMA Between ==
    ASSUME NEW f \in Forms, NEW k \in 1 .. Len(f), NEW j \in 1 .. Len(f),
           NEW x \in Nat, NEW y \in Nat, Start(f, k) <= x, y <= Start(f, k + 1),
           f[j].chars # <<>>, x <= Start(f, j), Start(f, j) < y
    PROVE  j = k
  <1>1. PICK m \in Nat : m = Len(f)
    BY FormFacts
  <1>2. PICK a \in Nat, b \in Nat, c \in Nat, d \in Nat :
          a = Start(f, k) /\ b = Start(f, k + 1) /\ c = Start(f, j) /\ d = Start(f, j + 1)
    <2>1. k \in 1 .. m + 1 /\ k + 1 \in 1 .. m + 1 /\ j \in 1 .. m + 1 /\ j + 1 \in 1 .. m + 1
      BY <1>1
    <2>. QED
      BY <1>1, <2>1, StartFacts
  <1>3. c < d
    <2>1. d = c + Len(f[j].chars)
      BY <1>2, StartFacts
    <2>2. PICK e \in Seq(Alphabet) : e = f[j].chars
      BY FormFacts
    <2>3. Len(e) \in Nat \ {0}
      BY <2>2
    <2>. QED
      BY <1>2, <2>1, <2>2, <2>3
  <1>4. ~(j < k)
    <2>1. SUFFICES ASSUME j < k
                   PROVE  FALSE
      OBVIOUS
    <2>2. j + 1 <= k /\ j + 1 \in 1 .. m + 1 /\ k \in 1 .. m + 1
      BY <1>1, <2>1
    <2>3. d <= a
      BY <1>1, <1>2, <2>2, StartsRise
    <2>. QED
      BY <1>2, <1>3, <2>3
  <1>5. ~(k < j)
    <2>1. SUFFICES ASSUME k < j
                   PROVE  FALSE
      OBVIOUS
    <2>2. k + 1 <= j /\ k + 1 \in 1 .. m + 1 /\ j \in 1 .. m + 1
      BY <1>1, <2>1
    <2>3. b <= c
      BY <1>1, <1>2, <2>2, StartsRise
    <2>. QED
      BY <1>2, <2>3
  <1>. QED
    BY <1>1, <1>4, <1>5

(* From a piece printf gets on within it or to the next one. *)
LEMMA ReachesFacts ==
    ASSUME NEW f \in Forms, NEW k \in 1 .. Len(f), NEW y, Reaches(f, k, y)
    PROVE  /\ y \in Nat /\ y <= Start(f, k + 1)
           /\ ~Known(f[k]) => \E l : Place(f, l, y) /\ Taken(f, l) = Taken(f, k)
           /\ y = Start(f, k + 1) => Place(f, k + 1, y)
  <1>1. PICK m \in Nat : m = Len(f)
    BY FormFacts
  <1>2. k \in 1 .. m + 1 /\ k + 1 \in 1 .. m + 1
    BY <1>1
  <1>3. PICK a \in Nat, b \in Nat, n \in Nat :
          a = Start(f, k) /\ b = Start(f, k + 1) /\ n = Len(f[k].chars) /\ b = a + n
    BY <1>1, <1>2, StartFacts, FormFacts
  <1>4. y \in Nat /\ y <= b
    BY <1>3 DEF Reaches, Inside
  <1>5. y = b => Place(f, k + 1, y)
    BY <1>1, <1>2, <1>3 DEF Place
  <1>6. ASSUME ~Known(f[k])
        PROVE  \E l : Place(f, l, y) /\ Taken(f, l) = Taken(f, k)
    <2>1. CASE y = b
      <3>1. Taken(f, k + 1) = Taken(f, k)
        <4>1. Taken(f, k + 1) = Taken(f, k) + 0 /\ Taken(f, k) \in Nat
          BY <1>1, <1>2, <1>6, TakenFacts DEF TakenOf
        <4>. QED
          BY <4>1
      <3>. QED
        BY <1>5, <2>1, <3>1
    <2>2. CASE Inside(f, k, y)
      BY <1>1, <1>2, <2>2 DEF Place
    <2>. QED
      BY <1>3, <2>1, <2>2 DEF Reaches
  <1>. QED
    BY <1>3, <1>4, <1>5, <1>6

-----------------------------------------------------------------------------
(* What printf has printed. *)

(* An entry takes the argument of piece k. *)
Fits(p, f, k) == /\ p.directive = f[k].chars[2]
                 /\ p.from = Start(f, k)
                 /\ p.at = 1 + Words(f, k) - Skipped(f, k)

(* An entry is right when printf has come to x. *)
Right(p, f, words, x) ==
    /\ p.from \in Nat /\ p.from < x
    /\ p.directive # "text"
         => Prints(p, words) /\ \E k \in 1 .. Len(f) : Known(f[k]) /\ Fits(p, f, k)

(* Up to x everything is printed, once and in its order. *)
Upto(f, words, o, x) ==
    /\ \E S : o \in Seq(S)
    /\ \A n \in 1 .. Len(o) : Right(o[n], f, words, x)
    /\ \A n, m \in 1 .. Len(o) : n < m => o[n].from < o[m].from
    /\ \A k \in 1 .. Len(f) :
         Known(f[k]) /\ Start(f, k) < x => \E n \in 1 .. Len(o) : Fits(o[n], f, k)

(* What is printed of a piece of a plain format. *)
Of(p, f, k) == IF Known(f[k]) THEN Fits(p, f, k)
                              ELSE p.directive = "text" /\ p.text = f[k].chars

(* The place printf has come to, by the words it has taken. *)
Stands(f, o, x, a) ==
    \E k : /\ Place(f, k, x) /\ a = Taken(f, k)
           /\ Plain(f) => Len(o) = k - 1 /\ \A n \in 1 .. k - 1 : Of(o[n], f, n)

PrintfInv == /\ WellPassed(format, stack)
             /\ Upto(format, stack, out, i)
             /\ Stands(format, out, i, args)
             /\ printf = "idle" => i > Len(fmt)

(* A call begins with nothing printed. *)
LEMMA Begins ==
    ASSUME NEW f, NEW words, WellPassed(f, words)
    PROVE  Upto(f, words, <<>>, 1) /\ Stands(f, <<>>, 1, 0)
  <1>1. f \in Forms
    BY DEF WellPassed, Forms
  <1>2. PICK e : e = <<>>
    OBVIOUS
  <1>3. Len(e) = 0 /\ e \in Seq({})
    BY <1>2
  <1>4. PICK m \in Nat : m = Len(f)
    BY <1>1, FormFacts
  <1>5. ASSUME NEW k \in 1 .. m
        PROVE  ~(Start(f, k) < 1)
    <2>1. k \in 1 .. m + 1
      OBVIOUS
    <2>2. PICK a \in Nat \ {0} : a = Start(f, k)
      BY <1>1, <1>4, <2>1, StartFacts
    <2>. QED
      BY <2>2
  <1>6. Upto(f, words, e, 1)
    BY <1>3, <1>4, <1>5 DEF Upto
  <1>7. Place(f, 1, 1) /\ Taken(f, 1) = 0
    BY <1>1, <1>4, StartFacts, TakenFacts DEF Place
  <1>8. Stands(f, e, 1, 0)
    BY <1>3, <1>7 DEF Stands
  <1>. QED
    BY <1>2, <1>6, <1>8

(* A sequence q is o, of length l, with p behind it. *)
Extends(q, o, l, p) == /\ l \in Nat /\ l = Len(o) /\ Len(q) = l + 1
                       /\ \E T : q \in Seq(T)
                       /\ \A n \in 1 .. l : q[n] = o[n]
                       /\ q[l + 1] = p

(* What appending does. *)
LEMMA Appended ==
    ASSUME NEW S, NEW o \in Seq(S), NEW p
    PROVE  Extends(Append(o, p), o, Len(o), p)
  <1>1. PICK T : T = S \cup {p}
    OBVIOUS
  <1>2. o \in [1 .. Len(o) -> T] /\ Len(o) \in Nat
    <2>1. o \in [1 .. Len(o) -> S] /\ Len(o) \in Nat
      OBVIOUS
    <2>. QED
      BY <1>1, <2>1
  <1>3. o \in Seq(T)
    BY <1>2
  <1>4. p \in T
    BY <1>1
  <1>5. Append(o, p) \in Seq(T)
    BY <1>3, <1>4
  <1>. QED
    BY <1>2, <1>3, <1>4, <1>5, AppendProperties DEF Extends

(* One more entry, p, printed of piece k, brings printf from x to y. *)
LEMMA Advance ==
    ASSUME NEW f, NEW words, WellPassed(f, words), NEW o, NEW x, NEW y, NEW p,
           Upto(f, words, o, x), NEW k \in 1 .. Len(f),
           x \in Nat, y \in Nat, x < y, Start(f, k) <= x, y <= Start(f, k + 1),
           p.from = x, Right(p, f, words, y), Known(f[k]) => Fits(p, f, k)
    PROVE  Upto(f, words, Append(o, p), y)
  <1>1. f \in Forms /\ WellFormed(f)
    BY DEF WellPassed, Forms
  <1>2. PICK m \in Nat : m = Len(f)
    BY <1>1, FormFacts
  <1>3. PICK S : o \in Seq(S)
    BY DEF Upto
  <1>4a. PICK l, q : q = Append(o, p) /\ Extends(q, o, l, p)
    BY <1>3, Appended, Zenon
  <1>4. /\ l \in Nat /\ l = Len(o) /\ Len(q) = l + 1 /\ q[l + 1] = p
        /\ \A n \in 1 .. l : q[n] = o[n]
    BY <1>4a DEF Extends
  <1>5. ASSUME NEW n \in 1 .. l
        PROVE  /\ Right(q[n], f, words, y) /\ q[n].from \in Nat /\ q[n].from < x
    <2>1. Right(o[n], f, words, x)
      BY <1>4 DEF Upto
    <2>. QED
      BY <1>4, <2>1 DEF Right
  <1>6. \A n \in 1 .. l + 1 : Right(q[n], f, words, y)
    <2>1. ASSUME NEW n \in 1 .. l + 1
          PROVE  Right(q[n], f, words, y)
      <3>1. n \in 1 .. l \/ n = l + 1
        BY <1>4
      <3>. QED
        BY <1>4, <1>5, <3>1
    <2>. QED
      BY <2>1
  <1>7. \A n, j \in 1 .. l + 1 : n < j => q[n].from < q[j].from
    <2>1. ASSUME NEW n \in 1 .. l + 1, NEW j \in 1 .. l + 1, n < j
          PROVE  q[n].from < q[j].from
      <3>1. n \in 1 .. l /\ (j = l + 1 \/ j \in 1 .. l)
        BY <1>4, <2>1
      <3>2. CASE j = l + 1
        BY <1>4, <1>5, <3>1, <3>2
      <3>3. CASE j \in 1 .. l
        BY <1>4, <2>1, <3>1, <3>3 DEF Upto
      <3>. QED
        BY <3>1, <3>2, <3>3
    <2>. QED
      BY <2>1
  <1>8. ASSUME NEW j \in 1 .. m, Known(f[j]), Start(f, j) < y
        PROVE  \E n \in 1 .. l + 1 : Fits(q[n], f, j)
    <2>1. PICK s \in Nat : s = Start(f, j)
      <3>1. j \in 1 .. m + 1
        OBVIOUS
      <3>. QED
        BY <1>1, <1>2, <3>1, StartFacts
    <2>2. CASE s < x
      <3>1. PICK n \in 1 .. l : Fits(o[n], f, j)
        BY <1>2, <1>4, <1>8, <2>1, <2>2 DEF Upto
      <3>2. n \in 1 .. l + 1 /\ Fits(q[n], f, j)
        BY <1>4, <3>1
      <3>. QED
        BY <3>2
    <2>3. CASE x <= s
      <3>1. f[j].chars # <<>>
        BY <1>1, <1>2, FormFacts DEF WellFormed
      <3>2. j = k
        BY <1>1, <1>2, <1>8, <2>1, <2>3, <3>1, Between
      <3>3. l + 1 \in 1 .. l + 1 /\ Fits(q[l + 1], f, j)
        BY <1>4, <1>8, <3>2
      <3>. QED
        BY <3>3
    <2>. QED
      BY <2>1, <2>2, <2>3
  <1>9. Upto(f, words, q, y)
    BY <1>2, <1>4, <1>4a, <1>6, <1>7, <1>8 DEF Upto, Extends
  <1>. QED
    BY <1>4a, <1>9, Zenon

(* Where printf stands, with what it knows there. *)
LEMMA Standing ==
    ASSUME PrintfInv, Running
    PROVE  /\ format \in Forms /\ WellFormed(format)
           /\ i <= Len(fmt) /\ fmt = Joined(format, Len(format))
           /\ \E l \in Nat : l = Len(out)
           /\ \E k \in 1 .. Len(format) :
                /\ Place(format, k, i) /\ args = Taken(format, k)
                /\ i \in Nat /\ Start(format, k) <= i
                /\ Plain(format)
                     => Len(out) = k - 1 /\ \A n \in 1 .. k - 1 : Of(out[n], format, n)
  <1>1. format \in Forms /\ WellFormed(format)
    BY DEF PrintfInv, WellPassed, Forms
  <1>2. i <= Len(fmt) /\ fmt = Joined(format, Len(format))
    BY DEF Running, fmt
  <1>3. PICK k : /\ Place(format, k, i) /\ args = Taken(format, k)
                 /\ Plain(format)
                      => Len(out) = k - 1 /\ \A n \in 1 .. k - 1 : Of(out[n], format, n)
    BY DEF PrintfInv, Stands
  <1>4. k \in 1 .. Len(format) /\ i \in Nat /\ Start(format, k) <= i
    BY <1>1, <1>2, <1>3, Reading
  <1>5. Len(out) \in Nat
    <2>1. PICK S : out \in Seq(S)
      BY DEF PrintfInv, Upto
    <2>. QED
      BY <2>1
  <1>. QED
    BY <1>1, <1>2, <1>3, <1>4, <1>5

(* What is printed as it stands. *)
LEMMA AsItStands ==
    ASSUME PrintfInv, NEW k \in 1 .. Len(format), ~Known(format[k]),
           args = Taken(format, k), i \in Nat, Start(format, k) <= i,
           NEW y, Reaches(format, k, y), i < y, NEW p, p.from = i, p.directive = "text",
           Plain(format) => /\ p.text = format[k].chars /\ y = Start(format, k + 1)
                            /\ Len(out) = k - 1 /\ \A n \in 1 .. k - 1 : Of(out[n], format, n)
    PROVE  Upto(format, stack, Append(out, p), y) /\ Stands(format, Append(out, p), y, args)
  <1>1. format \in Forms /\ WellPassed(format, stack) /\ Upto(format, stack, out, i)
    BY DEF PrintfInv, WellPassed, Forms
  <1>2. PICK m \in Nat : m = Len(format)
    BY <1>1, FormFacts
  <1>3. PICK j : Place(format, j, y) /\ Taken(format, j) = Taken(format, k)
    BY <1>1, ReachesFacts
  <1>4. /\ y \in Nat /\ y <= Start(format, k + 1)
        /\ y = Start(format, k + 1) => Place(format, k + 1, y)
    BY <1>1, ReachesFacts
  <1>5. Right(p, format, stack, y)
    BY DEF Right
  <1>6. Upto(format, stack, Append(out, p), y)
    BY <1>1, <1>4, <1>5, Advance
  <1>7. CASE ~Plain(format)
    BY <1>3, <1>6, <1>7 DEF Stands
  <1>8. CASE Plain(format)
    <2>1a. PICK S : out \in Seq(S)
      BY <1>1 DEF Upto
    <2>1b. PICK l, q : q = Append(out, p) /\ Extends(q, out, l, p)
      BY <2>1a, Appended, Zenon
    <2>1. /\ l \in Nat /\ l = Len(out) /\ Len(q) = l + 1
          /\ q[l + 1] = p /\ \A n \in 1 .. l : q[n] = out[n]
      BY <2>1b DEF Extends
    <2>2. l = k - 1
      BY <1>8, <2>1
    <2>3. ASSUME NEW n \in 1 .. k
          PROVE  Of(q[n], format, n)
      <3>1. n \in 1 .. l \/ n = l + 1
        BY <2>2
      <3>2. n \in 1 .. l => Of(q[n], format, n)
        BY <1>8, <2>1, <2>2
      <3>3. n = l + 1 => Of(q[n], format, n)
        BY <1>8, <2>1, <2>2 DEF Of
      <3>. QED
        BY <3>1, <3>2, <3>3
    <2>4. (k + 1) - 1 = k /\ Len(q) = k
      BY <1>2, <2>1, <2>2
    <2>5. Place(format, k + 1, y)
      BY <1>4, <1>8
    <2>6. Taken(format, k + 1) = args
      <3>1. k \in 1 .. m + 1
        BY <1>2
      <3>2. Taken(format, k) \in Nat /\ Taken(format, k + 1) = Taken(format, k) + 0
        BY <1>1, <1>2, <3>1, TakenFacts DEF TakenOf
      <3>. QED
        BY <3>2
    <2>7. Stands(format, q, y, args)
      BY <2>3, <2>4, <2>5, <2>6 DEF Stands
    <2>. QED
      BY <1>6, <2>1b, <2>7, Zenon
  <1>. QED
    BY <1>7, <1>8

-----------------------------------------------------------------------------
(* The steps. *)

(* A character. *)
LEMMA CharacterStep ==
    ASSUME PrintfInv, Character
    PROVE  PrintfInv'
  <1>1. Running /\ ~AtDirective
    BY DEF Character
  <1>2. PICK k \in 1 .. Len(format) :
          /\ Place(format, k, i) /\ args = Taken(format, k)
          /\ i \in Nat /\ Start(format, k) <= i
          /\ Plain(format)
               => Len(out) = k - 1 /\ \A n \in 1 .. k - 1 : Of(out[n], format, n)
    BY <1>1, Standing
  <1>3. /\ format \in Forms /\ WellFormed(format)
        /\ i <= Len(fmt) /\ fmt = Joined(format, Len(format))
    BY <1>1, Standing
  <1>4. fmt[i] # "%" \/ i >= Len(fmt)
    BY <1>1, <1>2, <1>3, StartFacts DEF AtDirective
  <1>5. /\ ~Known(format[k]) /\ Reaches(format, k, i + 1)
        /\ Plain(format) => format[k].chars = <<fmt[i]>> /\ i + 1 = Start(format, k + 1)
    BY <1>2, <1>3, <1>4, Reading
  <1>6. PICK p : p = Piece("text", <<fmt[i]>>, i, 0)
    OBVIOUS
  <1>7. p.from = i /\ p.directive = "text" /\ p.text = <<fmt[i]>>
    BY <1>6 DEF Piece
  <1>8. i < i + 1
    BY <1>2
  <1>9. Upto(format, stack, Append(out, p), i + 1) /\ Stands(format, Append(out, p), i + 1, args)
    BY <1>2, <1>5, <1>7, <1>8, AsItStands
  <1>10. /\ format' = format /\ stack' = stack /\ args' = args /\ printf' = printf
         /\ out' = Append(out, p) /\ i' = i + 1
    BY <1>6 DEF Character
  <1>. QED
    BY <1>1, <1>9, <1>10 DEF PrintfInv, Running

(* A directive that is none. *)
LEMMA UnknownStep ==
    ASSUME PrintfInv, Unknown
    PROVE  PrintfInv'
  <1>1. Running /\ fmt[i] = "%" /\ i < Len(fmt) /\ fmt[i + 1] \notin Directives
    BY DEF Unknown, AtDirective
  <1>2. PICK k \in 1 .. Len(format) :
          /\ Place(format, k, i) /\ args = Taken(format, k)
          /\ i \in Nat /\ Start(format, k) <= i
    BY <1>1, Standing
  <1>3. /\ format \in Forms /\ WellFormed(format)
        /\ i <= Len(fmt) /\ fmt = Joined(format, Len(format))
    BY <1>1, Standing
  <1>4. ~Known(format[k]) /\ Reaches(format, k, i + 2) /\ ~Plain(format)
    BY <1>1, <1>2, <1>3, Reading
  <1>5. PICK p : p = Piece("text", <<"%", fmt[i + 1]>>, i, 0)
    OBVIOUS
  <1>6. p.from = i /\ p.directive = "text"
    BY <1>5 DEF Piece
  <1>7. i < i + 2
    BY <1>2
  <1>8. Upto(format, stack, Append(out, p), i + 2) /\ Stands(format, Append(out, p), i + 2, args)
    BY <1>2, <1>4, <1>6, <1>7, AsItStands
  <1>9. /\ format' = format /\ stack' = stack /\ args' = args /\ printf' = printf
        /\ out' = Append(out, p) /\ i' = i + 2
    BY <1>5 DEF Unknown
  <1>. QED
    BY <1>1, <1>8, <1>9 DEF PrintfInv, Running

(* A directive and its argument. *)
LEMMA TakeArgumentStep ==
    ASSUME PrintfInv, TakeArgument
    PROVE  PrintfInv'
  <1>1. Running /\ fmt[i] = "%" /\ i < Len(fmt) /\ fmt[i + 1] \in Directives
    BY DEF TakeArgument, AtDirective
  <1>2. PICK k \in 1 .. Len(format) :
          /\ Place(format, k, i) /\ args = Taken(format, k)
          /\ i \in Nat /\ Start(format, k) <= i
          /\ Plain(format)
               => Len(out) = k - 1 /\ \A n \in 1 .. k - 1 : Of(out[n], format, n)
    BY <1>1, Standing
  <1>3. /\ format \in Forms /\ WellFormed(format) /\ WellPassed(format, stack)
        /\ Upto(format, stack, out, i)
        /\ i <= Len(fmt) /\ fmt = Joined(format, Len(format))
    BY <1>1, Standing DEF PrintfInv
  <1>4. PICK d : d = fmt[i + 1]
    OBVIOUS
  <1>5. /\ i = Start(format, k) /\ d = format[k].chars[2] /\ d \in Directives
        /\ Known(format[k]) /\ format[k].words = Width(d) /\ i + 2 = Start(format, k + 1)
    BY <1>1, <1>2, <1>3, <1>4, Reading
  <1>6. PICK w \in {1, 2} : w = Width(d)
    BY DEF Width
  <1>7. PICK m \in Nat : m = Len(format) /\ k \in 1 .. m + 1 /\ k + 1 \in 1 .. m + 1
    BY <1>3, FormFacts
  <1>8. /\ args \in Nat /\ Taken(format, k + 1) = args + w /\ args + w <= Len(stack)
        /\ args + 1 = 1 + Words(format, k) - Skipped(format, k)
    <2>1. Taken(format, k) \in Nat /\ Taken(format, k + 1) = Taken(format, k) + w
      BY <1>3, <1>5, <1>6, <1>7, TakenFacts DEF TakenOf
    <2>2. Taken(format, k + 1) <= Len(stack)
      BY <1>3, <1>7, TakenFacts DEF WellPassed
    <2>3. Words(format, k) \in Nat /\ Skipped(format, k) \in Nat
      BY <1>3, <1>7, WordsFacts, SkippedFacts
    <2>4. args + 1 = 1 + Words(format, k) - Skipped(format, k)
      BY <1>2, <2>3 DEF Taken
    <2>. QED
      BY <1>2, <2>1, <2>2, <2>4
  <1>9. PICK p : p = Piece(d, Text(d, SubSeq(stack, args + 1, args + w)), i, args + 1)
    OBVIOUS
  <1>10. /\ p.directive = d /\ p.text = Text(d, SubSeq(stack, args + 1, args + w))
         /\ p.from = i /\ p.at = args + 1
    BY <1>9 DEF Piece
  <1>11. Fits(p, format, k)
    BY <1>5, <1>8, <1>10 DEF Fits
  <1>12. Prints(p, stack)
    <2>1. args + 1 \in Nat \ {0} /\ (args + 1) + w - 1 = args + w
      BY <1>8
    <2>. QED
      BY <1>5, <1>6, <1>8, <1>10, <2>1 DEF Prints
  <1>13. i + 2 \in Nat /\ i < i + 2 /\ i + 2 <= Start(format, k + 1)
    <2>1. PICK a \in Nat : a = Start(format, k + 1) /\ a = i + 2
      BY <1>2, <1>5
    <2>. QED
      BY <1>2, <2>1
  <1>14. Right(p, format, stack, i + 2)
    BY <1>2, <1>5, <1>10, <1>11, <1>12, <1>13 DEF Right
  <1>15. Upto(format, stack, Append(out, p), i + 2)
    BY <1>2, <1>3, <1>10, <1>11, <1>13, <1>14, Advance
  <1>16. Stands(format, Append(out, p), i + 2, args + w)
    <2>1. Place(format, k + 1, i + 2)
      BY <1>5, <1>7 DEF Place
    <2>2. PICK S : out \in Seq(S)
      BY <1>3 DEF Upto
    <2>3. PICK l, q : q = Append(out, p) /\ Extends(q, out, l, p)
      BY <2>2, Appended, Zenon
    <2>4. ASSUME Plain(format)
          PROVE  Len(q) = (k + 1) - 1 /\ \A n \in 1 .. (k + 1) - 1 : Of(q[n], format, n)
      <3>1. /\ l \in Nat /\ l = k - 1 /\ Len(q) = l + 1 /\ q[l + 1] = p
            /\ \A n \in 1 .. l : q[n] = out[n] /\ Of(out[n], format, n)
        BY <1>2, <2>3, <2>4 DEF Extends
      <3>2. (k + 1) - 1 = l + 1 /\ l + 1 = k
        BY <3>1
      <3>3. Of(p, format, k)
        BY <1>5, <1>11 DEF Of
      <3>4. \A n \in 1 .. l + 1 : n \in 1 .. l \/ n = l + 1
        BY <3>1
      <3>. QED
        BY <3>1, <3>2, <3>3, <3>4
    <2>5. Stands(format, q, i + 2, args + w)
      BY <1>8, <2>1, <2>4 DEF Stands
    <2>. QED
      BY <2>3, <2>5, Zenon
  <1>17. /\ format' = format /\ stack' = stack /\ printf' = printf
         /\ out' = Append(out, p) /\ i' = i + 2 /\ args' = args + w
    BY <1>4, <1>6, <1>9 DEF TakeArgument
  <1>. QED
    BY <1>1, <1>3, <1>15, <1>16, <1>17 DEF PrintfInv, Running

(* All steps of printf. *)
LEMMA PrintfSteps ==
    ASSUME PrintfInv, PrintfStep
    PROVE  PrintfInv'
  <1>1. CASE Character
    BY <1>1, CharacterStep
  <1>2. CASE TakeArgument
    BY <1>2, TakeArgumentStep
  <1>3. CASE Overflow
    BY <1>3 DEF Overflow, PrintfInv
  <1>4. CASE Unknown
    BY <1>4, UnknownStep
  <1>5. CASE Return
    BY <1>5 DEF Return, PrintfInv, fmt
  <1>. QED
    BY <1>1, <1>2, <1>3, <1>4, <1>5 DEF PrintfStep

(* A call, whatever was going on before. *)
LEMMA CallStep ==
    ASSUME NEW f, NEW words, WellPassed(f, words), Call(f, words)
    PROVE  PrintfInv'
  BY Begins DEF Call, PrintfInv

(* The two properties of Printf follow. *)
LEMMA Takings ==
    ASSUME PrintfInv
    PROVE  TakesWhatWasPassed
  <1>1. format \in Forms /\ WellPassed(format, stack) /\ Upto(format, stack, out, i)
    BY DEF PrintfInv, WellPassed, Forms
  <1>2. PICK m \in Nat : m = Len(format) /\ DOMAIN format = 1 .. m
    BY <1>1, FormFacts
  <1>3. PICK l \in Nat : l = Len(out) /\ DOMAIN out = 1 .. l
    <2>1. PICK S : out \in Seq(S)
      BY <1>1 DEF Upto
    <2>. QED
      BY <2>1
  <1>4. args <= Len(stack)
    <2>1. PICK k \in 1 .. m + 1 : args = Taken(format, k)
      BY <1>2 DEF PrintfInv, Stands, Place
    <2>. QED
      BY <1>1, <1>2, <2>1, TakenFacts DEF WellPassed
  <1>5. \A p, k : Fits(p, format, k) <=> Takes(p, k)
    BY DEF Fits, Takes
  <1>. QED
    BY <1>1, <1>2, <1>3, <1>4, <1>5 DEF TakesWhatWasPassed, Upto, Right

(* And their values are what is shown. *)
LEMMA Showings ==
    ASSUME PrintfInv
    PROVE  ShowsWhatWasPassed
  <1>1. Upto(format, stack, out, i) /\ stack \in Seq(0 .. Word - 1)
    BY DEF PrintfInv, WellPassed
  <1>2. DOMAIN out = 1 .. Len(out)
    <2>1. PICK S : out \in Seq(S)
      BY <1>1 DEF Upto
    <2>. QED
      BY <2>1
  <1>3. ASSUME NEW n \in DOMAIN out
        PROVE  IF out[n].directive \in Doubles THEN ShowsDouble(out[n])
                                               ELSE ShowsNumber(out[n])
    <2>1. CASE out[n].directive = "text"
      BY <2>1 DEF Doubles, Floats, ShowsNumber
    <2>2. CASE out[n].directive # "text"
      <3>1. Prints(out[n], stack)
        BY <1>1, <1>2, <2>2 DEF Upto, Right
      <3>. QED
        BY <1>1, <3>1, NumberShown, DoubleIsShown
    <2>. QED
      BY <2>1, <2>2
  <1>. QED
    BY <1>3 DEF ShowsWhatWasPassed

-----------------------------------------------------------------------------
(* The reports. *)

(* Labels and numbers take turns. *)
Alternates(f) ==
    /\ f \in Forms /\ Len(f) \in {2, 4}
    /\ \A k \in 1 .. Len(f) : f[k] \in IF k \in {1, 3} THEN {At, Code} ELSE {Hex, Unum}

(* Labels and numbers as pieces. *)
LEMMA PieceKinds ==
    /\ \A p \in {At, Code} : /\ Len(p.chars) = 1 /\ p.chars \in {<<"at">>, <<"code">>}
                             /\ p.chars[1] # "%" /\ ~Known(p) /\ p.words = 0
                             /\ p.chars # <<>>
    /\ \A p \in {Hex, Unum} : /\ Len(p.chars) = 2 /\ p.chars[1] = "%" /\ p.chars[2] \in {"x", "u"}
                              /\ Known(p) /\ p.words = 1 /\ p.chars # <<>>
  <1>1. \A p \in {At, Code} : /\ Len(p.chars) = 1 /\ p.chars \in {<<"at">>, <<"code">>}
                              /\ p.chars[1] # "%" /\ p.words = 0 /\ p.chars # <<>>
    BY DEF At, Code
  <1>2. \A p \in {Hex, Unum} : /\ Len(p.chars) = 2 /\ p.chars[1] = "%" /\ p.chars[2] \in {"x", "u"}
                               /\ p.words = 1 /\ p.chars # <<>>
    BY DEF Hex, Unum
  <1>. QED
    BY <1>1, <1>2 DEF Known, Directives

(* The words of reports. *)
LEMMA Alternating ==
    ASSUME NEW f, Alternates(f)
    PROVE  /\ f \in Forms /\ WellFormed(f) /\ Plain(f)
           /\ Taken(f, 2) = 0
           /\ Len(f) = 2 => Words(f, Len(f) + 1) = 1
           /\ Len(f) = 4 => Words(f, Len(f) + 1) = 2 /\ Taken(f, 4) = 1
  <1>1. PICK m \in {2, 4} : m = Len(f)
    BY DEF Alternates
  <1>2. f \in Forms /\ DOMAIN f = 1 .. m
    BY <1>1, FormFacts DEF Alternates
  <1>3. \A k \in 1 .. m : f[k] \in IF k \in {1, 3} THEN {At, Code} ELSE {Hex, Unum}
    BY <1>1 DEF Alternates
  <1>4. WellFormed(f)
    <2>1. ASSUME NEW k \in 1 .. m
          PROVE  LET c == f[k].chars
                 IN  /\ c # <<>>
                     /\ \A j \in 2 .. Len(c) : c[j] = "%" => j = 2 /\ c[1] = "%"
                     /\ c = <<"%">> => k = Len(f)
                     /\ Len(c) > 1 /\ c[1] = "%" /\ c[2] \in Directives
                          => Known(f[k]) /\ f[k].words = Width(c[2])
      <3>1. CASE k \in {1, 3}
        <4>1. f[k] \in {At, Code}
          BY <1>3, <3>1
        <4>2. \A j : ~(j \in 2 .. 1)
          OBVIOUS
        <4>3. f[k].chars # <<"%">>
          BY <4>1, PieceKinds
        <4>. QED
          BY <4>1, <4>2, <4>3, PieceKinds
      <3>2. CASE k \notin {1, 3}
        <4>1. f[k] \in {Hex, Unum}
          BY <1>3, <3>2
        <4>2. \A j \in 2 .. 2 : j = 2
          OBVIOUS
        <4>3. f[k].chars # <<"%">>
          BY <4>1, PieceKinds
        <4>4. Width("x") = 1 /\ Width("u") = 1
          BY DEF Width, Doubles, Floats
        <4>. QED
          BY <4>1, <4>2, <4>3, <4>4, PieceKinds
      <3>. QED
        BY <3>1, <3>2
    <2>. QED
      BY <1>2, <2>1 DEF WellFormed
  <1>5. Plain(f)
    BY <1>1, <1>3, PieceKinds DEF Plain
  <1>6. /\ \A k \in {1, 3} \cap 1 .. m : f[k].words = 0 /\ TakenOf(f[k]) = 0
        /\ \A k \in {2, 4} \cap 1 .. m : f[k].words = 1 /\ TakenOf(f[k]) = 1
    BY <1>3, PieceKinds DEF TakenOf
  <1>7. /\ Words(f, 1) = 0 /\ \A k \in 1 .. Len(f) : Words(f, k + 1) = Words(f, k) + f[k].words
        /\ Taken(f, 1) = 0 /\ \A k \in 1 .. Len(f) : Taken(f, k + 1) = Taken(f, k) + TakenOf(f[k])
    BY <1>2, WordsFacts, TakenFacts
  <1>8. 1 \in 1 .. m /\ 2 \in 1 .. m /\ (m = 4 => 3 \in 1 .. m /\ 4 \in 1 .. m)
    OBVIOUS
  <1>9. Words(f, 2) = 0 /\ Words(f, 3) = 1 /\ Taken(f, 2) = 0 /\ Taken(f, 3) = 1
    <2>1. Words(f, 1 + 1) = Words(f, 1) + 0 /\ Taken(f, 1 + 1) = Taken(f, 1) + 0
      BY <1>1, <1>6, <1>7, <1>8
    <2>2. Words(f, 2 + 1) = Words(f, 2) + 1 /\ Taken(f, 2 + 1) = Taken(f, 2) + 1
      BY <1>1, <1>6, <1>7, <1>8
    <2>. QED
      BY <1>7, <2>1, <2>2
  <1>10. m = 4 => Words(f, 4) = 1 /\ Words(f, 5) = 2 /\ Taken(f, 4) = 1
    <2>1. SUFFICES ASSUME m = 4
                   PROVE  Words(f, 4) = 1 /\ Words(f, 5) = 2 /\ Taken(f, 4) = 1
      OBVIOUS
    <2>2. Words(f, 3 + 1) = Words(f, 3) + 0 /\ Taken(f, 3 + 1) = Taken(f, 3) + 0
      BY <1>1, <1>6, <1>7, <1>8, <2>1
    <2>3. Words(f, 4 + 1) = Words(f, 4) + 1
      BY <1>1, <1>6, <1>7, <1>8, <2>1
    <2>. QED
      BY <1>9, <2>2, <2>3
  <1>11. /\ Len(f) = 2 => Words(f, Len(f) + 1) = 1
         /\ Len(f) = 4 => Words(f, Len(f) + 1) = 2 /\ Taken(f, 4) = 1
    <2>1. (m = 2 => m + 1 = 3) /\ (m = 4 => m + 1 = 5)
      OBVIOUS
    <2>. QED
      BY <1>1, <1>9, <1>10, <2>1, Zenon
  <1>. QED
    BY <1>2, <1>4, <1>5, <1>9, <1>11

(* The report of a vector and its words. *)
Reports(v, f, words) == /\ f = Report(HandlerOf(v), Pushed(v)).format
                        /\ words = Report(HandlerOf(v), Pushed(v)).words

(* The reports one by one. *)
LEMMA ReportFacts ==
    ASSUME NEW v, NEW f, NEW words, Reports(v, f, words)
    PROVE  /\ v = 8 => f = <<Code, Unum>> /\ words = <<Eip>>
           /\ v = 13 => f = <<Code, Unum, At, Hex>> /\ words = <<ErrorCode, Eip>>
           /\ v = 10 => f = <<Code, Hex, At, Hex>> /\ words = <<ErrorCode, Eip>>
           /\ v \notin {8, 10, 13}
                => /\ f = <<At, Hex>>
                   /\ words = <<IF v \in PushesCode THEN ErrorCode ELSE Eip>>
  <1>1. ASSUME NEW a, NEW b, NEW frame, frame = <<a, b>>
        PROVE  /\ Report("exception_double_falt", frame)
                     = [format |-> <<Code, Unum>>, words |-> <<b>>]
               /\ Report("exception_gp", frame)
                     = [format |-> <<Code, Unum, At, Hex>>, words |-> <<a, b>>]
               /\ Report("EXCEPTION_HANDLER__ERROR_CODE", frame)
                     = [format |-> <<Code, Hex, At, Hex>>, words |-> <<a, b>>]
    BY <1>1 DEF Report, InterruptFrame_ErrorCode
  <1>2. ASSUME NEW frame
        PROVE  Report("EXCEPTION_HANDLER", frame) = [format |-> <<At, Hex>>, words |-> <<frame[1]>>]
    BY DEF Report, InterruptFrame
  <1>3. CASE v = 8
    <2>1. HandlerOf(v) = "exception_double_falt" /\ Pushed(v) = <<ErrorCode, Eip>>
      BY <1>3 DEF HandlerOf, Pushed, PushesCode
    <2>. QED
      BY <1>1, <1>3, <2>1 DEF Reports
  <1>4. CASE v = 13
    <2>1. HandlerOf(v) = "exception_gp" /\ Pushed(v) = <<ErrorCode, Eip>>
      BY <1>4 DEF HandlerOf, Pushed, PushesCode
    <2>. QED
      BY <1>1, <1>4, <2>1 DEF Reports
  <1>5. CASE v = 10
    <2>1. HandlerOf(v) = "EXCEPTION_HANDLER__ERROR_CODE" /\ Pushed(v) = <<ErrorCode, Eip>>
      BY <1>5 DEF HandlerOf, Pushed, PushesCode
    <2>. QED
      BY <1>1, <1>5, <2>1 DEF Reports
  <1>6. CASE v \notin {8, 10, 13}
    <2>1. HandlerOf(v) = "EXCEPTION_HANDLER"
      BY <1>6 DEF HandlerOf
    <2>2. PICK frame, c : frame = Pushed(v) /\ c = IF v \in PushesCode THEN ErrorCode ELSE Eip
      OBVIOUS
    <2>3. frame[1] = c
      BY <2>2 DEF Pushed
    <2>4. Report("EXCEPTION_HANDLER", frame) = [format |-> <<At, Hex>>, words |-> <<frame[1]>>]
      BY <1>2
    <2>. QED
      BY <1>6, <2>1, <2>2, <2>3, <2>4 DEF Reports
  <1>. QED
    BY <1>3, <1>4, <1>5, <1>6

(* Sequences of one, two and four. *)
LEMMA Tuples ==
    ASSUME NEW S, NEW a \in S, NEW b \in S, NEW c \in S, NEW d \in S
    PROVE  /\ <<a>> \in Seq(S) /\ Len(<<a>>) = 1
           /\ <<a, b>> \in Seq(S) /\ Len(<<a, b>>) = 2
           /\ <<a, b, c, d>> \in Seq(S) /\ Len(<<a, b, c, d>>) = 4
  OBVIOUS

(* Reports are called as they should be. *)
LEMMA ReportPassed ==
    ASSUME NEW v, NEW f, NEW words, Reports(v, f, words)
    PROVE  Alternates(f) /\ WellPassed(f, words)
  <1>1. PICK P : P = [chars : Seq(Alphabet), words : Nat]
    OBVIOUS
  <1>2. At \in P /\ Code \in P /\ Hex \in P /\ Unum \in P
    <2>1. /\ <<"at">> \in Seq(Alphabet) /\ <<"code">> \in Seq(Alphabet)
          /\ <<"%", "x">> \in Seq(Alphabet) /\ <<"%", "u">> \in Seq(Alphabet)
      <3>1. "at" \in Alphabet /\ "code" \in Alphabet /\ "%" \in Alphabet /\ "x" \in Alphabet /\ "u" \in Alphabet
        BY ExceptionsAssumption
      <3>. QED
        BY <3>1, Tuples, Zenon
    <2>. QED
      BY <1>1, <2>1 DEF At, Code, Hex, Unum
  <1>3. PICK W : W = 0 .. Word - 1
    OBVIOUS
  <1>4. Eip \in W /\ ErrorCode \in W
    BY <1>3, ExceptionsAssumption
  <1>5. /\ f \in Seq(P) /\ words \in Seq(W)
        /\ (Len(f) = 2 /\ Len(words) = 1) \/ (Len(f) = 4 /\ Len(words) = 2)
    <2>1. \/ \E a \in {At, Code}, b \in {Hex, Unum}, c \in W : f = <<a, b>> /\ words = <<c>>
          \/ \E a, d \in {At, Code}, b, e \in {Hex, Unum}, c, g \in W :
               f = <<a, b, d, e>> /\ words = <<c, g>>
      <3>1. v = 8 => f = <<Code, Unum>> /\ words = <<Eip>>
        BY ReportFacts
      <3>2. v = 13 => f = <<Code, Unum, At, Hex>> /\ words = <<ErrorCode, Eip>>
        BY ReportFacts
      <3>3. v = 10 => f = <<Code, Hex, At, Hex>> /\ words = <<ErrorCode, Eip>>
        BY ReportFacts
      <3>4. v \notin {8, 10, 13} => f = <<At, Hex>> /\ (words = <<ErrorCode>> \/ words = <<Eip>>)
        BY ReportFacts
      <3>. QED
        BY <1>4, <3>1, <3>2, <3>3, <3>4, Zenon
    <2>2. {At, Code} \subseteq P /\ {Hex, Unum} \subseteq P
      BY <1>2
    <2>3. ASSUME NEW a \in P, NEW b \in P, NEW c \in W, f = <<a, b>>, words = <<c>>
          PROVE  f \in Seq(P) /\ words \in Seq(W) /\ Len(f) = 2 /\ Len(words) = 1
      BY <2>3, Tuples
    <2>4. ASSUME NEW a \in P, NEW b \in P, NEW d \in P, NEW e \in P, NEW c \in W, NEW g \in W,
                 f = <<a, b, d, e>>, words = <<c, g>>
          PROVE  f \in Seq(P) /\ words \in Seq(W) /\ Len(f) = 4 /\ Len(words) = 2
      BY <2>4, Tuples
    <2>. QED
      BY <2>1, <2>2, <2>3, <2>4, Zenon
  <1>6. \A k \in 1 .. Len(f) : f[k] \in IF k \in {1, 3} THEN {At, Code} ELSE {Hex, Unum}
    BY ReportFacts
  <1>7. Alternates(f)
    BY <1>1, <1>5, <1>6 DEF Alternates, Forms
  <1>8. Len(words) = Words(f, Len(f) + 1)
    BY <1>5, <1>7, Alternating
  <1>. QED
    BY <1>1, <1>3, <1>5, <1>7, <1>8, Alternating DEF WellPassed

(* All of a plain format is printed in the end. *)
LEMMA Printed ==
    ASSUME PrintfInv, printf = "idle", Plain(format)
    PROVE  /\ Len(out) = Len(format)
           /\ \A k \in 1 .. Len(format) : /\ Of(out[k], format, k)
                                          /\ Right(out[k], format, stack, i)
  <1>1. /\ format \in Forms /\ WellFormed(format) /\ Upto(format, stack, out, i)
        /\ fmt = Joined(format, Len(format)) /\ i > Len(fmt)
    BY DEF PrintfInv, WellPassed, Forms, fmt
  <1>2. PICK k : /\ Place(format, k, i) /\ Len(out) = k - 1
                 /\ \A n \in 1 .. k - 1 : Of(out[n], format, n)
    BY DEF PrintfInv, Stands
  <1>3. PICK m \in Nat, z \in Nat : m = Len(format) /\ z = Len(fmt)
    <2>1. fmt \in Seq(Alphabet)
      BY <1>1, StartFacts
    <2>. QED
      BY <1>1, <2>1, FormFacts
  <1>4. k \in 1 .. m + 1
    BY <1>2, <1>3 DEF Place
  <1>5. k \notin 1 .. m
    <2>1. SUFFICES ASSUME k \in 1 .. m
                   PROVE  FALSE
      OBVIOUS
    <2>2. PICK s \in Nat \ {0}, n \in Nat \ {0}, c \in Seq(Alphabet) :
            PieceAt(format, fmt, k, s, n, c)
      BY <1>1, <1>3, <2>1, PieceFacts
    <2>3. s + n <= z + 1 /\ s = Start(format, k) /\ n = Len(format[k].chars)
      BY <1>3, <2>2 DEF PieceAt
    <2>4. i \in s .. s + n - 1
      BY <1>2, <2>3 DEF Place, Inside
    <2>. QED
      BY <1>1, <1>3, <2>3, <2>4
  <1>6. k - 1 = m
    BY <1>3, <1>4, <1>5
  <1>. QED
    BY <1>1, <1>2, <1>3, <1>6 DEF Upto

(* A number of a report is that of its word, and does not look like a label. *)
LEMMA NumberTold ==
    ASSUME PrintfInv, NEW p, NEW k, NEW d \in {"x", "u"}, Prints(p, stack),
           Fits(p, format, k), p.directive = d, format \in Forms, k \in 1 .. Len(format)
    PROVE  /\ Number(p) = stack[Taken(format, k) + 1]
           /\ p.text # <<"at">> /\ p.text # <<"code">>
  <1>1. stack \in Seq(0 .. Word - 1)
    BY DEF PrintfInv, WellPassed
  <1>2. p.at = Taken(format, k) + 1
    <2>1. Words(format, k) \in Nat /\ Skipped(format, k) \in Nat
      <3>1. k \in 1 .. Len(format) + 1
        BY FormFacts
      <3>. QED
        BY <3>1, WordsFacts, SkippedFacts
    <2>. QED
      BY <2>1 DEF Fits, Taken
  <1>3. ShowsNumber(p)
    BY <1>1, NumberShown
  <1>4. Number(p) = stack[p.at]
    BY <1>3 DEF ShowsNumber, Number
  <1>5. PICK w : /\ p.text = Text(p.directive, w)
                 /\ w[1] = stack[p.at] /\ stack[p.at] \in 0 .. Word - 1
    BY <1>1, WordsTaken
  <1>5a. PICK x \in Nat : x = w[1]
    BY <1>5, WordFacts
  <1>6. PICK t : t = p.text
    OBVIOUS
  <1>7. t[1] \notin {"at", "code"}
    <2>1. CASE d = "x"
      <3>1. t = print_hex(WordDigits, x)
        BY <1>5, <1>5a, <1>6, <2>1, TextFacts
      <3>. QED
        BY <3>1, HexShown, WordFacts
    <2>2. CASE d = "u"
      <3>1. t = print_unum(x)
        BY <1>5, <1>5a, <1>6, <2>2, TextFacts
      <3>2. t \in Seq(Figures) /\ 1 \in 1 .. Len(t)
        BY <3>1, UnumFacts
      <3>3. t[1] \in Figures
        BY <3>2
      <3>. QED
        BY <3>3, DigitFacts DEF Figures
    <2>. QED
      BY <2>1, <2>2
  <1>8. t # <<"at">> /\ t # <<"code">>
    BY <1>7
  <1>. QED
    BY <1>2, <1>4, <1>6, <1>8

(* What follows a label in a report. *)
LEMMA Told ==
    ASSUME PrintfInv, printf = "idle", Alternates(format),
           NEW k \in 1 .. Len(out) - 1, NEW label \in {<<"at">>, <<"code">>}, out[k].text = label
    PROVE  /\ k \in {1, 3} /\ k \in 1 .. Len(format) - 1 /\ format[k].chars = label
           /\ Number(out[k + 1]) = stack[IF k = 1 THEN 1 ELSE 2]
  <1>1. PICK m \in {2, 4} : m = Len(format)
    BY DEF Alternates
  <1>2. /\ format \in Forms /\ Plain(format) /\ Taken(format, 2) = 0
        /\ m = 4 => Taken(format, 4) = 1
    BY <1>1, Alternating
  <1>3. /\ Len(out) = m
        /\ \A n \in 1 .. m : Of(out[n], format, n) /\ Right(out[n], format, stack, i)
    BY <1>1, <1>2, Printed
  <1>4. ASSUME NEW n \in 1 .. m, n \in {2, 4}
        PROVE  /\ Number(out[n]) = stack[Taken(format, n) + 1]
               /\ out[n].text # <<"at">> /\ out[n].text # <<"code">>
    <2>1. Known(format[n]) /\ format[n].chars[2] \in {"x", "u"}
      <3>1. format[n] \in {Hex, Unum}
        BY <1>1, <1>4 DEF Alternates
      <3>. QED
        BY <3>1, PieceKinds
    <2>2. Fits(out[n], format, n)
      BY <1>3, <2>1 DEF Of
    <2>3. PICK d \in {"x", "u"} : out[n].directive = d
      BY <2>1, <2>2 DEF Fits
    <2>4. Prints(out[n], stack)
      BY <1>3, <2>3 DEF Right
    <2>. QED
      BY <1>1, <1>2, <2>2, <2>3, <2>4, NumberTold
  <1>5. k \in 1 .. m - 1
    BY <1>3
  <1>6. k \in {1, 3}
    <2>1. k \in {1, 2, 3}
      BY <1>5
    <2>2. k # 2
      BY <1>4, <1>5
    <2>. QED
      BY <2>1, <2>2
  <1>7. format[k].chars = label
    <2>1. k \in 1 .. m
      BY <1>5
    <2>2. ~Known(format[k])
      <3>1. format[k] \in {At, Code}
        BY <1>1, <1>6, <2>1 DEF Alternates
      <3>. QED
        BY <3>1, PieceKinds
    <2>. QED
      BY <1>3, <2>1, <2>2 DEF Of
  <1>8. CASE k = 1
    <2>1. Number(out[2]) = stack[0 + 1]
      BY <1>2, <1>4
    <2>. QED
      BY <1>1, <1>5, <1>6, <1>7, <1>8, <2>1
  <1>9. CASE k = 3
    <2>1. m = 4
      BY <1>5, <1>9
    <2>2. Number(out[4]) = stack[1 + 1]
      BY <1>2, <1>4, <2>1
    <2>. QED
      BY <1>1, <1>5, <1>6, <1>7, <1>9, <2>2
  <1>. QED
    BY <1>6, <1>8, <1>9

(* A complete report tells what it has to. *)
LEMMA Telling ==
    ASSUME PrintfInv, printf = "idle", Reports(vector, format, stack)
    PROVE  /\ Says(<<"code">>, IF vector = 8 THEN Eip ELSE ErrorCode)
           /\ Says(<<"at">>, IF vector \in PushesCode \ {10, 13} THEN ErrorCode ELSE Eip)
  <1>1. Alternates(format)
    BY ReportPassed
  <1>2. ASSUME NEW k \in 1 .. Len(out) - 1, NEW label \in {<<"at">>, <<"code">>}, out[k].text = label
        PROVE  Number(out[k + 1]) = IF label = <<"code">>
                 THEN IF vector = 8 THEN Eip ELSE ErrorCode
                 ELSE IF vector \in PushesCode \ {10, 13} THEN ErrorCode ELSE Eip
    <2>1. /\ k \in {1, 3} /\ k \in 1 .. Len(format) - 1 /\ format[k].chars = label
          /\ Number(out[k + 1]) = stack[IF k = 1 THEN 1 ELSE 2]
      BY <1>1, <1>2, Told
    <2>2. At.chars = <<"at">> /\ Code.chars = <<"code">> /\ <<"at">> # <<"code">>
      BY DEF At, Code
    <2>3. PICK a, b, c, d : a = At /\ b = Code /\ c = Hex /\ d = Unum
      OBVIOUS
    <2>4. CASE vector = 8
      <3>1. format = <<b, d>> /\ stack = <<Eip>>
        BY <2>3, <2>4, ReportFacts
      <3>2. k = 1 /\ format[1] = b /\ stack[1] = Eip
        BY <2>1, <3>1
      <3>. QED
        BY <2>1, <2>2, <2>3, <2>4, <3>2
    <2>5. CASE vector \in {10, 13}
      <3>1. (format = <<b, d, a, c>> \/ format = <<b, c, a, c>>) /\ stack = <<ErrorCode, Eip>>
        BY <2>3, <2>5, ReportFacts
      <3>2. format[1] = b /\ format[3] = a /\ stack[1] = ErrorCode /\ stack[2] = Eip
        BY <3>1
      <3>. QED
        BY <2>1, <2>2, <2>3, <2>5, <3>2
    <2>6. CASE vector \notin {8, 10, 13}
      <3>1. format = <<a, c>> /\ stack = <<IF vector \in PushesCode THEN ErrorCode ELSE Eip>>
        BY <2>3, <2>6, ReportFacts
      <3>2. k = 1 /\ format[1] = a /\ stack[1] = IF vector \in PushesCode THEN ErrorCode ELSE Eip
        BY <2>1, <3>1
      <3>. QED
        BY <2>1, <2>2, <2>3, <2>6, <3>2
    <2>. QED
      BY <2>4, <2>5, <2>6
  <1>3. <<"at">> # <<"code">>
    OBVIOUS
  <1>. QED
    BY <1>2, <1>3 DEF Says

-----------------------------------------------------------------------------
(* The exception handlers. *)

(* A handler prints the report of its vector and has halted after it. *)
ExcInv == /\ PrintfInv
          /\ cpu # "kernel" => Reports(vector, format, stack)
          /\ cpu = "halted" => printf = "idle"

(* A handler is entered. *)
LEMMA EnterStep ==
    ASSUME NEW v, Enter(v)
    PROVE  ExcInv' /\ cpu' = "handler"
  <1>1. PICK f, words : Reports(v, f, words)
    BY DEF Reports
  <1>2. WellPassed(f, words)
    BY <1>1, ReportPassed
  <1>3. Call(f, words)
    BY <1>1 DEF Enter, Reports
  <1>4. PrintfInv'
    BY <1>2, <1>3, CallStep
  <1>5. format' = f /\ stack' = words /\ vector' = v /\ cpu' = "handler"
    BY <1>3 DEF Call, Enter
  <1>6. Reports(vector, format, stack)'
    BY <1>1, <1>5 DEF Reports
  <1>. QED
    BY <1>4, <1>5, <1>6 DEF ExcInv

(* ExcInv at the start and from step to step. *)
LEMMA ExcInitially == ExcInit => ExcInv
  <1>. SUFFICES ASSUME ExcInit
                PROVE  ExcInv
    OBVIOUS
  <1>1. /\ format = <<>> /\ stack = <<>> /\ out = <<>> /\ i = 1 /\ args = 0
        /\ cpu = "kernel"
    BY DEF ExcInit, PrintfInit
  <1>2. PICK e : e = <<>>
    OBVIOUS
  <1>3. e \in Forms /\ Len(e) = 0 /\ DOMAIN e = {}
    BY <1>2 DEF Forms
  <1>4. /\ Words(e, 1) = 0 /\ Joined(e, 0) \in Seq(Alphabet) /\ Start(e, 0 + 1) = Len(Joined(e, 0)) + 1
        /\ Start(e, 1) = 1
    BY <1>3, WordsFacts, StartFacts
  <1>5. WellPassed(e, e)
    <2>1. e \in Seq(0 .. Word - 1)
      BY <1>2
    <2>2. Len(e) = Words(e, Len(e) + 1)
      BY <1>3, <1>4
    <2>. QED
      BY <1>3, <2>1, <2>2 DEF WellPassed, WellFormed, Forms
  <1>6. Upto(e, e, e, 1) /\ Stands(e, e, 1, 0)
    BY <1>2, <1>5, Begins
  <1>7. i > Len(fmt)
    <2>1. Len(Joined(e, 0)) = 0
      BY <1>4
    <2>. QED
      BY <1>1, <1>2, <1>3, <2>1 DEF fmt
  <1>. QED
    BY <1>1, <1>2, <1>5, <1>6, <1>7 DEF ExcInv, PrintfInv

(* Every step keeps it. *)
LEMMA ExcSteps == ExcInv /\ [ExcNext]_<<printfVars, excVars>> => ExcInv'
  <1>. SUFFICES ASSUME ExcInv, [ExcNext]_<<printfVars, excVars>>
                PROVE  ExcInv'
    OBVIOUS
  <1>1. CASE KernelPrints
    <2>1. PICK c \in Calls : Call(c.format, c.words)
      BY <1>1 DEF KernelPrints
    <2>2. WellPassed(c.format, c.words)
      BY ExceptionsAssumption
    <2>3. PrintfInv'
      BY <2>1, <2>2, CallStep
    <2>. QED
      BY <1>1, <2>3 DEF KernelPrints, excVars, ExcInv
  <1>2. CASE PrintOn
    <2>1. PrintfInv'
      BY <1>2, PrintfSteps DEF ExcInv, PrintOn
    <2>2. format' = format /\ stack' = stack
      BY <1>2 DEF PrintOn, PrintfStep, Character, TakeArgument, Overflow, Unknown, Return
    <2>3. cpu' = cpu /\ vector' = vector /\ cpu # "halted"
      BY <1>2 DEF PrintOn, excVars
    <2>. QED
      BY <2>1, <2>2, <2>3 DEF ExcInv, Reports
  <1>3. CASE Raise
    BY <1>3, EnterStep DEF Raise
  <1>4. CASE Trap
    BY <1>4, EnterStep DEF Trap
  <1>5. CASE Nmi
    BY <1>5, EnterStep DEF Nmi
  <1>6. CASE Halt
    <2>1. PrintfInv'
      BY <1>6 DEF Halt, printfVars, ExcInv, PrintfInv, Upto, Stands, Right, Of, fmt
    <2>. QED
      BY <1>6, <2>1 DEF Halt, printfVars, ExcInv, Reports
  <1>7. CASE UNCHANGED <<printfVars, excVars>>
    <2>1. PrintfInv'
      BY <1>7 DEF printfVars, ExcInv, PrintfInv, Upto, Stands, Right, Of, fmt
    <2>. QED
      BY <1>7, <2>1 DEF printfVars, excVars, ExcInv, Reports
  <1>. QED
    BY <1>1, <1>2, <1>3, <1>4, <1>5, <1>6, <1>7 DEF ExcNext

(* ExcInv, the invariant the rest follows from. *)
THEOREM ExceptionsInvariant == ExcSpec => []ExcInv
  BY ExcInitially, ExcSteps, PTL DEF ExcSpec

(* Whatever is printed, of well-formed calls one after another and of the  *)
(* reports that break into them, printf takes every argument it knows of   *)
(* once, in order, and none beyond what was passed (print_utils.c:396).    *)
THEOREM ArgumentsTaken == ExcSpec => []TakesWhatWasPassed
  <1>1. ExcInv => TakesWhatWasPassed
    BY Takings DEF ExcInv
  <1>. QED
    BY <1>1, ExceptionsInvariant, PTL

(* And what it prints of them are their values, in every base and for any  *)
(* width of a word, number of decimals and argument.  Of a double, these   *)
(* are the decimals that its significant bits, or those of the float it is *)
(* converted to (print_utils.c:418), can tell apart: what is shown differs *)
(* from the value by the cut behind the decimals (print_utils.c:219) and   *)
(* by half a last bit for each rounding (print_utils.c:213), no carry is   *)
(* lost.                                                                   *)
THEOREM ValuesShown == ExcSpec => []ShowsWhatWasPassed
  <1>1. ExcInv => ShowsWhatWasPassed
    BY Showings DEF ExcInv
  <1>. QED
    BY <1>1, ExceptionsInvariant, PTL

(* The report on the screen of a halted machine gives the address and the  *)
(* error code for what they are, whatever the kernel was printing when the *)
(* fault came, except that the double fault's gives the address as the     *)
(* code (kernel.c:25) and those of the vectors with a code for which no    *)
(* handler expects one give the code as the address (kernel.c:104).        *)
THEOREM ReportsTell == ExcSpec => []ReportTells
  <1>1. ExcInv => ReportTells
    BY Telling DEF ExcInv, ReportTells
  <1>. QED
    BY <1>1, ExceptionsInvariant, PTL

(* No step leads from a handler or the halt behind it back to the kernel. *)
THEOREM NeverBack == ExcSpec => StaysHalted
  <1>1. [ExcNext]_<<printfVars, excVars>> => [cpu # "kernel" => cpu' # "kernel"]_excVars
    <2>. SUFFICES ASSUME ExcNext, cpu # "kernel"
                  PROVE  cpu' # "kernel"
      BY DEF excVars
    <2>1. KernelPrints \/ Raise \/ Trap => FALSE
      BY DEF KernelPrints, Raise, Trap
    <2>2. PrintOn => cpu' # "kernel"
      BY DEF PrintOn, excVars
    <2>3. Nmi => cpu' # "kernel"
      BY DEF Nmi, Enter
    <2>4. Halt => cpu' # "kernel"
      BY DEF Halt
    <2>. QED
      BY <2>1, <2>2, <2>3, <2>4 DEF ExcNext
  <1>. QED
    BY <1>1, PTL DEF ExcSpec, StaysHalted

=============================================================================
