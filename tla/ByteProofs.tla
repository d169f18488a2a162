----------------------------- MODULE ByteProofs -----------------------------
(* What is kept as bytes: the records of the database (RecordCode), the dumps *)
(* of keys (RdbCode) and the values of strings (StringKv).  Every key and     *)
(* META value decodes to what was encoded, the order of the bytes is the      *)
(* order the scans rely on, a dump restores what was dumped, and the commands *)
(* of strings do to bits and bytes what StringAbs promises, for bytes, widths *)
(* and strings of any size.                                                   *)
EXTENDS RecordCode, RdbCode, StringKv, RankTheorems, SequenceTheorems

----------------------------------------------------------------------------
(* Numerals *)

\* A step of the recursions below, as a function, so that the lemma can be
\* cited for any of them.
Unfolds(g, w, c, f) == g = [i \in 0..w |-> IF i = 0 THEN c ELSE f[<<i, g[i - 1]>>]]

LEMMA Recursion ==
    ASSUME NEW S, NEW w \in Nat, NEW c \in S, NEW f \in [Nat \X S -> S]
    PROVE  \E g \in [0..w -> S] : Unfolds(g, w, c, f)
<1> DEFINE P == {n \in Nat : \E g \in [0..n -> S] : Unfolds(g, n, c, f)}
<1>1. 0 \in P
  <2> DEFINE g == [i \in 0..0 |-> c]
  <2>1. g \in [0..0 -> S] /\ Unfolds(g, 0, c, f)
    BY DEF Unfolds
  <2> QED
    BY <2>1
<1>2. ASSUME NEW n \in Nat, n \in P
      PROVE  n + 1 \in P
  <2>1. PICK g \in [0..n -> S] : Unfolds(g, n, c, f)
    BY <1>2
  <2> DEFINE h == [i \in 0..(n + 1) |-> IF i = n + 1 THEN f[<<n + 1, g[n]>>] ELSE g[i]]
  <2>2. h \in [0..(n + 1) -> S]
    OBVIOUS
  <2>3. \A i \in 0..(n + 1) : h[i] = IF i = 0 THEN c ELSE f[<<i, h[i - 1]>>]
    <3> TAKE i \in 0..(n + 1)
    <3>1. \A j \in 0..n : g[j] = IF j = 0 THEN c ELSE f[<<j, g[j - 1]>>]
      BY <2>1 DEF Unfolds
    <3>2. CASE i = n + 1
      <4>1. h[i] = f[<<i, g[n]>>] /\ h[i - 1] = g[n] /\ i # 0
        BY <3>2
      <4> HIDE DEF h
      <4> QED
        BY <4>1
    <3>3. CASE i # n + 1
      <4>1. i \in 0..n /\ h[i] = g[i]
        BY <3>3
      <4>2. i # 0 => h[i - 1] = g[i - 1]
        BY <4>1
      <4> HIDE DEF h
      <4> QED
        BY <3>1, <4>1, <4>2
    <3> QED
      BY <3>2, <3>3
  <2>4. Unfolds(h, n + 1, c, f)
    <3> HIDE DEF h
    <3>1. h = [i \in 0..(n + 1) |-> h[i]]
      BY <2>2
    <3> QED
      BY <2>3, <3>1 DEF Unfolds
  <2> HIDE DEF h
  <2> QED
    BY <2>2, <2>4
<1> HIDE DEF P
<1>3. w \in P
  BY <1>1, <1>2, NatSetInduction
<1> QED
  BY <1>3 DEF P

\* The powers of b: their number, and the list of them.
Powers(b, w, p) ==
    /\ p \in [0..w -> Nat \ {0}] /\ p[0] = 1
    /\ \A i \in 1..w : p[i] = p[i - 1] * b
\* What is left of n after i divisions by b
Quotients(b, n, w, q) ==
    /\ q \in [0..w -> Nat] /\ q[0] = n
    /\ \A i \in 1..w : q[i] = q[i - 1] \div b
\* The values of the heads of s
Values(b, s, w, v) ==
    /\ v \in [0..w -> Nat] /\ v[0] = 0
    /\ \A i \in 1..w : v[i] = v[i - 1] * b + s[i]

LEMMA DivBound ==
    ASSUME NEW b \in Nat \ {0}, NEW n \in Nat, NEW p \in Nat, n < p * b
    PROVE  n \div b < p
OBVIOUS

LEMMA PowersExist ==
    ASSUME NEW b \in Nat \ {0}, NEW w \in Nat
    PROVE  \E p : Powers(b, w, p) /\ Power(b, w) = p[w]
<1> DEFINE f == [x \in Nat \X Nat |-> x[2] * b]
           E(p) == p = [i \in 0..w |-> IF i = 0 THEN 1 ELSE p[i - 1] * b]
           p == CHOOSE g : E(g)
<1>1. \E g : E(g)
  <2>1. f \in [Nat \X Nat -> Nat]
    OBVIOUS
  <2>2. PICK g \in [0..w -> Nat] : Unfolds(g, w, 1, f)
    BY <2>1, Recursion
  <2>3. \A i \in 0..w : i # 0 => f[<<i, g[i - 1]>>] = g[i - 1] * b
    OBVIOUS
  <2> HIDE DEF f
  <2>4. E(g)
    BY <2>2, <2>3 DEF Unfolds
  <2> HIDE DEF E
  <2> QED
    BY <2>4
<1>2. E(p)
  BY <1>1
<1> HIDE DEF p, f
<1> DEFINE P == {i \in Nat : i <= w => p[i] \in Nat \ {0}}
<1>3. 0 \in P
  BY <1>2
<1>4. ASSUME NEW i \in Nat, i \in P
      PROVE  i + 1 \in P
  <2> SUFFICES ASSUME i + 1 <= w PROVE p[i + 1] \in Nat \ {0}
    OBVIOUS
  <2>1. p[i] \in Nat \ {0} /\ p[i + 1] = p[i] * b
    BY <1>2, <1>4
  <2> QED
    BY <2>1
<1>5. \A i \in Nat : i \in P
  <2> HIDE DEF P
  <2> QED
    BY <1>3, <1>4, NatSetInduction
<1>6. Powers(b, w, p)
  BY <1>2, <1>5, SMTT(30) DEF Powers
<1>7. Power(b, w) = p[w]
  BY DEF Power, p
<1> QED
  BY <1>6, <1>7

LEMMA QuotientsExist ==
    ASSUME NEW b \in Nat \ {0}, NEW n \in Nat, NEW w \in Nat
    PROVE  \E q : Quotients(b, n, w, q) /\ Numeral(b, n, w) = [i \in 1..w |-> q[w - i] % b]
<1> DEFINE f == [x \in Nat \X Nat |-> x[2] \div b]
           E(q) == q = [i \in 0..w |-> IF i = 0 THEN n ELSE q[i - 1] \div b]
           q == CHOOSE g : E(g)
<1>1. \E g : E(g)
  <2>1. f \in [Nat \X Nat -> Nat]
    BY DivMod
  <2>2. PICK g \in [0..w -> Nat] : Unfolds(g, w, n, f)
    BY <2>1, Recursion
  <2>3. \A i \in 0..w : i # 0 => f[<<i, g[i - 1]>>] = g[i - 1] \div b
    OBVIOUS
  <2> HIDE DEF f
  <2>4. E(g)
    BY <2>2, <2>3 DEF Unfolds
  <2> HIDE DEF E
  <2> QED
    BY <2>4
<1>2. E(q)
  BY <1>1
<1> HIDE DEF q, f
<1> DEFINE P == {i \in Nat : i <= w => q[i] \in Nat}
<1>3. 0 \in P
  BY <1>2
<1>4. ASSUME NEW i \in Nat, i \in P
      PROVE  i + 1 \in P
  <2> SUFFICES ASSUME i + 1 <= w PROVE q[i + 1] \in Nat
    OBVIOUS
  <2>1. q[i] \in Nat /\ q[i + 1] = q[i] \div b
    BY <1>2, <1>4
  <2> QED
    BY <2>1, DivMod
<1>5. \A i \in Nat : i \in P
  <2> HIDE DEF P
  <2> QED
    BY <1>3, <1>4, NatSetInduction
<1>6. Quotients(b, n, w, q)
  BY <1>2, <1>5 DEF Quotients
<1>7. Numeral(b, n, w) = [i \in 1..w |-> q[w - i] % b]
  BY DEF Numeral, q
<1> QED
  BY <1>6, <1>7

LEMMA MulAdd == ASSUME NEW x \in Nat, NEW y \in Nat, NEW b \in Nat PROVE x * b + y \in Nat
OBVIOUS

LEMMA ValuesExist ==
    ASSUME NEW b \in Nat \ {0}, NEW s \in Seq(Nat)
    PROVE  \E v : Values(b, s, Len(s), v) /\ ValueOf(b, s) = v[Len(s)]
<1> DEFINE w == Len(s)
           f == [x \in Nat \X Nat |-> x[2] * b + (IF x[1] \in 1..w THEN s[x[1]] ELSE 0)]
           E(v) == v = [i \in 0..w |-> IF i = 0 THEN 0 ELSE v[i - 1] * b + s[i]]
           v == CHOOSE g : E(g)
<1>0. w \in Nat /\ \A i \in 1..w : s[i] \in Nat
  OBVIOUS
<1>7. ValueOf(b, s) = v[w]
  BY DEF ValueOf
<1> HIDE DEF w
<1>1. \E g : E(g)
  <2>1. f \in [Nat \X Nat -> Nat]
    <3>1. ASSUME NEW x \in Nat \X Nat PROVE f[x] \in Nat
      <4>1. x[2] * b \in Nat
        OBVIOUS
      <4>2. (IF x[1] \in 1..w THEN s[x[1]] ELSE 0) \in Nat
        BY <1>0
      <4> QED
        BY <4>1, <4>2
    <3> QED
      BY <3>1
  <2>2. PICK g \in [0..w -> Nat] : Unfolds(g, w, 0, f)
    BY <1>0, <2>1, Recursion
  <2>3. \A i \in 0..w : i # 0 => f[<<i, g[i - 1]>>] = g[i - 1] * b + s[i]
    BY <1>0, SMTT(30)
  <2> HIDE DEF f
  <2>4. E(g)
    BY <2>2, <2>3 DEF Unfolds
  <2> HIDE DEF E
  <2> QED
    BY <2>4
<1>2. E(v)
  BY <1>1
<1> HIDE DEF v, f
<1>8. v = [i \in 0..w |-> v[i]] /\ \A i \in 0..w : v[i] = IF i = 0 THEN 0 ELSE v[i - 1] * b + s[i]
  BY <1>2
<1> HIDE DEF E
<1> DEFINE P == {i \in Nat : i <= w => v[i] \in Nat}
<1>3. 0 \in P
  BY <1>0, <1>8, SMTT(30)
<1>4. ASSUME NEW i \in Nat, i \in P
      PROVE  i + 1 \in P
  <2> SUFFICES ASSUME i + 1 <= w PROVE v[i + 1] \in Nat
    OBVIOUS
  <2>1. i + 1 \in 0..w /\ i + 1 \in 1..w /\ i + 1 # 0 /\ (i + 1) - 1 = i
    BY <1>0
  <2>2. v[i] \in Nat /\ s[i + 1] \in Nat
    BY <1>0, <1>4, <2>1
  <2>3. v[i + 1] = v[i] * b + s[i + 1]
    BY <1>8, <2>1
  <2>4. v[i] * b + s[i + 1] \in Nat
    BY <2>2, MulAdd
  <2> QED
    BY <2>3, <2>4
<1>5. \A i \in Nat : i \in P
  <2> HIDE DEF P
  <2> QED
    BY <1>3, <1>4, NatSetInduction
<1>6. Values(b, s, w, v)
  <2>1. v[0] = 0
    <3>1. 0 \in 0..w
      BY <1>0
    <3> QED
      BY <1>8, <3>1
  <2>4. ASSUME NEW i \in 0..w PROVE v[i] \in Nat
    BY <1>0, <1>5
  <2>3. v \in [0..w -> Nat]
    BY <1>8, <2>4
  <2>2. ASSUME NEW i \in 1..w PROVE v[i] = v[i - 1] * b + s[i]
    <3>1. i \in 0..w /\ i # 0
      BY <1>0
    <3> QED
      BY <1>8, <3>1
  <2> QED
    BY <2>1, <2>2, <2>3 DEF Values
<1> QED
  BY <1>6, <1>7 DEF w

----------------------------------------------------------------------------
(* Digits and values *)

LEMMA Widths ==
    /\ Radix \in Nat \ {0} /\ Radix - 1 \in Nat /\ Radix >= 2
    /\ Digits16 \in Nat \ {0} /\ Digits64 \in Nat \ {0}
    /\ Half \in Nat \ {0} /\ Power(Radix, Digits64) = 2 * Half
BY CodeAssumption

Bytes == 0..(Radix - 1)

LEMMA BytesAreNumbers ==
    ASSUME NEW s \in Seq(Bytes)
    PROVE  s \in Seq(Nat) /\ Len(s) \in Nat /\ \A i \in 1..Len(s) : s[i] \in Nat /\ s[i] < Radix
<1>1. Bytes \subseteq Nat /\ \A x \in Bytes : x < Radix
  BY Widths DEF Bytes
<1>2. s \in [1..Len(s) -> Bytes] /\ Len(s) \in Nat
  OBVIOUS
<1>3. s \in [1..Len(s) -> Nat]
  BY <1>1, <1>2
<1> QED
  BY <1>1, <1>2, <1>3

LEMMA NumeralType ==
    ASSUME NEW b \in Nat \ {0}, NEW n \in Nat, NEW w \in Nat
    PROVE  /\ Numeral(b, n, w) \in Seq(0..(b - 1)) /\ Numeral(b, n, w) \in Seq(Nat)
           /\ Len(Numeral(b, n, w)) = w
<1>1. PICK q : Quotients(b, n, w, q) /\ Numeral(b, n, w) = [i \in 1..w |-> q[w - i] % b]
  BY QuotientsExist, ZenonT(60)
<1>2. ASSUME NEW i \in 1..w PROVE q[w - i] % b \in 0..(b - 1)
  <2>1. w - i \in 0..w
    OBVIOUS
  <2>2. q[w - i] \in Nat
    BY <1>1, <2>1 DEF Quotients
  <2> QED
    BY <2>2, DivMod
<1>3. [i \in 1..w |-> q[w - i] % b] \in [1..w -> 0..(b - 1)]
  BY <1>2
<1>4. [i \in 1..w |-> q[w - i] % b] \in [1..w -> Nat]
  BY <1>2
<1> QED
  BY <1>1, <1>3, <1>4

LEMMA DigitsType ==
    ASSUME NEW n \in Nat, NEW w \in Nat
    PROVE  Digits(n, w) \in Seq(Bytes) /\ Len(Digits(n, w)) = w
BY NumeralType, Widths DEF Digits, Bytes

\* The bound of a width is what its quotients run out at.
LEMMA QuotientsEnd ==
    ASSUME NEW b \in Nat \ {0}, NEW n \in Nat, NEW w \in Nat, n < Power(b, w),
           NEW q, Quotients(b, n, w, q)
    PROVE  q[w] = 0
<1>1. PICK p : Powers(b, w, p) /\ Power(b, w) = p[w]
  BY PowersExist
<1> DEFINE P == {i \in Nat : i <= w => q[i] < p[w - i]}
<1>2. 0 \in P
  <2>1. q[0] = n /\ w - 0 = w
    BY DEF Quotients
  <2> QED
    BY <1>1, <2>1
<1>3. ASSUME NEW i \in Nat, i \in P PROVE i + 1 \in P
  <2> SUFFICES ASSUME i + 1 <= w PROVE q[i + 1] < p[w - (i + 1)]
    OBVIOUS
  <2>1. i + 1 \in 1..w /\ i \in 0..w /\ (i + 1) - 1 = i /\ w - i \in 1..w
        /\ (w - i) - 1 = w - (i + 1) /\ w - (i + 1) \in 0..w
    OBVIOUS
  <2>2. q[i] \in Nat /\ q[i + 1] = q[i] \div b
    BY <2>1 DEF Quotients
  <2>3. p[w - (i + 1)] \in Nat /\ p[w - i] = p[w - (i + 1)] * b
    BY <1>1, <2>1 DEF Powers
  <2>4. q[i] < p[w - i]
    BY <1>3
  <2> QED
    BY <2>2, <2>3, <2>4, DivBound
<1> HIDE DEF P
<1>4. w \in P
  BY <1>2, <1>3, NatSetInduction
<1>5. q[w] < p[0] /\ p[0] = 1 /\ q[w] \in Nat
  <2>1. w - w = 0 /\ w \in 0..w
    OBVIOUS
  <2> QED
    BY <1>1, <1>4, <2>1 DEF P, Powers, Quotients
<1> QED
  BY <1>5

\* be64toh inverts htobe64, for a number that its width holds.
LEMMA ValueOfNumeral ==
    ASSUME NEW b \in Nat \ {0}, NEW n \in Nat, NEW w \in Nat, n < Power(b, w)
    PROVE  ValueOf(b, Numeral(b, n, w)) = n
<1> DEFINE s == Numeral(b, n, w)
<1>1. Len(s) = w /\ s \in Seq(Nat)
  BY NumeralType
<1>2. PICK q : Quotients(b, n, w, q) /\ Numeral(b, n, w) = [i \in 1..w |-> q[w - i] % b]
  BY QuotientsExist
<1>3. \A i \in 1..w : s[i] = q[w - i] % b
  BY <1>2
<1>4. q[w] = 0
  BY <1>2, QuotientsEnd
<1> HIDE DEF s
<1>5. PICK v : Values(b, s, w, v) /\ ValueOf(b, s) = v[w]
  BY <1>1, ValuesExist
<1> DEFINE P == {i \in Nat : i <= w => v[i] = q[w - i]}
<1>6. 0 \in P
  <2>1. w - 0 = w
    OBVIOUS
  <2>2. v[0] = 0
    BY <1>5 DEF Values
  <2> QED
    BY <1>4, <2>1, <2>2
<1>7. ASSUME NEW i \in Nat, i \in P PROVE i + 1 \in P
  <2> SUFFICES ASSUME i + 1 <= w PROVE v[i + 1] = q[w - (i + 1)]
    OBVIOUS
  <2>1. i + 1 \in 1..w /\ (i + 1) - 1 = i /\ w - i \in 1..w
        /\ (w - i) - 1 = w - (i + 1) /\ w - (i + 1) \in 0..w
    OBVIOUS
  <2>2. v[i + 1] = v[i] * b + s[i + 1] /\ v[i] = q[w - i]
    BY <1>5, <1>7, <2>1 DEF Values
  <2>3. s[i + 1] = q[w - (i + 1)] % b
    BY <1>3, <2>1
  <2>4. q[w - i] = q[w - (i + 1)] \div b /\ q[w - (i + 1)] \in Nat
    BY <1>2, <2>1 DEF Quotients
  <2>5. q[w - (i + 1)] = (q[w - (i + 1)] \div b) * b + (q[w - (i + 1)] % b)
    BY <2>4, DivMod
  <2> QED
    BY <2>2, <2>3, <2>4, <2>5
<1> HIDE DEF P
<1>8. w \in P
  BY <1>6, <1>7, NatSetInduction
<1>9. v[w] = q[0] /\ q[0] = n
  <2>1. w - w = 0
    OBVIOUS
  <2> QED
    BY <1>2, <1>8, <2>1 DEF P, Quotients
<1> QED
  BY <1>5, <1>9 DEF s

LEMMA ValueOfDigits ==
    ASSUME NEW n \in Nat, NEW w \in Nat, n < Power(Radix, w)
    PROVE  Value(Digits(n, w)) = n
BY ValueOfNumeral, Widths DEF Digits, Value

----------------------------------------------------------------------------
(* The order of bytes *)

\* The heads of s and t of length i, compared
HeadsEqual(s, t, i) == \A j \in 1..i : s[j] = t[j]
HeadsLess(s, t, i) == \E j \in 1..i : s[j] < t[j] /\ \A k \in 1..(j - 1) : s[k] = t[k]

\* A number is compared by what is left of its last digit, and then by that.
CarryRule(b, x, y, c, d, xc, yd) ==
    /\ xc < yd <=> x < y \/ (x = y /\ c < d)
    /\ xc = yd <=> x = y /\ c = d

LEMMA Carry ==
    ASSUME NEW b \in Nat \ {0}, NEW x \in Nat, NEW y \in Nat, NEW c \in Nat, NEW d \in Nat,
           c < b, d < b
    PROVE  CarryRule(b, x, y, c, d, x * b + c, y * b + d)
<1>1. x < y => x * b + c < y * b + d
  <2> SUFFICES ASSUME x < y PROVE x * b + c < y * b + d
    OBVIOUS
  <2>1. PICK z \in Nat : y = x + 1 + z
    <3>1. y - x - 1 \in Nat /\ y = x + 1 + (y - x - 1)
      OBVIOUS
    <3> QED
      BY <3>1
  <2>2. y * b = x * b + b + z * b /\ z * b \in Nat
    BY <2>1
  <2> QED
    BY <2>2
<1>2. y < x => y * b + d < x * b + c
  <2> SUFFICES ASSUME y < x PROVE y * b + d < x * b + c
    OBVIOUS
  <2>1. PICK z \in Nat : x = y + 1 + z
    <3>1. x - y - 1 \in Nat /\ x = y + 1 + (x - y - 1)
      OBVIOUS
    <3> QED
      BY <3>1
  <2>2. x * b = y * b + b + z * b /\ z * b \in Nat
    BY <2>1
  <2> QED
    BY <2>2
<1>3. x * b \in Nat /\ y * b \in Nat /\ (x = y => x * b = y * b)
  OBVIOUS
<1>4. x < y \/ y < x \/ x = y
  OBVIOUS
<1> QED
  BY <1>1, <1>2, <1>3, <1>4 DEF CarryRule

\* Among strings of one length the order of bytes is that of the values.
LEMMA HeadsCompare ==
    ASSUME NEW s \in Seq(Bytes), NEW t \in Seq(Bytes), Len(s) = Len(t)
    PROVE  /\ Value(s) < Value(t) <=> HeadsLess(s, t, Len(s))
           /\ Value(s) = Value(t) <=> HeadsEqual(s, t, Len(s))
           /\ Value(s) \in Nat
<1> DEFINE w == Len(s)
<1>0. w \in Nat /\ \A i \in 1..w : s[i] \in Nat /\ t[i] \in Nat /\ s[i] < Radix /\ t[i] < Radix
  BY BytesAreNumbers
<1>1. PICK v : Values(Radix, s, w, v) /\ Value(s) = v[w]
  BY BytesAreNumbers, ValuesExist, Widths DEF Value
<1>2. PICK u : Values(Radix, t, w, u) /\ Value(t) = u[w]
  BY BytesAreNumbers, ValuesExist, Widths DEF Value
<1> HIDE DEF w
<1> DEFINE P == {i \in Nat : i <= w => /\ v[i] < u[i] <=> HeadsLess(s, t, i)
                                       /\ v[i] = u[i] <=> HeadsEqual(s, t, i)}
<1>3. 0 \in P
  <2>1. v[0] = 0 /\ u[0] = 0
    BY <1>1, <1>2 DEF Values
  <2>2. ~HeadsLess(s, t, 0) /\ HeadsEqual(s, t, 0)
    BY DEF HeadsLess, HeadsEqual
  <2> QED
    BY <2>1, <2>2
<1>4. ASSUME NEW i \in Nat, i \in P PROVE i + 1 \in P
  <2> SUFFICES ASSUME i + 1 <= w
               PROVE  /\ v[i + 1] < u[i + 1] <=> HeadsLess(s, t, i + 1)
                      /\ v[i + 1] = u[i + 1] <=> HeadsEqual(s, t, i + 1)
    OBVIOUS
  <2>1. i + 1 \in 1..w /\ (i + 1) - 1 = i /\ i \in 0..w
    BY <1>0
  <2>2. /\ v[i + 1] = v[i] * Radix + s[i + 1] /\ v[i] \in Nat
        /\ u[i + 1] = u[i] * Radix + t[i + 1] /\ u[i] \in Nat
    BY <1>1, <1>2, <2>1 DEF Values
  <2>3. /\ s[i + 1] \in Nat /\ s[i + 1] < Radix
        /\ t[i + 1] \in Nat /\ t[i + 1] < Radix
    BY <1>0, <2>1
  <2>4. /\ v[i + 1] < u[i + 1] <=> v[i] < u[i] \/ (v[i] = u[i] /\ s[i + 1] < t[i + 1])
        /\ v[i + 1] = u[i + 1] <=> v[i] = u[i] /\ s[i + 1] = t[i + 1]
    <3>1. v[i] \in Nat /\ u[i] \in Nat
      BY <2>2
    <3>2. Radix \in Nat \ {0}
      BY Widths
    <3>3. CarryRule(Radix, v[i], u[i], s[i + 1], t[i + 1], v[i] * Radix + s[i + 1], u[i] * Radix + t[i + 1])
      BY <2>3, <3>1, <3>2, Carry, Zenon
    <3>4. CarryRule(Radix, v[i], u[i], s[i + 1], t[i + 1], v[i + 1], u[i + 1])
      BY <2>2, <3>3, Zenon
    <3> QED
      BY <3>4, Zenon DEF CarryRule
  <2>5. HeadsEqual(s, t, i + 1) <=> HeadsEqual(s, t, i) /\ s[i + 1] = t[i + 1]
    BY DEF HeadsEqual
  <2>6. HeadsLess(s, t, i + 1) <=> HeadsLess(s, t, i) \/ (HeadsEqual(s, t, i) /\ s[i + 1] < t[i + 1])
    BY DEF HeadsEqual, HeadsLess
  <2>7. /\ v[i] < u[i] <=> HeadsLess(s, t, i)
        /\ v[i] = u[i] <=> HeadsEqual(s, t, i)
    BY <1>4, <2>1
  <2> QED
    BY <2>4, <2>5, <2>6, <2>7
<1> HIDE DEF P
<1>5. w \in P
  BY <1>0, <1>3, <1>4, NatSetInduction
<1>6. v[w] \in Nat
  <2>1. w \in 0..w
    BY <1>0
  <2> QED
    BY <1>1, <2>1 DEF Values
<1> QED
  BY <1>0, <1>1, <1>2, <1>5, <1>6 DEF P, w

LEMMA StartsIs ==
    ASSUME NEW p \in Seq(Nat), NEW s \in Seq(Nat)
    PROVE  Starts(p, s) <=> Len(p) <= Len(s) /\ \A i \in 1..Len(p) : p[i] = s[i]
<1> SUFFICES ASSUME Len(p) <= Len(s)
             PROVE  SubSeq(s, 1, Len(p)) = p <=> \A i \in 1..Len(p) : p[i] = s[i]
  BY DEF Starts
<1> DEFINE h == SubSeq(s, 1, Len(p))
<1>1. h \in Seq(Nat) /\ Len(h) = Len(p) /\ \A i \in 1..Len(p) : h[i] = s[i]
  OBVIOUS
<1> HIDE DEF h
<1>2. h = p <=> \A i \in 1..Len(p) : h[i] = p[i]
  BY <1>1, SeqEqual
<1> QED
  BY <1>1, <1>2 DEF h

LEMMA BytesLessIs ==
    ASSUME NEW a \in Seq(Nat), NEW b \in Seq(Nat)
    PROVE  BytesLess(a, b) <=>
             \/ Len(a) < Len(b) /\ HeadsEqual(a, b, Len(a))
             \/ \E i \in 1..Len(a) : i <= Len(b) /\ a[i] < b[i] /\ HeadsEqual(a, b, i - 1)
<1>1. Len(a) \in Nat /\ Len(b) \in Nat /\ DOMAIN a = 1..Len(a) /\ DOMAIN b = 1..Len(b)
  OBVIOUS
<1>2. Len(a) < Len(b) => (Starts(a, b) <=> HeadsEqual(a, b, Len(a)))
  BY <1>1, StartsIs, SMTT(30) DEF HeadsEqual
<1>3. (\E i \in DOMAIN a \cap DOMAIN b : a[i] < b[i] /\ \A j \in 1..(i - 1) : a[j] = b[j])
      <=> \E i \in 1..Len(a) : i <= Len(b) /\ a[i] < b[i] /\ HeadsEqual(a, b, i - 1)
  <2>1. \A i : i \in DOMAIN a \cap DOMAIN b <=> i \in 1..Len(a) /\ i <= Len(b)
    BY <1>1
  <2> QED
    BY <2>1, Zenon DEF HeadsEqual
<1> QED
  BY <1>2, <1>3, Zenon DEF BytesLess

LEMMA SameLengthLess ==
    ASSUME NEW a \in Seq(Nat), NEW b \in Seq(Nat), Len(a) = Len(b)
    PROVE  /\ BytesLess(a, b) <=> HeadsLess(a, b, Len(a))
           /\ a = b <=> HeadsEqual(a, b, Len(a))
<1>1. Len(a) \in Nat
  OBVIOUS
<1>2. BytesLess(a, b) <=> HeadsLess(a, b, Len(a))
  <2>1. ~(Len(a) < Len(b)) /\ \A i \in 1..Len(a) : i <= Len(b)
    BY <1>1
  <2> QED
    BY <2>1, BytesLessIs, Zenon DEF HeadsLess, HeadsEqual
<1>3. a = b <=> HeadsEqual(a, b, Len(a))
  BY SeqEqual DEF HeadsEqual
<1> QED
  BY <1>2, <1>3

\* Strings of bytes of one length compare as their values.
LEMMA ValueOrder ==
    ASSUME NEW s \in Seq(Bytes), NEW t \in Seq(Bytes), Len(s) = Len(t)
    PROVE  /\ BytesLess(s, t) <=> Value(s) < Value(t)
           /\ s = t <=> Value(s) = Value(t)
BY HeadsCompare, SameLengthLess, BytesAreNumbers

LEMMA BelowIs ==
    ASSUME NEW w \in Nat
    PROVE  /\ Power(Radix, w) \in Nat \ {0}
           /\ \A n : n \in Below(w) <=> n \in Nat /\ n < Power(Radix, w)
<1>1. PICK p : Powers(Radix, w, p) /\ Power(Radix, w) = p[w]
  BY PowersExist, Widths
<1>2. Power(Radix, w) \in Nat \ {0}
  BY <1>1 DEF Powers
<1> QED
  BY <1>2 DEF Below

\* Big-endian integers compare as the integers.
LEMMA DigitsOrder ==
    ASSUME NEW w \in Nat, NEW a \in Below(w), NEW b \in Below(w)
    PROVE  /\ BytesLess(Digits(a, w), Digits(b, w)) <=> a < b
           /\ Digits(a, w) = Digits(b, w) <=> a = b
<1>3. a \in Nat /\ b \in Nat /\ a < Power(Radix, w) /\ b < Power(Radix, w)
  BY BelowIs
<1> DEFINE s == Digits(a, w)
           t == Digits(b, w)
<1>4. s \in Seq(Bytes) /\ t \in Seq(Bytes) /\ Len(s) = Len(t)
  BY <1>3, DigitsType
<1>5. Value(s) = a /\ Value(t) = b
  BY <1>3, ValueOfDigits
<1> HIDE DEF s, t
<1>6. (BytesLess(s, t) <=> a < b) /\ (s = t <=> a = b)
  BY <1>4, <1>5, ValueOrder
<1> QED
  BY <1>6 DEF s, t

\* c is p and then s.
Joined(p, s, c) ==
    /\ Len(c) = Len(p) + Len(s)
    /\ \A i \in 1..Len(p) : c[i] = p[i]
    /\ \A i \in 1..Len(s) : c[Len(p) + i] = s[i]

LEMMA Concatenated ==
    ASSUME NEW S, NEW p \in Seq(S), NEW s \in Seq(S)
    PROVE  p \o s \in Seq(S) /\ Joined(p, s, p \o s)
<1>1. p \o s \in Seq(S) /\ Len(p \o s) = Len(p) + Len(s) /\ Len(p) \in Nat /\ Len(s) \in Nat
  OBVIOUS
<1>2. ASSUME NEW i \in 1..Len(p) PROVE (p \o s)[i] = p[i]
  OBVIOUS
<1>3. ASSUME NEW i \in 1..Len(s) PROVE (p \o s)[Len(p) + i] = s[i]
  OBVIOUS
<1> QED
  BY <1>1, <1>2, <1>3 DEF Joined

\* What is before decides, and else what is after.
LEMMA ConcatOrder ==
    ASSUME NEW p \in Seq(Nat), NEW q \in Seq(Nat), NEW s \in Seq(Nat), NEW t \in Seq(Nat),
           Len(p) = Len(q)
    PROVE  BytesLess(p \o s, q \o t) <=> BytesLess(p, q) \/ (p = q /\ BytesLess(s, t))
<1> DEFINE n == Len(p)
           a == p \o s
           b == q \o t
<1>1. n \in Nat /\ Len(s) \in Nat /\ Len(t) \in Nat
  OBVIOUS
<1>12. a \in Seq(Nat) /\ Joined(p, s, a) /\ b \in Seq(Nat) /\ Joined(q, t, b)
  BY Concatenated
<1>2. /\ a \in Seq(Nat) /\ Len(a) = n + Len(s)
      /\ \A i \in 1..n : a[i] = p[i]
      /\ \A i \in 1..Len(s) : a[n + i] = s[i]
  <2> HIDE DEF a
  <2> QED
    BY <1>12 DEF Joined
<1>3. /\ b \in Seq(Nat) /\ Len(b) = n + Len(t)
      /\ \A i \in 1..n : b[i] = q[i]
      /\ \A i \in 1..Len(t) : b[n + i] = t[i]
  <2> HIDE DEF b
  <2> QED
    BY <1>12 DEF Joined
<1>4. BytesLess(p, q) <=> HeadsLess(p, q, n)
  BY SameLengthLess
<1>5. p = q <=> HeadsEqual(p, q, n)
  BY SameLengthLess
<1>6. BytesLess(a, b) <=>
             \/ Len(a) < Len(b) /\ HeadsEqual(a, b, Len(a))
             \/ \E i \in 1..Len(a) : i <= Len(b) /\ a[i] < b[i] /\ HeadsEqual(a, b, i - 1)
  BY <1>2, <1>3, BytesLessIs
<1>7. BytesLess(s, t) <=>
             \/ Len(s) < Len(t) /\ HeadsEqual(s, t, Len(s))
             \/ \E i \in 1..Len(s) : i <= Len(t) /\ s[i] < t[i] /\ HeadsEqual(s, t, i - 1)
  BY BytesLessIs
<1> HIDE DEF n, a, b
<1>8. \A i \in 0..Len(s) : i <= Len(t) =>
        (HeadsEqual(a, b, n + i) <=> HeadsEqual(p, q, n) /\ HeadsEqual(s, t, i))
  <2> SUFFICES ASSUME NEW i \in 0..Len(s), i <= Len(t)
               PROVE  HeadsEqual(a, b, n + i) <=> HeadsEqual(p, q, n) /\ HeadsEqual(s, t, i)
    OBVIOUS
  <2>1. ASSUME HeadsEqual(a, b, n + i) PROVE HeadsEqual(p, q, n) /\ HeadsEqual(s, t, i)
    <3>1. \A j \in 1..n : j \in 1..(n + i)
      BY <1>1
    <3>2. \A j \in 1..i : n + j \in 1..(n + i) /\ j \in 1..Len(s) /\ j \in 1..Len(t)
      BY <1>1
    <3> QED
      BY <1>2, <1>3, <2>1, <3>1, <3>2 DEF HeadsEqual
  <2>2. ASSUME HeadsEqual(p, q, n), HeadsEqual(s, t, i) PROVE HeadsEqual(a, b, n + i)
    <3> SUFFICES ASSUME NEW j \in 1..(n + i) PROVE a[j] = b[j]
      BY DEF HeadsEqual
    <3>1. CASE j <= n
      BY <1>1, <1>2, <1>3, <2>2, <3>1 DEF HeadsEqual
    <3>2. CASE j > n
      <4>1. j - n \in 1..i /\ j - n \in 1..Len(s) /\ j - n \in 1..Len(t) /\ n + (j - n) = j
        BY <1>1, <3>2
      <4> QED
        BY <1>2, <1>3, <2>2, <4>1, ZenonT(60) DEF HeadsEqual
    <3> QED
      BY <1>1, <3>1, <3>2
  <2> QED
    BY <2>1, <2>2
<1>9. ASSUME BytesLess(a, b)
      PROVE  BytesLess(p, q) \/ (p = q /\ BytesLess(s, t))
  <2>1. CASE Len(a) < Len(b) /\ HeadsEqual(a, b, Len(a))
    <3>1. Len(s) \in 0..Len(s) /\ Len(s) <= Len(t) /\ Len(s) < Len(t) /\ Len(a) = n + Len(s)
      BY <1>1, <1>2, <1>3, <2>1
    <3>2. HeadsEqual(p, q, n) /\ HeadsEqual(s, t, Len(s))
      BY <1>8, <2>1, <3>1
    <3> QED
      BY <1>5, <1>7, <3>1, <3>2
  <2>2. ASSUME NEW i \in 1..Len(a), i <= Len(b), a[i] < b[i], HeadsEqual(a, b, i - 1)
        PROVE  BytesLess(p, q) \/ (p = q /\ BytesLess(s, t))
    <3>1. CASE i <= n
      <4>1. i \in 1..n /\ p[i] < q[i]
        BY <1>1, <1>2, <1>3, <2>2, <3>1
      <4>2. \A k \in 1..(i - 1) : p[k] = q[k]
        BY <1>1, <1>2, <1>3, <2>2, <3>1 DEF HeadsEqual
      <4> QED
        BY <1>4, <4>1, <4>2 DEF HeadsLess
    <3>2. CASE i > n
      <4>1. i - n \in 1..Len(s) /\ i - n <= Len(t) /\ n + (i - n) = i /\ i - n \in 1..Len(t)
        BY <1>1, <1>2, <1>3, <2>2, <3>2
      <4>2. s[i - n] < t[i - n]
        BY <1>2, <1>3, <2>2, <4>1
      <4>3. i - 1 = n + (i - n - 1) /\ i - n - 1 \in 0..Len(s) /\ i - n - 1 <= Len(t)
        BY <1>1, <4>1, <3>2
      <4>4. HeadsEqual(p, q, n) /\ HeadsEqual(s, t, i - n - 1)
        BY <1>8, <2>2, <4>3
      <4> QED
        BY <1>5, <1>7, <4>1, <4>2, <4>4
    <3> QED
      BY <1>1, <3>1, <3>2
  <2> QED
    BY <1>6, <1>9, <2>1, <2>2
<1>10. ASSUME BytesLess(p, q)
       PROVE  BytesLess(a, b)
  <2>1. PICK i \in 1..n : p[i] < q[i] /\ \A k \in 1..(i - 1) : p[k] = q[k]
    BY <1>4, <1>10 DEF HeadsLess
  <2>2. i \in 1..Len(a) /\ i <= Len(b) /\ a[i] < b[i] /\ HeadsEqual(a, b, i - 1)
    BY <1>1, <1>2, <1>3, <2>1 DEF HeadsEqual
  <2> QED
    BY <1>6, <2>2
<1>11. ASSUME p = q, BytesLess(s, t)
       PROVE  BytesLess(a, b)
  <2>1. HeadsEqual(p, q, n)
    BY <1>5, <1>11
  <2>2. CASE Len(s) < Len(t) /\ HeadsEqual(s, t, Len(s))
    <3>1. Len(s) \in 0..Len(s) /\ Len(s) <= Len(t) /\ Len(a) = n + Len(s) /\ Len(a) < Len(b)
      BY <1>1, <1>2, <1>3, <2>2
    <3>2. HeadsEqual(a, b, Len(a))
      BY <1>8, <2>1, <2>2, <3>1
    <3> QED
      BY <1>6, <3>1, <3>2
  <2>3. ASSUME NEW i \in 1..Len(s), i <= Len(t), s[i] < t[i], HeadsEqual(s, t, i - 1)
        PROVE  BytesLess(a, b)
    <3>1. i - 1 \in 0..Len(s) /\ i - 1 <= Len(t) /\ n + (i - 1) = (n + i) - 1 /\ i \in 1..Len(t)
      BY <1>1, <2>3
    <3>2. HeadsEqual(a, b, (n + i) - 1)
      BY <1>8, <2>1, <2>3, <3>1
    <3>3. n + i \in 1..Len(a) /\ n + i <= Len(b) /\ a[n + i] < b[n + i]
      BY <1>1, <1>2, <1>3, <2>3, <3>1
    <3> QED
      BY <1>6, <3>2, <3>3
  <2> QED
    BY <1>7, <1>11, <2>2, <2>3
<1> QED
  BY <1>9, <1>10, <1>11 DEF a, b

----------------------------------------------------------------------------
(* Parts of strings *)

LEMMA StartsConcat ==
    ASSUME NEW p \in Seq(Nat), NEW q \in Seq(Nat), NEW s \in Seq(Nat), NEW t \in Seq(Nat),
           Len(p) = Len(q)
    PROVE  Starts(p \o s, q \o t) <=> p = q /\ Starts(s, t)
<1> DEFINE n == Len(p)
           a == p \o s
           b == q \o t
<1>1. n \in Nat /\ Len(s) \in Nat /\ Len(t) \in Nat
  OBVIOUS
<1>2. a \in Seq(Nat) /\ Joined(p, s, a) /\ b \in Seq(Nat) /\ Joined(q, t, b)
  BY Concatenated
<1>3. Starts(a, b) <=> Len(a) <= Len(b) /\ \A i \in 1..Len(a) : a[i] = b[i]
  BY <1>2, StartsIs
<1>4. Starts(s, t) <=> Len(s) <= Len(t) /\ \A i \in 1..Len(s) : s[i] = t[i]
  BY StartsIs
<1>5. p = q <=> \A i \in 1..n : p[i] = q[i]
  BY SeqEqual
<1> HIDE DEF a, b
<1>6. Len(a) = n + Len(s) /\ Len(b) = n + Len(t)
  BY <1>2 DEF Joined
<1>7. ASSUME Len(a) <= Len(b), \A i \in 1..Len(a) : a[i] = b[i]
      PROVE  p = q /\ Starts(s, t)
  <2>1. ASSUME NEW i \in 1..n PROVE p[i] = q[i]
    BY <1>1, <1>2, <1>6, <1>7 DEF Joined
  <2>2. ASSUME NEW i \in 1..Len(s) PROVE s[i] = t[i]
    <3>1. n + i \in 1..Len(a) /\ i \in 1..Len(t)
      BY <1>1, <1>6, <1>7
    <3> QED
      BY <1>2, <1>7, <3>1 DEF Joined
  <2>3. Len(s) <= Len(t)
    BY <1>1, <1>6, <1>7
  <2> QED
    BY <1>4, <1>5, <2>1, <2>2, <2>3
<1>8. ASSUME p = q, Len(s) <= Len(t), \A i \in 1..Len(s) : s[i] = t[i]
      PROVE  Starts(a, b)
  <2>1. ASSUME NEW i \in 1..Len(a) PROVE a[i] = b[i]
    <3>1. CASE i <= n
      BY <1>1, <1>2, <1>8, <3>1 DEF Joined
    <3>2. CASE i > n
      <4>1. i - n \in 1..Len(s) /\ i - n \in 1..Len(t) /\ n + (i - n) = i
        BY <1>1, <1>6, <1>8, <3>2
      <4>2. a[n + (i - n)] = s[i - n] /\ b[n + (i - n)] = t[i - n]
        BY <1>2, <4>1 DEF Joined
      <4> QED
        BY <1>8, <4>1, <4>2
    <3> QED
      BY <1>1, <3>1, <3>2
  <2>2. Len(a) <= Len(b)
    BY <1>1, <1>6, <1>8
  <2> QED
    BY <1>3, <2>1, <2>2
<1> QED
  BY <1>3, <1>4, <1>7, <1>8 DEF a, b

LEMMA SplitConcat ==
    ASSUME NEW S, NEW p \in Seq(S), NEW s \in Seq(S)
    PROVE  SubSeq(p \o s, 1, Len(p)) = p /\ Drop(p \o s, Len(p)) = s
<1> DEFINE n == Len(p)
           m == Len(s)
           a == p \o s
<1>1. a \in Seq(S) /\ Joined(p, s, a)
  BY Concatenated
<1>2. n \in Nat /\ m \in Nat
  OBVIOUS
<1>3. Len(a) = n + m /\ (\A i \in 1..n : a[i] = p[i]) /\ \A i \in 1..m : a[n + i] = s[i]
  BY <1>1 DEF Joined
<1> HIDE DEF a
<1>4. SubSeq(a, 1, n) = p
  <2> DEFINE h == SubSeq(a, 1, n)
  <2>1. h \in Seq(S) /\ Len(h) = n /\ \A i \in 1..n : h[i] = a[i]
    BY <1>1, <1>2, <1>3
  <2> HIDE DEF h
  <2>2. h = p
    BY <1>3, <2>1, SeqEqual
  <2> QED
    BY <2>2 DEF h
<1>5. Drop(a, n) = s
  <2> DEFINE h == SubSeq(a, n + 1, n + m)
  <2>1. h \in Seq(S) /\ Len(h) = m /\ \A i \in 1..m : h[i] = a[n + i]
    BY <1>1, <1>2, <1>3
  <2> HIDE DEF h
  <2>2. h = s
    BY <1>3, <2>1, SeqEqual
  <2> QED
    BY <1>3, <2>2 DEF h, Drop
<1> QED
  BY <1>4, <1>5 DEF a

LEMMA HeadAndTail ==
    ASSUME NEW S, NEW x \in S, NEW s \in Seq(S)
    PROVE  Tail(<<x>> \o s) = s /\ (<<x>> \o s)[1] = x /\ Len(<<x>> \o s) = Len(s) + 1
<1> DEFINE a == <<x>> \o s
<1>1. <<x>> \in Seq(S) /\ Len(<<x>>) = 1 /\ <<x>>[1] = x
  OBVIOUS
<1>2. a \in Seq(S) /\ Joined(<<x>>, s, a)
  BY <1>1, Concatenated
<1>3. Len(s) \in Nat
  OBVIOUS
<1> HIDE DEF a
<1>4. Len(a) = 1 + Len(s) /\ a[1] = x /\ \A i \in 1..Len(s) : a[1 + i] = s[i]
  BY <1>1, <1>2 DEF Joined
<1> DEFINE h == Tail(a)
<1>5. h \in Seq(S) /\ Len(h) = Len(s) /\ \A i \in 1..Len(s) : h[i] = a[i + 1]
  BY <1>2, <1>3, <1>4
<1> HIDE DEF h
<1>6. \A i \in 1..Len(s) : h[i] = s[i]
  BY <1>4, <1>5
<1>7. h = s
  BY <1>5, <1>6, SeqEqual
<1> QED
  BY <1>3, <1>4, <1>7 DEF h, a

----------------------------------------------------------------------------
(* Decoders of the parts *)

\* An integer that was written is read, and what follows is left.
LEMMA ReadIntReads ==
    ASSUME NEW w \in Nat, NEW n \in Below(w), NEW s \in Seq(Nat)
    PROVE  ReadInt(Digits(n, w) \o s, w) = [ok |-> TRUE, val |-> n, rest |-> s]
<1> DEFINE d == Digits(n, w)
<1>1. n \in Nat /\ n < Power(Radix, w)
  BY BelowIs
<1>2. d \in Seq(Nat) /\ Len(d) = w /\ Value(d) = n
  BY <1>1, DigitsType, BytesAreNumbers, ValueOfDigits
<1> HIDE DEF d
<1>3. SubSeq(d \o s, 1, w) = d /\ Drop(d \o s, w) = s
  BY <1>2, SplitConcat
<1>4. Len(d \o s) = w + Len(s) /\ Len(s) \in Nat
  BY <1>2
<1>5. ~(Len(d \o s) < w)
  BY <1>4
<1>6. ReadInt(d \o s, w) = [ok |-> TRUE, val |-> n, rest |-> s]
  BY <1>2, <1>3, <1>5 DEF ReadInt
<1> QED
  BY <1>6 DEF d

\* A string of at most 16 bits' length is read with its length.
LEMMA Read16Reads ==
    ASSUME NEW k \in Seq(Nat), Len(k) \in Below(Digits16), NEW s \in Seq(Nat)
    PROVE  Read16Data(Digits(Len(k), Digits16) \o (k \o s)) = [ok |-> TRUE, val |-> k, rest |-> s]
<1> DEFINE a == Digits(Len(k), Digits16) \o (k \o s)
           n == ReadInt(a, Digits16)
<1>1. k \o s \in Seq(Nat) /\ Len(k \o s) = Len(k) + Len(s) /\ Len(k) \in Nat /\ Len(s) \in Nat
  OBVIOUS
<1>2. n = [ok |-> TRUE, val |-> Len(k), rest |-> k \o s]
  BY <1>1, ReadIntReads, Widths
<1>3. SubSeq(k \o s, 1, Len(k)) = k /\ Drop(k \o s, Len(k)) = s
  BY SplitConcat
<1> HIDE DEF n
<1>4. n.ok = TRUE /\ n.val = Len(k) /\ n.rest = k \o s
  BY <1>2
<1>5. ~(~n.ok \/ Len(n.rest) < n.val)
  BY <1>1, <1>4
<1>6. Read16Data(a) = [ok |-> TRUE, val |-> SubSeq(n.rest, 1, n.val), rest |-> Drop(n.rest, n.val)]
  <2> HIDE DEF a
  <2> QED
    BY <1>5 DEF Read16Data, n
<1>7. Read16Data(a) = [ok |-> TRUE, val |-> k, rest |-> s]
  <2> HIDE DEF a
  <2> QED
    BY <1>3, <1>4, <1>6
<1> QED
  BY <1>7

----------------------------------------------------------------------------
(* Keys *)

Types == 0..5
AllKeys == RecKeys \cup {RecKey(Meta, k, 0, 0, <<>>) : k \in Names}

\* What the fields of a record may be, by its type.
Shaped(r) ==
    /\ r = RecKey(r.type, r.key, r.ver, r.score, r.field)
    /\ r.type \in Types /\ r.key \in Names
    /\ r.type \in {Meta, EKey, EScore} => r.ver = 0
    /\ r.type \in {Delete, Item, ZScore} => r.ver \in CodeVersions
    /\ r.type \in {Meta, EKey, Delete, Item} => r.score = 0
    /\ r.type = EScore => r.score \in Numbers
    /\ r.type = ZScore => r.score \in Doubles
    /\ r.type \in {Meta, EKey, EScore, Delete} => r.field = <<>>
    /\ r.field \in Seq(Bytes)

LEMMA NameFacts ==
    ASSUME NEW k \in Names
    PROVE  k \in Seq(Bytes) /\ k \in Seq(Nat) /\ Len(k) \in Below(Digits16)
<1>1. k \in Seq(Bytes)
  BY CodeAssumption DEF Bytes
<1>2. k \in Seq(Nat) /\ Len(k) \in Nat
  BY <1>1, BytesAreNumbers
<1>3. Len(k) < Power(Radix, Digits16)
  BY CodeAssumption
<1> QED
  BY <1>1, <1>2, <1>3, BelowIs, Widths

LEMMA NumberFacts ==
    /\ \A v \in CodeVersions : v \in Below(Digits16) /\ v \in Nat
    /\ \A n \in Numbers : n \in Below(Digits64) /\ n \in Nat
<1>1. CodeVersions \subseteq Below(Digits16) /\ Numbers \subseteq Below(Digits64)
  BY CodeAssumption
<1> QED
  BY <1>1, BelowIs, Widths

\* encodeScore is one to one, keeps the order and is undone by decodeScore.
LEMMA ScoreFacts ==
    /\ \A x \in Doubles : /\ EncodeScore(x) \in Below(Digits64)
                          /\ DecodeScore(EncodeScore(x)) = x
    /\ \A x, y \in Doubles : EncodeScore(x) < EncodeScore(y) <=> ScoreLess(x, y)
    /\ \A x, y \in Doubles : EncodeScore(x) = EncodeScore(y) <=> x = y
<1>1. \A x \in Doubles : x \in 0..(2 * Half - 1)
  BY CodeAssumption
<1>2. \A n : n \in Below(Digits64) <=> n \in Nat /\ n < 2 * Half
  BY BelowIs, Widths
<1>3. Half \in Nat \ {0}
  BY Widths
<1>4. ASSUME NEW x \in Doubles
      PROVE  EncodeScore(x) \in Below(Digits64) /\ DecodeScore(EncodeScore(x)) = x
  <2>1. EncodeScore(x) \in Nat /\ EncodeScore(x) < 2 * Half
    BY <1>1, <1>3 DEF EncodeScore, Negative
  <2>2. DecodeScore(EncodeScore(x)) = x
    BY <1>1, <1>3 DEF EncodeScore, DecodeScore, Negative
  <2> QED
    BY <1>2, <2>1, <2>2
<1>5. ASSUME NEW x \in Doubles, NEW y \in Doubles
      PROVE  /\ EncodeScore(x) < EncodeScore(y) <=> ScoreLess(x, y)
             /\ EncodeScore(x) = EncodeScore(y) <=> x = y
  <2>1. EncodeScore(x) < EncodeScore(y) <=> ScoreLess(x, y)
    BY <1>1, <1>3 DEF EncodeScore, ScoreLess, Negative
  <2>2. EncodeScore(x) = EncodeScore(y) <=> x = y
    BY <1>1, <1>3 DEF EncodeScore, Negative
  <2> QED
    BY <2>1, <2>2
<1> QED
  BY <1>4, <1>5

LEMMA KeysAreShaped == ASSUME NEW r \in AllKeys PROVE Shaped(r)
<1> USE DEF Meta, EKey, EScore, Delete, Item, ZScore, Types, RecKey
<1>0. /\ <<>> \in Seq(Bytes) /\ \A f \in Fields : f \in Seq(Bytes)
      /\ \A n \in Numbers : Digits(n, Digits64) \in Seq(Bytes)
  <2>1. \A f \in Fields : f \in Seq(Bytes)
    BY CodeAssumption DEF Bytes
  <2> QED
    BY <2>1, NumberFacts, DigitsType, Widths
<1>1. CASE \E k \in Names : r = RecKey(EKey, k, 0, 0, <<>>)
  BY <1>0, <1>1 DEF Shaped
<1>2. CASE \E k \in Names, n \in Numbers : r = RecKey(EScore, k, 0, n, <<>>)
  BY <1>0, <1>2 DEF Shaped
<1>3. CASE \E k \in Names, v \in CodeVersions : r = RecKey(Delete, k, v, 0, <<>>)
  BY <1>0, <1>3 DEF Shaped
<1>4. CASE \E k \in Names, v \in CodeVersions, f \in Fields : r = RecKey(Item, k, v, 0, f)
  BY <1>0, <1>4 DEF Shaped
<1>5. CASE \E k \in Names, v \in CodeVersions, n \in Numbers : r = RecKey(Item, k, v, 0, Digits(n, Digits64))
  BY <1>0, <1>5 DEF Shaped
<1>6. CASE \E k \in Names, v \in CodeVersions, s \in Doubles, f \in Fields : r = RecKey(ZScore, k, v, s, f)
  BY <1>0, <1>6 DEF Shaped
<1>7. CASE \E k \in Names : r = RecKey(Meta, k, 0, 0, <<>>)
  BY <1>0, <1>7 DEF Shaped
<1> QED
  <2> USE DEF AllKeys, RecKeys
  <2>1. r \in RecKeys \/ r \in {RecKey(Meta, k, 0, 0, <<>>) : k \in Names}
    OBVIOUS
  <2>2. CASE r \in {RecKey(Meta, k, 0, 0, <<>>) : k \in Names}
    BY <1>7, <2>2
  <2>3. CASE r \in RecKeys
    BY <1>1, <1>2, <1>3, <1>4, <1>5, <1>6, <2>3
  <2> QED
    BY <2>1, <2>2, <2>3

Associates(s, t, u) == (s \o t) \o u = s \o (t \o u)

LEMMA Associative ==
    ASSUME NEW s \in Seq(Nat), NEW t \in Seq(Nat), NEW u \in Seq(Nat)
    PROVE  Associates(s, t, u)
BY SMTT(30) DEF Associates

LEMMA FirstByte ==
    ASSUME NEW x \in Nat, NEW s \in Seq(Nat), NEW e, e = <<x>> \o s
    PROVE  Tail(e) = s /\ e[1] = x
BY HeadAndTail

\* A key's length, its bytes, its version, and what the type adds
Framed(k, v, f) == Digits(Len(k), Digits16) \o (k \o (Digits(v, Digits16) \o f))

LEMMA Digits16Type == ASSUME NEW n \in Below(Digits16)
                      PROVE  Digits(n, Digits16) \in Seq(Nat) /\ Len(Digits(n, Digits16)) = Digits16
BY BelowIs, Widths, DigitsType, BytesAreNumbers

LEMMA Digits64Type == ASSUME NEW n \in Below(Digits64)
                      PROVE  Digits(n, Digits64) \in Seq(Nat) /\ Len(Digits(n, Digits64)) = Digits64
BY BelowIs, Widths, DigitsType, BytesAreNumbers

LEMMA KeyForm ==
    ASSUME NEW t \in Nat, NEW k \in Names, NEW v \in CodeVersions, NEW f \in Seq(Nat)
    PROVE  /\ EncodeKeyInternal(t, k, f, v) = <<t>> \o Framed(k, v, f)
           /\ Framed(k, v, f) \in Seq(Nat) /\ EncodeKeyInternal(t, k, f, v) \in Seq(Nat)
<1> DEFINE a == <<t>>
           b == Digits(Len(k), Digits16)
           c == Digits(v, Digits16)
<1>1. a \in Seq(Nat) /\ b \in Seq(Nat) /\ c \in Seq(Nat) /\ k \in Seq(Nat)
  <2>1. <<t>> \in Seq(Nat)
    OBVIOUS
  <2> QED
    BY <2>1, NameFacts, NumberFacts, Digits16Type
<1>2. EncodeKeyInternal(t, k, f, v) = (((a \o b) \o k) \o c) \o f
  BY DEF EncodeKeyInternal
<1>3. Framed(k, v, f) = b \o (k \o (c \o f))
  BY DEF Framed
<1> HIDE DEF a, b, c
<1>4. (((a \o b) \o k) \o c) \o f = ((a \o b) \o k) \o (c \o f)
  <2>1. (a \o b) \o k \in Seq(Nat)
    BY <1>1
  <2>2. Associates((a \o b) \o k, c, f)
    BY <1>1, <2>1, Associative
  <2> QED
    BY <2>2 DEF Associates
<1>5. ((a \o b) \o k) \o (c \o f) = (a \o b) \o (k \o (c \o f))
  <2>1. a \o b \in Seq(Nat) /\ c \o f \in Seq(Nat)
    BY <1>1
  <2>2. Associates(a \o b, k, c \o f)
    BY <1>1, <2>1, Associative
  <2> QED
    BY <2>2 DEF Associates
<1>6. (a \o b) \o (k \o (c \o f)) = a \o (b \o (k \o (c \o f)))
  <2> DEFINE g == k \o (c \o f)
  <2>1. g \in Seq(Nat)
    BY <1>1
  <2> HIDE DEF g
  <2>2. Associates(a, b, g)
    BY <1>1, <2>1, Associative
  <2> QED
    BY <2>2 DEF g, Associates
<1>7. b \o (k \o (c \o f)) \in Seq(Nat) /\ a \o (b \o (k \o (c \o f))) \in Seq(Nat)
  <2>1. c \o f \in Seq(Nat)
    BY <1>1
  <2>2. k \o (c \o f) \in Seq(Nat)
    BY <1>1, <2>1
  <2>3. b \o (k \o (c \o f)) \in Seq(Nat)
    BY <1>1, <2>2
  <2> QED
    BY <1>1, <2>3
<1> QED
  BY <1>2, <1>3, <1>4, <1>5, <1>6, <1>7 DEF a

DecodesTo(e, t, k, v, f) == DecodeItemKey(e) = RecKey(t, k, v, 0, f) /\ e[1] = t

LEMMA DecodeItemReads ==
    ASSUME NEW t \in Nat, NEW k \in Names, NEW v \in CodeVersions, NEW f \in Seq(Nat)
    PROVE  DecodesTo(EncodeKeyInternal(t, k, f, v), t, k, v, f)
<1> DEFINE e == EncodeKeyInternal(t, k, f, v)
           c == Digits(v, Digits16)
           kr == Read16Data(Tail(e))
           vr == ReadInt(kr.rest, Digits16)
<1>1. Tail(e) = Framed(k, v, f) /\ e[1] = t
  <2>1. e = <<t>> \o Framed(k, v, f) /\ Framed(k, v, f) \in Seq(Nat)
    BY KeyForm
  <2> HIDE DEF e
  <2> QED
    BY <2>1, FirstByte
<1>2. c \in Seq(Nat) /\ c \o f \in Seq(Nat)
  <2>1. c \in Seq(Nat)
    BY NumberFacts, Digits16Type
  <2> QED
    BY <2>1
<1>3. Framed(k, v, f) = Digits(Len(k), Digits16) \o (k \o (c \o f))
  BY DEF Framed
<1> HIDE DEF c, e
<1>4. kr = [ok |-> TRUE, val |-> k, rest |-> c \o f]
  BY <1>1, <1>2, <1>3, NameFacts, Read16Reads
<1>5. kr.ok = TRUE /\ kr.val = k /\ kr.rest = c \o f
  BY <1>4
<1>6. ReadInt(c \o f, Digits16) = [ok |-> TRUE, val |-> v, rest |-> f]
  BY NumberFacts, ReadIntReads, Widths DEF c
<1> HIDE DEF kr
<1>7. vr = [ok |-> TRUE, val |-> v, rest |-> f]
  BY <1>5, <1>6
<1>8. vr.ok = TRUE /\ vr.val = v /\ vr.rest = f
  BY <1>7
<1> HIDE DEF vr
<1>9. DecodeItemKey(e) = RecKey(e[1], kr.val, vr.val, 0, vr.rest)
  BY <1>5, <1>8 DEF DecodeItemKey, kr, vr
<1>10. DecodeItemKey(e) = RecKey(t, k, v, 0, f) /\ e[1] = t
  BY <1>1, <1>5, <1>8, <1>9
<1> QED
  BY <1>10 DEF e, DecodesTo

\* Each decoder gives back the record whose key it is given.
LEMMA DecodeEncodes == ASSUME NEW r \in AllKeys PROVE Decode(Encode(r)) = r /\ Encode(r)[1] = r.type
<1> USE DEF Meta, EKey, EScore, Delete, Item, ZScore, Types
<1>0. Shaped(r)
  BY KeysAreShaped
<1>1. /\ r = RecKey(r.type, r.key, r.ver, r.score, r.field)
      /\ r.key \in Names /\ r.key \in Seq(Nat) /\ r.field \in Seq(Nat) /\ r.type \in 0..5
  BY <1>0, NameFacts, BytesAreNumbers DEF Shaped
<1>2. CASE r.type \in {Meta, EKey}
  <2>1. r.ver = 0 /\ r.score = 0 /\ r.field = <<>>
    BY <1>0, <1>2 DEF Shaped
  <2>2. Encode(r) = <<r.type>> \o r.key
    BY <1>2 DEF Encode, EncodeMetaKey, EncodeEsetKey
  <2>3. Tail(Encode(r)) = r.key /\ Encode(r)[1] = r.type
    BY <1>1, <2>2, FirstByte, SMTT(30)
  <2>4. Decode(Encode(r)) = RecKey(r.type, Tail(Encode(r)), 0, 0, <<>>)
    BY <1>2, <2>3 DEF Decode, DecodeMetaKey
  <2> QED
    BY <1>1, <2>1, <2>3, <2>4
<1>3. CASE r.type = EScore
  <2>1. r.ver = 0 /\ r.score \in Numbers /\ r.field = <<>>
    BY <1>0, <1>3 DEF Shaped
  <2> DEFINE d == Digits(r.score, Digits64)
             e == Encode(r)
             n == ReadInt(Tail(e), Digits64)
  <2>2. d \in Seq(Nat) /\ <<EScore>> \in Seq(Nat)
    BY <2>1, NumberFacts, Digits64Type
  <2>3. e = (<<EScore>> \o d) \o r.key
    <3>1. Encode(r) = EncodeEscoreKey(r.key, r.score)
      BY <1>3 DEF Encode
    <3> QED
      BY <3>1, Zenon DEF EncodeEscoreKey
  <2> HIDE DEF d, e
  <2>4. e = <<EScore>> \o (d \o r.key) /\ d \o r.key \in Seq(Nat)
    <3> DEFINE a == <<EScore>>
               k == r.key
    <3>1. a \in Seq(Nat) /\ d \in Seq(Nat) /\ k \in Seq(Nat) /\ e = (a \o d) \o k
      BY <1>1, <2>2, <2>3
    <3> HIDE DEF a, k
    <3>2. Associates(a, d, k) /\ d \o k \in Seq(Nat)
      BY <3>1, Associative
    <3> QED
      BY <3>1, <3>2 DEF a, k, Associates
  <2>5. Tail(e) = d \o r.key /\ e[1] = r.type
    BY <1>3, <2>4, FirstByte, SMTT(30)
  <2>6. ReadInt(d \o r.key, Digits64) = [ok |-> TRUE, val |-> r.score, rest |-> r.key]
    BY <1>1, <2>1, NumberFacts, ReadIntReads, Widths, ZenonT(60) DEF d
  <2>7. n.ok = TRUE /\ n.val = r.score /\ n.rest = r.key
    <3>1. n = [ok |-> TRUE, val |-> r.score, rest |-> r.key]
      BY <2>5, <2>6, Zenon
    <3> QED
      BY <3>1
  <2> HIDE DEF n
  <2>8. DecodeEScoreKey(e) = RecKey(EScore, n.rest, 0, n.val, <<>>)
    BY <2>7 DEF DecodeEScoreKey, n
  <2>9. Decode(e) = DecodeEScoreKey(e)
    BY <1>3, <2>5 DEF Decode
  <2>10. Decode(e) = r /\ e[1] = r.type
    BY <1>1, <1>3, <2>1, <2>5, <2>7, <2>8, <2>9
  <2> QED
    BY <2>10 DEF e
<1>4. CASE r.type = Item
  <2>1. r.ver \in CodeVersions /\ r.score = 0
    BY <1>0, <1>4 DEF Shaped
  <2>2. Encode(r) = EncodeKeyInternal(Item, r.key, r.field, r.ver)
    BY <1>4 DEF Encode
  <2>3. DecodeItemKey(Encode(r)) = RecKey(Item, r.key, r.ver, 0, r.field) /\ Encode(r)[1] = Item
    BY <1>1, <2>1, <2>2, DecodeItemReads DEF DecodesTo
  <2>4. Decode(Encode(r)) = DecodeItemKey(Encode(r))
    BY <2>3 DEF Decode
  <2> QED
    BY <1>1, <1>4, <2>1, <2>3, <2>4
<1>5. CASE r.type = Delete
  <2>1. r.ver \in CodeVersions /\ r.score = 0 /\ r.field = <<>>
    BY <1>0, <1>5 DEF Shaped
  <2>2. Encode(r) = EncodeKeyInternal(Delete, r.key, <<>>, r.ver)
    BY <1>5 DEF Encode, EncodeDeleteKey
  <2>3. DecodeItemKey(Encode(r)) = RecKey(Delete, r.key, r.ver, 0, <<>>) /\ Encode(r)[1] = Delete
    <3>1. <<>> \in Seq(Nat) /\ Delete \in Nat
      OBVIOUS
    <3> DEFINE f == <<>>
    <3>2. f \in Seq(Nat)
      BY <3>1
    <3> HIDE DEF f
    <3>3. DecodesTo(EncodeKeyInternal(Delete, r.key, f, r.ver), Delete, r.key, r.ver, f)
      BY <1>1, <2>1, <3>1, <3>2, DecodeItemReads
    <3> QED
      BY <2>2, <3>3, Zenon DEF f, DecodesTo
  <2> DEFINE i == DecodeItemKey(Encode(r))
  <2>4. i = r
    BY <1>1, <1>5, <2>1, <2>3
  <2>5. i # NoKey
    BY <2>4, <1>1, <1>5 DEF NoKey
  <2>6. [i EXCEPT !.field = <<>>] = r
    BY <1>1, <2>1, <2>4 DEF RecKey
  <2>7. Decode(Encode(r)) = DecodeDeleteKey(Encode(r))
    BY <2>3 DEF Decode
  <2>8. DecodeDeleteKey(Encode(r)) = [i EXCEPT !.field = <<>>]
    BY <2>5 DEF DecodeDeleteKey
  <2> QED
    BY <1>5, <2>3, <2>6, <2>7, <2>8
<1>6. CASE r.type = ZScore
  <2>1. r.ver \in CodeVersions /\ r.score \in Doubles
    BY <1>0, <1>6 DEF Shaped
  <2> DEFINE x == EncodeScore(r.score)
             d == Digits(x, Digits64)
             e == Encode(r)
             i == DecodeItemKey(e)
             c == ReadInt(i.field, Digits64)
  <2>2. x \in Below(Digits64) /\ DecodeScore(x) = r.score
    BY <2>1, ScoreFacts
  <2>3. d \in Seq(Nat)
    BY <2>2, Digits64Type
  <2>4. e = EncodeKeyInternal(ZScore, r.key, d \o r.field, r.ver)
    BY <1>6 DEF Encode, EncodeZscoreKey
  <2> HIDE DEF x
  <2>5. ReadInt(d \o r.field, Digits64) = [ok |-> TRUE, val |-> x, rest |-> r.field]
    BY <1>1, <2>2, ReadIntReads, Widths
  <2> HIDE DEF d, e
  <2>6. d \o r.field \in Seq(Nat)
    BY <1>1, <2>3
  <2>7. i = RecKey(ZScore, r.key, r.ver, 0, d \o r.field) /\ e[1] = ZScore
    BY <1>1, <2>1, <2>4, <2>6, DecodeItemReads, ZenonT(60) DEF DecodesTo
  <2>8. i.field = d \o r.field /\ i.key = r.key /\ i.ver = r.ver /\ i.type = ZScore
    BY <2>7 DEF RecKey
  <2>9. i # NoKey
    BY <2>8 DEF NoKey
  <2>10. c.ok = TRUE /\ c.val = x /\ c.rest = r.field
    BY <2>5, <2>8
  <2> HIDE DEF c, i
  <2>11. DecodeZScoreKey(e) = RecKey(ZScore, i.key, i.ver, DecodeScore(c.val), c.rest)
    BY <2>9, <2>10 DEF DecodeZScoreKey, c, i
  <2>12. Decode(e) = DecodeZScoreKey(e)
    BY <2>7 DEF Decode
  <2>13. Decode(e) = r /\ e[1] = r.type
    BY <1>1, <1>6, <2>2, <2>7, <2>8, <2>10, <2>11, <2>12
  <2> QED
    BY <2>13 DEF e
<1> QED
  <2>1. r.type \in {Meta, EKey} \/ r.type = EScore \/ r.type = Item \/ r.type = Delete \/ r.type = ZScore
    BY <1>1
  <2> QED
    BY <2>1, <1>2, <1>3, <1>4, <1>5, <1>6

----------------------------------------------------------------------------
(* The order of keys *)

ComparesBy(p, q, s, t) == BytesLess(p \o s, q \o t) <=> BytesLess(p, q) \/ (p = q /\ BytesLess(s, t))

LEMMA Compare ==
    ASSUME NEW p \in Seq(Nat), NEW q \in Seq(Nat), NEW s \in Seq(Nat), NEW t \in Seq(Nat),
           Len(p) = Len(q)
    PROVE  ComparesBy(p, q, s, t)
BY ConcatOrder, Zenon DEF ComparesBy

LEMMA NotLessItself == ASSUME NEW s \in Seq(Nat) PROVE ~BytesLess(s, s)
<1>1. ~HeadsLess(s, s, Len(s))
  BY DEF HeadsLess
<1> QED
  BY <1>1, SameLengthLess

LEMMA TypesCompare ==
    ASSUME NEW x \in Nat, NEW y \in Nat, NEW s \in Seq(Nat), NEW t \in Seq(Nat)
    PROVE  BytesLess(<<x>> \o s, <<y>> \o t) <=> x < y \/ (x = y /\ BytesLess(s, t))
<1> DEFINE p == <<x>>
           q == <<y>>
<1>1. p \in Seq(Nat) /\ q \in Seq(Nat) /\ Len(p) = 1 /\ Len(q) = 1 /\ p[1] = x /\ q[1] = y
  OBVIOUS
<1>2. p = q <=> x = y
  OBVIOUS
<1> HIDE DEF p, q
<1>3. BytesLess(p, q) <=> x < y
  <2>1. BytesLess(p, q) <=> HeadsLess(p, q, 1)
    BY <1>1, SameLengthLess
  <2>2. HeadsLess(p, q, 1) <=> p[1] < q[1]
    BY DEF HeadsLess
  <2> QED
    BY <1>1, <2>1, <2>2
<1>4. ComparesBy(p, q, s, t)
  BY <1>1, Compare
<1> QED
  BY <1>2, <1>3, <1>4 DEF ComparesBy, p, q

\* A number of 64 bits, and what follows
LEMMA NumbersCompare ==
    ASSUME NEW w \in Nat, NEW x \in Below(w), NEW y \in Below(w), NEW s \in Seq(Nat), NEW t \in Seq(Nat)
    PROVE  BytesLess(Digits(x, w) \o s, Digits(y, w) \o t) <=> x < y \/ (x = y /\ BytesLess(s, t))
<1> DEFINE p == Digits(x, w)
           q == Digits(y, w)
<1>1. p \in Seq(Nat) /\ q \in Seq(Nat) /\ Len(p) = Len(q)
  BY BelowIs, DigitsType, BytesAreNumbers
<1>2. (BytesLess(p, q) <=> x < y) /\ (p = q <=> x = y)
  BY DigitsOrder
<1> HIDE DEF p, q
<1>3. ComparesBy(p, q, s, t)
  BY <1>1, Compare
<1> QED
  BY <1>2, <1>3 DEF ComparesBy, p, q

FrameLess(k, v, f, l, u, g) ==
    IF k # l THEN NameLess(k, l) ELSE IF v # u THEN v < u ELSE BytesLess(f, g)

LEMMA FramesCompare ==
    ASSUME NEW k \in Names, NEW v \in CodeVersions, NEW f \in Seq(Nat),
           NEW l \in Names, NEW u \in CodeVersions, NEW g \in Seq(Nat)
    PROVE  BytesLess(Framed(k, v, f), Framed(l, u, g)) <=> FrameLess(k, v, f, l, u, g)
<1> DEFINE c == Digits(v, Digits16)
           d == Digits(u, Digits16)
           x == c \o f
           y == d \o g
           m == Len(k)
           n == Len(l)
<1>1. v \in Below(Digits16) /\ u \in Below(Digits16) /\ v \in Nat /\ u \in Nat
  BY NumberFacts
<1>2. k \in Seq(Nat) /\ l \in Seq(Nat) /\ m \in Below(Digits16) /\ n \in Below(Digits16) /\ m \in Nat /\ n \in Nat
  BY NameFacts
<1>3. c \in Seq(Nat) /\ d \in Seq(Nat)
  BY <1>1, Digits16Type
<1>4. x \in Seq(Nat) /\ y \in Seq(Nat)
  BY <1>3
<1>5. BytesLess(x, y) <=> v < u \/ (v = u /\ BytesLess(f, g))
  BY <1>1, NumbersCompare, Widths
<1> HIDE DEF x, y, c, d
<1>6. k \o x \in Seq(Nat) /\ l \o y \in Seq(Nat)
  BY <1>2, <1>4
<1>7. BytesLess(Digits(m, Digits16) \o (k \o x), Digits(n, Digits16) \o (l \o y))
      <=> m < n \/ (m = n /\ BytesLess(k \o x, l \o y))
  BY <1>2, <1>6, NumbersCompare, Widths
<1>8. Framed(k, v, f) = Digits(m, Digits16) \o (k \o x) /\ Framed(l, u, g) = Digits(n, Digits16) \o (l \o y)
  BY DEF Framed, x, y, c, d
<1>9. BytesLess(Framed(k, v, f), Framed(l, u, g)) <=> m < n \/ (m = n /\ BytesLess(k \o x, l \o y))
  BY <1>7, <1>8
<1>10. m = n => ComparesBy(k, l, x, y)
  BY <1>2, <1>4, Compare
<1>11. k = l => m = n /\ ~BytesLess(k, l)
  BY <1>2, NotLessItself
<1>12. NameLess(k, l) <=> m < n \/ (m = n /\ BytesLess(k, l))
  BY DEF NameLess
<1> HIDE DEF m, n
<1>13. CASE k # l
  BY <1>9, <1>10, <1>12, <1>13 DEF FrameLess, ComparesBy
<1>14. CASE k = l
  <2>1. BytesLess(Framed(k, v, f), Framed(l, u, g)) <=> BytesLess(x, y)
    BY <1>2, <1>9, <1>10, <1>11, <1>14 DEF ComparesBy
  <2>2. (v # u => (BytesLess(x, y) <=> v < u)) /\ (v = u => (BytesLess(x, y) <=> BytesLess(f, g)))
    BY <1>1, <1>5
  <2> QED
    BY <1>14, <2>1, <2>2 DEF FrameLess
<1> QED
  BY <1>13, <1>14

\* What follows the type, and the version
Inner(r) == IF r.type = ZScore THEN Digits(EncodeScore(r.score), Digits64) \o r.field ELSE r.field
Body(r) ==
    IF r.type \in {Meta, EKey} THEN r.key
    ELSE IF r.type = EScore THEN Digits(r.score, Digits64) \o r.key
    ELSE Framed(r.key, r.ver, Inner(r))

LEMMA InnerType ==
    ASSUME NEW r \in AllKeys, r.type \in {Delete, Item, ZScore}
    PROVE  Inner(r) \in Seq(Nat)
<1>0. Shaped(r)
  BY KeysAreShaped
<1>1. r.field \in Seq(Nat)
  BY <1>0, BytesAreNumbers DEF Shaped
<1>2. CASE r.type = ZScore
  <2> DEFINE d == Digits(EncodeScore(r.score), Digits64)
  <2>1. d \in Seq(Nat)
    BY <1>0, <1>2, ScoreFacts, Digits64Type DEF Shaped
  <2> HIDE DEF d
  <2>2. d \o r.field \in Seq(Nat)
    BY <1>1, <2>1
  <2> QED
    BY <1>2, <2>2 DEF Inner, d
<1> QED
  BY <1>1, <1>2 DEF Inner

LEMMA EncodeForm ==
    ASSUME NEW r \in AllKeys
    PROVE  Encode(r) = <<r.type>> \o Body(r) /\ Body(r) \in Seq(Nat)
<1> USE DEF Meta, EKey, EScore, Delete, Item, ZScore, Types
<1>0. Shaped(r)
  BY KeysAreShaped
<1>1. r.key \in Names /\ r.key \in Seq(Nat) /\ r.type \in 0..5 /\ r.type \in Nat
  BY <1>0, NameFacts DEF Shaped
<1>2. CASE r.type \in {Meta, EKey}
  <2>1. Encode(r) = <<r.type>> \o r.key
    BY <1>2 DEF Encode, EncodeMetaKey, EncodeEsetKey
  <2> QED
    BY <1>1, <1>2, <2>1 DEF Body
<1>3. CASE r.type = EScore
  <2> DEFINE a == <<EScore>>
             d == Digits(r.score, Digits64)
             k == r.key
  <2>1. a \in Seq(Nat) /\ d \in Seq(Nat) /\ k \in Seq(Nat)
    BY <1>0, <1>1, <1>3, NumberFacts, Digits64Type DEF Shaped
  <2>2. Encode(r) = EncodeEscoreKey(r.key, r.score)
    BY <1>3 DEF Encode
  <2>3. Encode(r) = (a \o d) \o k
    BY <2>2, Zenon DEF EncodeEscoreKey
  <2>4. Body(r) = d \o k
    <3>1. r.type \notin {Meta, EKey}
      BY <1>3
    <3> QED
      BY <1>3, <3>1, Zenon DEF Body
  <2> HIDE DEF a, d, k
  <2>5. Associates(a, d, k) /\ d \o k \in Seq(Nat)
    BY <2>1, Associative
  <2> QED
    BY <1>3, <2>3, <2>4, <2>5 DEF a, Associates
<1>4. CASE r.type \in {Delete, Item, ZScore}
  <2> DEFINE f == Inner(r)
  <2>1. f \in Seq(Nat) /\ r.ver \in CodeVersions
    BY <1>0, <1>4, InnerType DEF Shaped
  <2>2. Encode(r) = EncodeKeyInternal(r.type, r.key, f, r.ver)
    <3>1. CASE r.type = Delete
      BY <1>0, <3>1 DEF Encode, EncodeDeleteKey, Inner, Shaped
    <3>2. CASE r.type = Item
      BY <3>2 DEF Encode, Inner
    <3>3. CASE r.type = ZScore
      BY <3>3 DEF Encode, EncodeZscoreKey, Inner
    <3> QED
      BY <1>4, <3>1, <3>2, <3>3
  <2>3. Body(r) = Framed(r.key, r.ver, f)
    BY <1>4 DEF Body
  <2> HIDE DEF f
  <2>4. /\ EncodeKeyInternal(r.type, r.key, f, r.ver) = <<r.type>> \o Framed(r.key, r.ver, f)
        /\ Framed(r.key, r.ver, f) \in Seq(Nat)
    <3>1. r.type \in Nat /\ r.key \in Names /\ r.ver \in CodeVersions /\ f \in Seq(Nat)
      BY <1>1, <2>1, Zenon
    <3> QED
      BY <3>1, KeyForm, ZenonT(60)
  <2> QED
    BY <2>2, <2>3, <2>4, Zenon
<1> QED
  BY <1>1, <1>2, <1>3, <1>4

\* The bytes of the records are in the order of the records.
LEMMA BytesKeepOrder ==
    ASSUME NEW a \in AllKeys, NEW b \in AllKeys
    PROVE  BytesLess(Encode(a), Encode(b)) <=> RecordLess(a, b)
<1> USE DEF Meta, EKey, EScore, Delete, Item, ZScore, Types
<1>0. Shaped(a) /\ Shaped(b)
  BY KeysAreShaped
<1>1. /\ a.key \in Names /\ a.key \in Seq(Nat) /\ a.field \in Seq(Nat) /\ a.type \in 0..5 /\ a.type \in Nat
      /\ b.key \in Names /\ b.key \in Seq(Nat) /\ b.field \in Seq(Nat) /\ b.type \in 0..5 /\ b.type \in Nat
  BY <1>0, NameFacts, BytesAreNumbers, SMTT(30) DEF Shaped
<1>2. /\ Encode(a) = <<a.type>> \o Body(a) /\ Body(a) \in Seq(Nat)
      /\ Encode(b) = <<b.type>> \o Body(b) /\ Body(b) \in Seq(Nat)
  BY EncodeForm
<1>3. BytesLess(Encode(a), Encode(b)) <=> a.type < b.type \/ (a.type = b.type /\ BytesLess(Body(a), Body(b)))
  BY <1>1, <1>2, TypesCompare
<1>4. CASE a.type # b.type
  BY <1>3, <1>4 DEF RecordLess
<1>5. CASE a.type = b.type
  <2>1. BytesLess(Encode(a), Encode(b)) <=> BytesLess(Body(a), Body(b))
    BY <1>1, <1>3, <1>5
  <2>2. CASE a.type \in {Meta, EKey}
    BY <1>5, <2>1, <2>2 DEF RecordLess, Body
  <2>3. CASE a.type = EScore
    <3>1. a.score \in Below(Digits64) /\ b.score \in Below(Digits64)
      BY <1>0, <1>5, <2>3, NumberFacts DEF Shaped
    <3>2. Body(a) = Digits(a.score, Digits64) \o a.key /\ Body(b) = Digits(b.score, Digits64) \o b.key
      <4>1. a.type \notin {Meta, EKey} /\ b.type \notin {Meta, EKey} /\ b.type = EScore
        BY <1>5, <2>3
      <4> QED
        BY <2>3, <4>1, Zenon DEF Body
    <3>3. BytesLess(Body(a), Body(b)) <=> a.score < b.score \/ (a.score = b.score /\ BytesLess(a.key, b.key))
      BY <1>1, <3>1, <3>2, NumbersCompare, Widths
    <3> QED
      BY <1>5, <2>1, <2>3, <3>3 DEF RecordLess
  <2>4. CASE a.type \in {Delete, Item, ZScore}
    <3>1. a.ver \in CodeVersions /\ b.ver \in CodeVersions
      BY <1>0, <1>5, <2>4 DEF Shaped
    <3>2. Inner(a) \in Seq(Nat) /\ Inner(b) \in Seq(Nat)
      BY <1>5, <2>4, InnerType
    <3>3. Body(a) = Framed(a.key, a.ver, Inner(a)) /\ Body(b) = Framed(b.key, b.ver, Inner(b))
      BY <1>5, <2>4 DEF Body
    <3>4. BytesLess(Body(a), Body(b)) <=> FrameLess(a.key, a.ver, Inner(a), b.key, b.ver, Inner(b))
      BY <1>1, <3>1, <3>2, <3>3, FramesCompare
    <3>5. BytesLess(Inner(a), Inner(b))
          <=> IF a.score # b.score THEN ScoreLess(a.score, b.score) ELSE BytesLess(a.field, b.field)
      <4>1. CASE a.type # ZScore
        <5>1. a.score = 0 /\ b.score = 0
          BY <1>0, <1>5, <2>4, <4>1 DEF Shaped
        <5> QED
          BY <1>5, <4>1, <5>1 DEF Inner
      <4>2. CASE a.type = ZScore
        <5> DEFINE x == EncodeScore(a.score)
                   y == EncodeScore(b.score)
        <5>1. a.score \in Doubles /\ b.score \in Doubles
          BY <1>0, <1>5, <4>2 DEF Shaped
        <5>2. x \in Below(Digits64) /\ y \in Below(Digits64) /\ x \in Nat /\ y \in Nat
          BY <5>1, ScoreFacts, BelowIs, Widths
        <5>3. (x < y <=> ScoreLess(a.score, b.score)) /\ (x = y <=> a.score = b.score)
          BY <5>1, ScoreFacts
        <5>4. Inner(a) = Digits(x, Digits64) \o a.field /\ Inner(b) = Digits(y, Digits64) \o b.field
          BY <1>5, <4>2 DEF Inner
        <5> HIDE DEF x, y
        <5>5. BytesLess(Inner(a), Inner(b)) <=> x < y \/ (x = y /\ BytesLess(a.field, b.field))
          BY <1>1, <5>2, <5>4, NumbersCompare, Widths
        <5> QED
          BY <5>2, <5>3, <5>5
      <4> QED
        BY <4>1, <4>2
    <3>6. RecordLess(a, b) <=>
            IF a.key # b.key THEN NameLess(a.key, b.key)
            ELSE IF a.ver # b.ver THEN a.ver < b.ver
            ELSE IF a.score # b.score THEN ScoreLess(a.score, b.score) ELSE BytesLess(a.field, b.field)
      <4>1. ~(a.type # b.type) /\ a.type \notin {Meta, EKey} /\ a.type # EScore
        BY <1>5, <2>4
      <4> QED
        BY <4>1 DEF RecordLess
    <3> QED
      BY <2>1, <3>4, <3>5, <3>6 DEF FrameLess
  <2> QED
    BY <1>1, <2>2, <2>3, <2>4
<1> QED
  BY <1>4, <1>5

----------------------------------------------------------------------------
(* The prefix of a version *)

StartsBy(p, q, s, t) == Starts(p \o s, q \o t) <=> p = q /\ Starts(s, t)

LEMMA StartsInTurn ==
    ASSUME NEW p \in Seq(Nat), NEW q \in Seq(Nat), NEW s \in Seq(Nat), NEW t \in Seq(Nat),
           Len(p) = Len(q)
    PROVE  StartsBy(p, q, s, t)
BY StartsConcat, Zenon DEF StartsBy

FrameIn(k, v, f, l, u, g) == Starts(Framed(k, v, f), Framed(l, u, g)) <=> k = l /\ v = u

\* A frame begins with another one's key and version if they are its own.
LEMMA FrameStarts ==
    ASSUME NEW k \in Names, NEW v \in CodeVersions, NEW f \in Seq(Nat), Len(f) = 0,
           NEW l \in Names, NEW u \in CodeVersions, NEW g \in Seq(Nat)
    PROVE  FrameIn(k, v, f, l, u, g)
<1> DEFINE c == Digits(v, Digits16)
           d == Digits(u, Digits16)
           x == c \o f
           y == d \o g
           m == Digits(Len(k), Digits16)
           n == Digits(Len(l), Digits16)
<1>1. k \in Seq(Nat) /\ l \in Seq(Nat) /\ Len(k) \in Below(Digits16) /\ Len(l) \in Below(Digits16)
  BY NameFacts
<1>2. v \in Below(Digits16) /\ u \in Below(Digits16)
  BY NumberFacts
<1>3. /\ c \in Seq(Nat) /\ d \in Seq(Nat) /\ Len(c) = Len(d) /\ (c = d <=> v = u)
      /\ m \in Seq(Nat) /\ n \in Seq(Nat) /\ Len(m) = Len(n) /\ (m = n <=> Len(k) = Len(l))
  BY <1>1, <1>2, Digits16Type, DigitsOrder, Widths, SMTT(30)
<1>4. Framed(k, v, f) = m \o (k \o x) /\ Framed(l, u, g) = n \o (l \o y)
  BY DEF Framed
<1> HIDE DEF c, d, m, n
<1>5. x \in Seq(Nat) /\ y \in Seq(Nat) /\ StartsBy(c, d, f, g)
  <2>1. x \in Seq(Nat) /\ y \in Seq(Nat)
    BY <1>3
  <2>2. StartsBy(c, d, f, g)
    BY <1>3, StartsInTurn
  <2> QED
    BY <2>1, <2>2
<1>6. Starts(f, g)
  <2>1. Len(g) \in Nat
    OBVIOUS
  <2>2. Len(f) <= Len(g) /\ \A i \in 1..Len(f) : f[i] = g[i]
    BY <2>1
  <2> QED
    BY <2>2, StartsIs, Zenon
<1>7. Starts(x, y) <=> v = u
  BY <1>3, <1>5, <1>6 DEF StartsBy
<1> HIDE DEF x, y
<1>8. k \o x \in Seq(Nat) /\ l \o y \in Seq(Nat)
  BY <1>1, <1>5
<1>9. StartsBy(m, n, k \o x, l \o y)
  BY <1>3, <1>8, StartsInTurn
<1>10. Len(k) = Len(l) => StartsBy(k, l, x, y)
  BY <1>1, <1>5, StartsInTurn
<1> QED
  BY <1>3, <1>4, <1>7, <1>9, <1>10 DEF StartsBy, FrameIn

LEMMA PrefixIsVersion ==
    ASSUME NEW r \in AllKeys, NEW t \in {Item, ZScore}, NEW k \in Names, NEW v \in CodeVersions
    PROVE  Starts(EncodeKeyInternal(t, k, <<>>, v), Encode(r)) <=> r.type = t /\ r.key = k /\ r.ver = v
<1> DEFINE f == <<>>
           p == <<t>>
           q == <<r.type>>
           x == Framed(k, v, f)
           y == Body(r)
<1>0. Shaped(r) /\ r.key \in Names /\ r.type \in Nat
  BY KeysAreShaped DEF Shaped, Types
<1>1. f \in Seq(Nat) /\ Len(f) = 0
  OBVIOUS
<1>2. t \in Nat
  BY DEF Item, ZScore
<1> HIDE DEF f
<1>3. EncodeKeyInternal(t, k, f, v) = p \o x /\ x \in Seq(Nat)
  BY <1>1, <1>2, KeyForm
<1>4. Encode(r) = q \o y /\ y \in Seq(Nat)
  BY EncodeForm
<1>5. p \in Seq(Nat) /\ q \in Seq(Nat) /\ Len(p) = Len(q) /\ (p = q <=> t = r.type)
  BY <1>0, <1>2
<1> HIDE DEF x, y, p, q
<1>6. StartsBy(p, q, x, y)
  BY <1>3, <1>4, <1>5, StartsInTurn
<1>7. r.type = t => (Starts(x, y) <=> k = r.key /\ v = r.ver)
  <2> SUFFICES ASSUME r.type = t PROVE Starts(x, y) <=> k = r.key /\ v = r.ver
    OBVIOUS
  <2>1. r.type \in {Delete, Item, ZScore} /\ r.type \notin {Meta, EKey} /\ r.type # EScore
    BY DEF Meta, EKey, EScore, Delete, Item, ZScore
  <2>2. Inner(r) \in Seq(Nat) /\ r.ver \in CodeVersions
    BY <1>0, <2>1, InnerType DEF Shaped
  <2>3. y = Framed(r.key, r.ver, Inner(r))
    BY <2>1, Zenon DEF y, Body
  <2> DEFINE g == Inner(r)
             u == r.ver
             l == r.key
  <2>4. g \in Seq(Nat) /\ u \in CodeVersions /\ l \in Names
    BY <1>0, <2>2
  <2> HIDE DEF g, u, l
  <2>5. FrameIn(k, v, f, l, u, g)
    BY <1>1, <2>4, FrameStarts, Zenon
  <2> QED
    BY <2>3, <2>5, Zenon DEF x, g, u, l, FrameIn
<1>8. Starts(EncodeKeyInternal(t, k, f, v), Encode(r)) <=> r.type = t /\ r.key = k /\ r.ver = v
  BY <1>3, <1>4, <1>5, <1>6, <1>7 DEF StartsBy
<1> QED
  BY <1>8 DEF f

----------------------------------------------------------------------------
(* List items *)

LEMMA NextPower ==
    ASSUME NEW b \in Nat \ {0}, NEW x \in Nat, NEW p \in Nat, NEW c \in Nat, x < p, c < b
    PROVE  x * b + c < p * b
<1>1. PICK z \in Nat : p = x + 1 + z
  <2>1. p - x - 1 \in Nat /\ p = x + 1 + (p - x - 1)
    OBVIOUS
  <2> QED
    BY <2>1
<1>2. p * b = x * b + b + z * b /\ z * b \in Nat /\ x * b \in Nat
  BY <1>1
<1> QED
  BY <1>2

\* Any string of bytes is the big-endian form of the integer it is read as.
LEMMA DigitsOfValue ==
    ASSUME NEW s \in Seq(Bytes)
    PROVE  Digits(Value(s), Len(s)) = s
<1> DEFINE w == Len(s)
<1>0. w \in Nat /\ s \in Seq(Nat) /\ \A i \in 1..w : s[i] \in Nat /\ s[i] < Radix
  BY BytesAreNumbers
<1>1. PICK v : Values(Radix, s, w, v) /\ Value(s) = v[w]
  BY BytesAreNumbers, ValuesExist, Widths DEF Value
<1> HIDE DEF w
<1>2. PICK p : Powers(Radix, w, p) /\ Power(Radix, w) = p[w]
  BY <1>0, PowersExist, Widths
<1> DEFINE P == {i \in Nat : i <= w => v[i] < p[i]}
<1>3. 0 \in P
  BY <1>1, <1>2 DEF Values, Powers
<1>4. ASSUME NEW i \in Nat, i \in P PROVE i + 1 \in P
  <2> SUFFICES ASSUME i + 1 <= w PROVE v[i + 1] < p[i + 1]
    OBVIOUS
  <2>1. i + 1 \in 1..w /\ (i + 1) - 1 = i /\ i \in 0..w
    BY <1>0
  <2>2. v[i + 1] = v[i] * Radix + s[i + 1] /\ v[i] \in Nat
    BY <1>1, <2>1 DEF Values
  <2>3. p[i + 1] = p[i] * Radix /\ p[i] \in Nat
    BY <1>2, <2>1 DEF Powers
  <2>4. v[i] < p[i] /\ s[i + 1] \in Nat /\ s[i + 1] < Radix
    BY <1>0, <1>4, <2>1
  <2>5. v[i] * Radix + s[i + 1] < p[i] * Radix
    BY <2>2, <2>3, <2>4, NextPower, Widths
  <2> QED
    BY <2>2, <2>3, <2>5
<1> HIDE DEF P
<1>5. w \in P
  BY <1>0, <1>3, <1>4, NatSetInduction
<1>6. Value(s) \in Nat /\ Value(s) < Power(Radix, w)
  <2>1. w \in 0..w
    BY <1>0
  <2>2. v[w] \in Nat /\ v[w] < p[w]
    BY <1>0, <1>1, <1>5, <2>1 DEF P, Values
  <2> QED
    BY <1>1, <1>2, <2>2
<1> DEFINE d == Digits(Value(s), w)
<1>7. d \in Seq(Bytes) /\ Len(d) = w /\ Value(d) = Value(s)
  BY <1>0, <1>6, DigitsType, ValueOfDigits
<1> HIDE DEF d
<1>8. d = s
  BY <1>7, ValueOrder DEF w
<1> QED
  BY <1>8 DEF d, w

LEMMA WholeIsHead ==
    ASSUME NEW S, NEW s \in Seq(S)
    PROVE  SubSeq(s, 1, Len(s)) = s
<1> DEFINE h == SubSeq(s, 1, Len(s))
<1>1. h \in Seq(S) /\ Len(h) = Len(s) /\ \A i \in 1..Len(s) : h[i] = s[i]
  OBVIOUS
<1> HIDE DEF h
<1>2. h = s
  BY <1>1, SeqEqual
<1> QED
  BY <1>2 DEF h

\* An item of a list is read with the number its field is.
LEMMA DecodeListReads ==
    ASSUME NEW r \in AllKeys, r.type = Item, Len(r.field) = Digits64
    PROVE  DecodeListKey(Encode(r)) = r
<1> DEFINE e == Encode(r)
           i == DecodeItemKey(e)
           n == ReadInt(i.field, Digits64)
<1>0. Shaped(r)
  BY KeysAreShaped
<1>1. /\ r = RecKey(r.type, r.key, r.ver, r.score, r.field)
      /\ r.key \in Names /\ r.field \in Seq(Nat) /\ r.field \in Seq(Bytes)
      /\ r.ver \in CodeVersions /\ r.score = 0 /\ Item \in Nat
  BY <1>0, BytesAreNumbers DEF Shaped, Item
<1>2. e = EncodeKeyInternal(Item, r.key, r.field, r.ver)
  <2>1. Item # Meta /\ Item # EKey /\ Item # EScore /\ Item # Delete /\ Item # ZScore
    BY DEF Meta, EKey, EScore, Delete, Item, ZScore
  <2> QED
    BY <2>1 DEF Encode
<1>3. DecodesTo(e, Item, r.key, r.ver, r.field)
  BY <1>1, <1>2, DecodeItemReads
<1> HIDE DEF e
<1>4. i = r
  BY <1>1, <1>3 DEF DecodesTo
<1>5. i # NoKey
  <2>1. NoKey.type = -1 /\ r.type # -1
    BY DEF NoKey, Item
  <2> QED
    BY <1>4, <2>1
<1> HIDE DEF i
<1>6. n.ok /\ n.val = Value(r.field)
  <2>1. SubSeq(r.field, 1, Digits64) = r.field
    BY <1>1, WholeIsHead
  <2>2. ~(Len(r.field) < Digits64)
    BY Widths
  <2>3. n = [ok |-> TRUE, val |-> Value(r.field), rest |-> Drop(r.field, Digits64)]
    BY <1>4, <2>1, <2>2, Zenon DEF ReadInt
  <2> QED
    BY <2>3
<1> HIDE DEF n
<1>7. Digits(n.val, Digits64) = r.field
  BY <1>1, <1>6, DigitsOfValue
<1>8. DecodeListKey(e) = [i EXCEPT !.field = Digits(n.val, Digits64)]
  BY <1>5, <1>6, Zenon DEF DecodeListKey, i, n
<1>9. [r EXCEPT !.field = r.field] = r
  BY <1>1 DEF RecKey
<1>10. DecodeListKey(e) = r
  BY <1>4, <1>7, <1>8, <1>9, Zenon
<1> QED
  BY <1>10 DEF e

----------------------------------------------------------------------------
(* META values *)

LEMMA AssociativeIn ==
    ASSUME NEW S, NEW s \in Seq(S), NEW t \in Seq(S), NEW u \in Seq(S)
    PROVE  Associates(s, t, u)
BY DEF Associates

\* What the readers of a META value look at
HasParts(s, kind, ver, del, x) ==
    LET v == ReadInt(Tail(s), Digits16) IN
    /\ Len(s) >= Digits16 + 2 /\ s[1] = kind
    /\ v.val = ver /\ v.rest[1] = del
    /\ Drop(s, Digits16 + 2) = x

LEMMA MetaParts ==
    ASSUME NEW kind \in Kinds, NEW ver \in CodeVersions, NEW del \in Nat, NEW x \in Seq(Nat),
           NEW s, s = ((Kind(kind) \o Digits(ver, Digits16)) \o <<del>>) \o x
    PROVE  HasParts(s, kind, ver, del, x)
<1> DEFINE S == Kinds \cup Nat
           a == <<kind>>
           b == Digits(ver, Digits16)
           c == <<del>>
           v == ReadInt(Tail(s), Digits16)
<1>1. b \in Seq(Nat) /\ Len(b) = Digits16 /\ ver \in Below(Digits16)
  BY NumberFacts, Digits16Type
<1>2. a \in Seq(S) /\ Len(a) = 1 /\ c \in Seq(Nat) /\ Len(c) = 1 /\ c[1] = del /\ kind \in S
  OBVIOUS
<1>3. s = ((a \o b) \o c) \o x
  BY Zenon DEF Kind
<1>13. Nat \subseteq S
  OBVIOUS
<1> HIDE DEF b, c, S
<1>4. \A y \in Seq(Nat) : y \in Seq(S)
  BY <1>13, SeqMonotonic, Zenon
<1>5. c \o x \in Seq(Nat) /\ b \o (c \o x) \in Seq(Nat)
  <2>1. c \o x \in Seq(Nat)
    BY <1>2
  <2> QED
    BY <1>1, <2>1
<1>6. s = a \o (b \o (c \o x))
  <2>0. b \in Seq(S) /\ c \in Seq(S) /\ x \in Seq(S) /\ c \o x \in Seq(S) /\ a \in Seq(S)
    BY <1>1, <1>2, <1>4, <1>5
  <2> HIDE DEF a
  <2>1. a \o b \in Seq(S)
    BY <2>0
  <2>2. Associates(a \o b, c, x)
    BY <2>0, <2>1, AssociativeIn
  <2>3. Associates(a, b, c \o x)
    BY <2>0, AssociativeIn
  <2> QED
    BY <1>3, <2>2, <2>3, Zenon DEF Associates
<1>7. Tail(s) = b \o (c \o x) /\ s[1] = kind
  <2> DEFINE y == b \o (c \o x)
  <2>1. y \in Seq(S)
    BY <1>4, <1>5
  <2> HIDE DEF y
  <2>2. Tail(<<kind>> \o y) = y /\ (<<kind>> \o y)[1] = kind
    BY <1>2, <2>1, HeadAndTail, Zenon
  <2> QED
    BY <1>6, <2>2, Zenon DEF y
<1>8. v = [ok |-> TRUE, val |-> ver, rest |-> c \o x]
  <2> DEFINE y == c \o x
  <2>1. y \in Seq(Nat)
    BY <1>5
  <2> HIDE DEF y
  <2>2. ReadInt(b \o y, Digits16) = [ok |-> TRUE, val |-> ver, rest |-> y]
    BY <1>1, <2>1, ReadIntReads, Widths DEF b
  <2> QED
    BY <1>7, <2>2, Zenon DEF y
<1>9. (c \o x)[1] = del
  BY <1>2, FirstByte DEF c
<1> HIDE DEF v
<1>10. v.val = ver /\ v.rest[1] = del
  BY <1>8, <1>9
<1>11. Len(s) >= Digits16 + 2 /\ Drop(s, Digits16 + 2) = x
  <2> DEFINE p == (a \o b) \o c
  <2>1. b \in Seq(S) /\ c \in Seq(S) /\ x \in Seq(S) /\ a \in Seq(S)
    BY <1>1, <1>2, <1>4
  <2> HIDE DEF a
  <2>2. a \o b \in Seq(S) /\ Joined(a, b, a \o b)
    BY <2>1, Concatenated, Zenon
  <2>3. p \in Seq(S) /\ Joined(a \o b, c, p)
    BY <2>1, <2>2, Concatenated, Zenon
  <2>4. s = p \o x
    BY <1>3
  <2> HIDE DEF p
  <2>5. Joined(p, x, s)
    BY <2>1, <2>3, <2>4, Concatenated, Zenon
  <2>6. Drop(s, Len(p)) = x
    BY <2>1, <2>3, <2>4, SplitConcat, ZenonT(60)
  <2>7. Len(a \o b) = 1 + Digits16 /\ Len(p) = Len(a \o b) + 1 /\ Len(s) = Len(p) + Len(x)
    BY <1>1, <1>2, <2>2, <2>3, <2>5, Zenon DEF Joined
  <2>8. Len(x) \in Nat /\ Digits16 \in Nat
    BY Widths
  <2>9. Len(p) = Digits16 + 2 /\ Len(s) >= Digits16 + 2
    BY <2>7, <2>8
  <2> QED
    BY <2>6, <2>9
<1> QED
  BY <1>7, <1>10, <1>11 DEF HasParts, v

Slice(c, p, q) == SubSeq(c, Len(p) + 1, Len(p) + Len(q)) = q

LEMMA SliceIs ==
    ASSUME NEW c \in Seq(Nat), NEW n \in Nat, NEW m \in Nat, n + m <= Len(c)
    PROVE  /\ SubSeq(c, n + 1, n + m) \in Seq(Nat) /\ Len(SubSeq(c, n + 1, n + m)) = m
           /\ \A i \in 1..m : SubSeq(c, n + 1, n + m)[i] = c[n + i]
<1> DEFINE s == SubSeq(c, n + 1, n + m)
<1>1. s = [i \in 1..m |-> c[n + i]]
  <2>1. s = [i \in 1..((n + m) - (n + 1) + 1) |-> c[(n + 1) + i - 1]]
    OBVIOUS
  <2>2. (n + m) - (n + 1) + 1 = m /\ \A i \in 1..m : (n + 1) + i - 1 = n + i
    OBVIOUS
  <2> HIDE DEF s
  <2> QED
    BY <2>1, <2>2
<1>2. \A i \in 1..m : c[n + i] \in Nat
  OBVIOUS
<1> HIDE DEF s
<1>3. s \in [1..m -> Nat] /\ \A i \in 1..m : s[i] = c[n + i]
  BY <1>1, <1>2
<1>4. s \in Seq(Nat) /\ Len(s) = m
  BY <1>3
<1> QED
  BY <1>3, <1>4 DEF s

LEMMA SliceOf ==
    ASSUME NEW p \in Seq(Nat), NEW q \in Seq(Nat), NEW s \in Seq(Nat), NEW c, c = (p \o q) \o s
    PROVE  Slice(c, p, q)
<1> DEFINE a == p \o q
           n == Len(p)
           m == Len(q)
           h == SubSeq(c, n + 1, n + m)
<1>1. a \in Seq(Nat) /\ Joined(p, q, a)
  BY Concatenated
<1>2. c \in Seq(Nat) /\ Joined(a, s, c)
  <2>1. a \o s \in Seq(Nat) /\ Joined(a, s, a \o s)
    BY <1>1, Concatenated, Zenon
  <2> QED
    BY <2>1, Zenon
<1>3. n \in Nat /\ m \in Nat /\ Len(s) \in Nat
  OBVIOUS
<1> HIDE DEF a
<1>4. Len(a) = n + m /\ Len(c) = Len(a) + Len(s)
  BY <1>1, <1>2, Zenon DEF Joined
<1>5. ASSUME NEW i \in 1..m PROVE c[n + i] = q[i]
  <2>1. n + i \in 1..Len(a)
    BY <1>3, <1>4
  <2>2. c[n + i] = a[n + i]
    BY <1>2, <2>1, Zenon DEF Joined
  <2>3. a[n + i] = q[i]
    BY <1>1, Zenon DEF Joined
  <2> QED
    BY <2>2, <2>3
<1> HIDE DEF n, m
<1>6. h \in Seq(Nat) /\ Len(h) = m /\ \A i \in 1..m : h[i] = c[n + i]
  <2>1. n + m <= Len(c)
    BY <1>3, <1>4
  <2> QED
    BY <1>2, <1>3, <2>1, SliceIs, Zenon
<1> HIDE DEF h
<1>7. h = q
  <2>1. \A i \in 1..m : h[i] = q[i]
    BY <1>5, <1>6, Zenon
  <2> QED
    BY <1>6, <2>1, SeqEqual DEF m
<1> QED
  BY <1>7 DEF h, n, m, Slice

Slot(rest, i) == Value(SubSeq(rest, (i - 1) * Digits64 + 1, i * Digits64))

LEMMA OneNumber ==
    ASSUME NEW n \in Numbers
    PROVE  /\ Digits(n, Digits64) \in Seq(Nat)
           /\ Len(Digits(n, Digits64)) \div Digits64 = 1 /\ Slot(Digits(n, Digits64), 1) = n
<1> DEFINE d == Digits(n, Digits64)
<1>1. d \in Seq(Nat) /\ Len(d) = Digits64
  BY NumberFacts, Digits64Type
<1>2. Value(d) = n
  BY NumberFacts, BelowIs, ValueOfDigits, Widths
<1> HIDE DEF d
<1>3. SubSeq(d, 1, Digits64) = d
  BY <1>1, WholeIsHead
<1>4. (1 - 1) * Digits64 + 1 = 1 /\ 1 * Digits64 = Digits64 /\ Digits64 \div Digits64 = 1
  BY Widths
<1>5. Slot(d, 1) = Value(SubSeq(d, 1, Digits64))
  BY <1>4, Zenon DEF Slot
<1>6. d \in Seq(Nat) /\ Len(d) \div Digits64 = 1 /\ Slot(d, 1) = n
  BY <1>1, <1>2, <1>3, <1>4, <1>5
<1> QED
  BY <1>6 DEF d

HasSlots(rest, x, y, z) ==
    /\ rest \in Seq(Nat) /\ Len(rest) \div Digits64 = 3
    /\ Slot(rest, 1) = x /\ Slot(rest, 2) = y /\ Slot(rest, 3) = z

LEMMA ThreeNumbers ==
    ASSUME NEW x \in Numbers, NEW y \in Numbers, NEW z \in Numbers
    PROVE  HasSlots((Digits(x, Digits64) \o Digits(y, Digits64)) \o Digits(z, Digits64), x, y, z)
<1> DEFINE a == Digits(x, Digits64)
           b == Digits(y, Digits64)
           c == Digits(z, Digits64)
           p == a \o b
           s == p \o c
           w == Digits64
           e == <<>>
<1>1. /\ a \in Seq(Nat) /\ Len(a) = w /\ b \in Seq(Nat) /\ Len(b) = w
      /\ c \in Seq(Nat) /\ Len(c) = w
  BY NumberFacts, Digits64Type
<1>2. Value(a) = x /\ Value(b) = y /\ Value(c) = z
  BY NumberFacts, BelowIs, ValueOfDigits, Widths
<1>3. w \in Nat \ {0}
  BY Widths
<1> HIDE DEF a, b, c, w
<1>4. p \in Seq(Nat) /\ Joined(a, b, p)
  BY <1>1, Concatenated, Zenon
<1>5. s \in Seq(Nat) /\ Joined(p, c, s)
  BY <1>1, <1>4, Concatenated, Zenon
<1>6. Len(p) = w + w /\ Len(s) = Len(p) + w
  BY <1>1, <1>4, <1>5, Zenon DEF Joined
<1>7. SubSeq(s, w + 1, w + w) = b
  <2>1. Slice(s, a, b)
    BY <1>1, SliceOf, Zenon
  <2> QED
    BY <1>1, <2>1, Zenon DEF Slice
<1>8. SubSeq(s, 1, w) = a
  <2>1. b \o c \in Seq(Nat) /\ Associates(a, b, c)
    BY <1>1, Associative
  <2>2. s = a \o (b \o c)
    BY <2>1 DEF Associates
  <2>3. SubSeq(a \o (b \o c), 1, Len(a)) = a
    BY <1>1, <2>1, SplitConcat, Zenon
  <2> QED
    BY <1>1, <2>2, <2>3, Zenon
<1>9. SubSeq(s, Len(p) + 1, Len(s)) = c
  <2>1. Drop(p \o c, Len(p)) = c
    BY <1>1, <1>4, SplitConcat, Zenon
  <2> QED
    BY <2>1, Zenon DEF Drop
<1> HIDE DEF s, p
<1>10. Len(p) = 2 * w /\ Len(s) = 3 * w
  BY <1>3, <1>6
<1>11. /\ (1 - 1) * w + 1 = 1 /\ 1 * w = w /\ (2 - 1) * w + 1 = w + 1 /\ 2 * w = w + w
       /\ (3 - 1) * w + 1 = Len(p) + 1 /\ 3 * w = Len(s)
  BY <1>3, <1>10
<1>12. Slot(s, 1) = x /\ Slot(s, 2) = y /\ Slot(s, 3) = z
  BY <1>2, <1>7, <1>8, <1>9, <1>11, Zenon DEF Slot, w
<1>13. Len(s) \div w = 3
  <2>1. \A n \in Nat \ {0} : (3 * n) \div n = 3
    OBVIOUS
  <2> QED
    BY <1>3, <1>10, <2>1
<1>14. HasSlots(s, x, y, z)
  BY <1>5, <1>12, <1>13 DEF HasSlots, w
<1> QED
  BY <1>14 DEF s, p, a, b, c

\* What a META value holds after the part all types have
MetaBody(m) ==
    IF m.kind = "kv" THEN m.value
    ELSE IF m.kind = "list"
    THEN Digits(m.len, Digits64) \o Digits(m.left, Digits64) \o Digits(m.right, Digits64)
    ELSE Digits(m.len, Digits64)

LEMMA MetaReads ==
    ASSUME NEW m \in Plain \cup String \cup List, NEW kinds
    PROVE  ReadsMeta(DecodeMetaVal(EncodeMetaVal(m), kinds), m, kinds)
<1> DEFINE s == EncodeMetaVal(m)
           x == MetaBody(m)
           d == DecodeMetaVal(s, kinds)
<1> SUFFICES ReadsMeta(d, m, kinds)
  OBVIOUS
<1>1. m.kind \in Kinds /\ m.ver \in CodeVersions /\ m.del \in {Deleted, Enabled} /\ m.del \in Nat
  BY DEF Plain, String, List, Kinds, Deleted, Enabled
<1>2. /\ m.kind = "kv" => m.value \in Fields /\ DOMAIN m = {"kind", "ver", "del", "value"}
      /\ m.kind # "kv" => m.len \in Numbers
      /\ m.kind = "list" => /\ m.left \in Numbers /\ m.right \in Numbers
                            /\ DOMAIN m = {"kind", "ver", "del", "len", "left", "right"}
      /\ m.kind \notin {"kv", "list"} => DOMAIN m = {"kind", "ver", "del", "len"}
  <2>1. CASE m \in Plain
    BY <2>1 DEF Plain
  <2>2. CASE m \in String
    BY <2>2 DEF String
  <2>3. CASE m \in List
    BY <2>3 DEF List
  <2> QED
    BY <2>1, <2>2, <2>3
<1>3. x \in Seq(Nat)
  <2>1. CASE m.kind = "kv"
    <3>1. m.value \in Seq(Bytes)
      BY <1>2, <2>1, CodeAssumption DEF Bytes
    <3> QED
      BY <2>1, <3>1, BytesAreNumbers DEF MetaBody
  <2>2. CASE m.kind = "list"
    <3>1. HasSlots((Digits(m.len, Digits64) \o Digits(m.left, Digits64)) \o Digits(m.right, Digits64), m.len, m.left, m.right)
      BY <1>2, <2>2, ThreeNumbers
    <3>2. m.kind # "kv"
      BY <2>2
    <3> QED
      BY <2>2, <3>1, <3>2, Zenon DEF MetaBody, HasSlots
  <2>3. CASE m.kind \notin {"kv", "list"}
    BY <1>2, <2>3, OneNumber DEF MetaBody
  <2> QED
    BY <2>1, <2>2, <2>3
<1>4. s = ((Kind(m.kind) \o Digits(m.ver, Digits16)) \o <<m.del>>) \o x
  BY Zenon DEF EncodeMetaVal, MetaBody
<1> HIDE DEF s, x
<1>5. HasParts(s, m.kind, m.ver, m.del, x)
  BY <1>1, <1>3, <1>4, MetaParts
<1>6. d = IF m.del = Deleted THEN [ret |-> "deleted", ver |-> m.ver]
          ELSE IF m.kind \notin kinds THEN Bad("wrong type")
          ELSE IF m.kind = "kv" THEN [ret |-> "ok", ver |-> m.ver, value |-> x]
          ELSE IF m.kind = "list"
          THEN IF Len(x) \div Digits64 < 3 THEN Bad("error")
               ELSE [ret |-> "ok", ver |-> m.ver, len |-> Slot(x, 1), left |-> Slot(x, 2), right |-> Slot(x, 3)]
          ELSE IF Len(x) \div Digits64 < 1 THEN Bad("error") ELSE [ret |-> "ok", ver |-> m.ver, len |-> Slot(x, 1)]
  <2>1. ~(Len(s) < Digits16 + 2)
    <3>1. Len(s) >= Digits16 + 2 /\ Digits16 \in Nat
      BY <1>5, Widths DEF HasParts
    <3>2. Len(s) \in Nat
      <4> DEFINE a == Kind(m.kind)
      <4> QED
        BY <1>4
    <3> QED
      BY <3>1, <3>2
  <2> QED
    BY <1>1, <1>5, <2>1, Zenon DEF DecodeMetaVal, HasParts, Slot
<1> HIDE DEF d
<1>0. Deleted # Enabled
  BY DEF Deleted, Enabled
<1>7. CASE m.del = Deleted
  <2>1. d = [ret |-> "deleted", ver |-> m.ver]
    BY <1>6, <1>7, Zenon
  <2>2. ReadsMeta(d, m, kinds) <=> d = [ret |-> "deleted", ver |-> m.ver]
    BY <1>0, <1>7 DEF ReadsMeta
  <2> QED
    BY <2>1, <2>2, Zenon
<1>8. CASE m.del = Enabled /\ m.kind \notin kinds
  <2>1. d = [ret |-> "wrong type"]
    BY <1>0, <1>6, <1>8, Zenon DEF Bad
  <2>2. ReadsMeta(d, m, kinds) <=> d = [ret |-> "wrong type"]
    BY <1>0, <1>8 DEF ReadsMeta
  <2> QED
    BY <2>1, <2>2, Zenon
<1>9. CASE m.del = Enabled /\ m.kind \in kinds
  <2>1. ReadsMeta(d, m, kinds) <=> d.ret = "ok" /\ \A f \in DOMAIN m \ {"kind", "del"} : d[f] = m[f]
    BY <1>0, <1>9 DEF ReadsMeta
  <2>2. m.del # Deleted
    BY <1>0, <1>9
  <2>3. CASE m.kind = "kv"
    <3>1. d = [ret |-> "ok", ver |-> m.ver, value |-> x]
      BY <1>6, <1>9, <2>2, <2>3, Zenon
    <3>2. x = m.value
      BY <2>3 DEF x, MetaBody
    <3>3. d.ret = "ok" /\ d.ver = m.ver /\ d.value = m.value
      BY <3>1, <3>2
    <3>4. DOMAIN m \ {"kind", "del"} = {"ver", "value"}
      BY <1>2, <2>3
    <3> QED
      BY <2>1, <3>3, <3>4
  <2>4. CASE m.kind = "list"
    <3>0. m.kind # "kv"
      BY <2>4
    <3>1. HasSlots(x, m.len, m.left, m.right)
      <4>1. HasSlots((Digits(m.len, Digits64) \o Digits(m.left, Digits64)) \o Digits(m.right, Digits64), m.len, m.left, m.right)
        BY <1>2, <2>4, ThreeNumbers
      <4> QED
        BY <2>4, <3>0, <4>1, Zenon DEF x, MetaBody
    <3>2. ~(Len(x) \div Digits64 < 3) /\ Slot(x, 1) = m.len /\ Slot(x, 2) = m.left /\ Slot(x, 3) = m.right
      BY <3>1 DEF HasSlots
    <3>3. d = [ret |-> "ok", ver |-> m.ver, len |-> Slot(x, 1), left |-> Slot(x, 2), right |-> Slot(x, 3)]
      BY <1>6, <1>9, <2>2, <2>4, <3>0, <3>2, Zenon
    <3>4. /\ d.ret = "ok" /\ d.ver = m.ver /\ d.len = m.len
          /\ d.left = m.left /\ d.right = m.right
      BY <3>2, <3>3
    <3>5. DOMAIN m \ {"kind", "del"} = {"ver", "len", "left", "right"}
      BY <1>2, <2>4
    <3> QED
      BY <2>1, <3>4, <3>5
  <2>5. CASE m.kind \notin {"kv", "list"}
    <3>0. m.kind # "kv" /\ m.kind # "list"
      BY <2>5
    <3>1. Len(x) \div Digits64 = 1 /\ Slot(x, 1) = m.len
      BY <1>2, <3>0, OneNumber, Zenon DEF x, MetaBody
    <3>2. ~(Len(x) \div Digits64 < 1)
      BY <3>1
    <3>3. d = [ret |-> "ok", ver |-> m.ver, len |-> Slot(x, 1)]
      BY <1>6, <1>9, <2>2, <3>0, <3>2, Zenon
    <3>4. d.ret = "ok" /\ d.ver = m.ver /\ d.len = m.len
      BY <3>1, <3>3
    <3>5. DOMAIN m \ {"kind", "del"} = {"ver", "len"}
      BY <1>2, <2>5
    <3> QED
      BY <2>1, <3>4, <3>5
  <2> QED
    BY <2>3, <2>4, <2>5
<1> QED
  BY <1>1, <1>7, <1>8, <1>9

----------------------------------------------------------------------------
(* The database *)

Metas == Plain \cup String \cup List

\* The records written: each is its key, a META record with its value, and no
\* key was written twice.
RecordsKnown ==
    /\ IsFiniteSet(recs)
    /\ \A r \in recs : r.key \in AllKeys
    /\ \A r \in recs : IF r.key.type = Meta THEN r.val \in Metas ELSE r = [key |-> r.key]
    /\ \A r, q \in recs : r.key = q.key => r = q
\* The database has their bytes, and no others.
DbHolds ==
    /\ IsFiniteSet(DOMAIN db) /\ Cardinality(DOMAIN db) = Cardinality(recs)
    /\ DOMAIN db = {Encode(r.key) : r \in recs}
    /\ \A r \in recs : r.key.type = Meta => db[Encode(r.key)] = EncodeMetaVal(r.val)
\* The inductive invariant
CodeInd == RecordsKnown /\ DbHolds

LEMMA NotMeta == ASSUME NEW r \in RecKeys PROVE r.type # Meta /\ r \in AllKeys
BY DEF RecKeys, AllKeys, RecKey, Meta, EKey, EScore, Delete, Item, ZScore

LEMMA MetaKeyIs ==
    ASSUME NEW k \in Names
    PROVE  /\ RecKey(Meta, k, 0, 0, <<>>) \in AllKeys /\ RecKey(Meta, k, 0, 0, <<>>).type = Meta
           /\ Encode(RecKey(Meta, k, 0, 0, <<>>)) = EncodeMetaKey(k)
<1>1. RecKey(Meta, k, 0, 0, <<>>) \in AllKeys
  BY DEF AllKeys
<1>2. RecKey(Meta, k, 0, 0, <<>>).type = Meta /\ RecKey(Meta, k, 0, 0, <<>>).key = k
  BY DEF RecKey
<1>3. Meta # EKey /\ Meta # EScore /\ Meta # Delete /\ Meta # Item /\ Meta # ZScore
  BY DEF Meta, EKey, EScore, Delete, Item, ZScore
<1> QED
  BY <1>1, <1>2, <1>3 DEF Encode

\* A record whose key is new
LEMMA WriteKeeps ==
    ASSUME CodeInd, NEW r, r.key \in AllKeys, NEW bytes, bytes = Encode(r.key), NEW value,
           Write(r, bytes, value), \A q \in recs : q.key # r.key,
           IF r.key.type = Meta THEN r.val \in Metas ELSE r = [key |-> r.key],
           r.key.type = Meta => value = EncodeMetaVal(r.val)
    PROVE  CodeInd'
<1> USE DEF CodeInd
<1>1. /\ recs' = recs \cup {r} /\ r \notin recs
      /\ db' = [b \in DOMAIN db \cup {bytes} |-> IF b = bytes THEN value ELSE db[b]]
  BY DEF Write
<1>2. DOMAIN db' = DOMAIN db \cup {bytes}
  BY <1>1
<1>3. \A q \in recs : Encode(q.key) # bytes
  BY DecodeEncodes DEF RecordsKnown
<1>4. bytes \notin DOMAIN db
  BY <1>3 DEF DbHolds
<1>5. IsFiniteSet(recs') /\ Cardinality(recs') = Cardinality(recs) + 1
  BY <1>1, FS_AddElement DEF RecordsKnown
<1>6. IsFiniteSet(DOMAIN db') /\ Cardinality(DOMAIN db') = Cardinality(DOMAIN db) + 1
  BY <1>2, <1>4, FS_AddElement, ZenonT(60) DEF DbHolds
<1>7. RecordsKnown'
  BY <1>1, <1>5 DEF RecordsKnown
<1>8. DOMAIN db' = {Encode(q.key) : q \in recs'}
  BY <1>1, <1>2 DEF DbHolds
<1>9. ASSUME NEW q \in recs', q.key.type = Meta
      PROVE  db'[Encode(q.key)] = EncodeMetaVal(q.val)
  <2>1. CASE q = r
    BY <1>1, <1>9, <2>1
  <2>2. CASE q \in recs
    <3>1. Encode(q.key) \in DOMAIN db /\ Encode(q.key) # bytes
      BY <1>3, <2>2 DEF DbHolds
    <3>2. db'[Encode(q.key)] = db[Encode(q.key)]
      BY <1>1, <3>1
    <3> QED
      BY <1>9, <2>2, <3>2 DEF DbHolds
  <2> QED
    BY <1>1, <2>1, <2>2
<1>10. DbHolds'
  <2>1. Cardinality(DOMAIN db') = Cardinality(recs')
    BY <1>5, <1>6 DEF DbHolds
  <2>2. \A q \in recs' : q.key.type = Meta => db'[Encode(q.key)] = EncodeMetaVal(q.val)
    BY <1>9
  <2> QED
    BY <1>6, <1>8, <2>1, <2>2 DEF DbHolds
<1> QED
  BY <1>7, <1>10

LEMMA CodeInitInd == CodeInit => CodeInd
<1> SUFFICES ASSUME CodeInit PROVE CodeInd
  OBVIOUS
<1>1. recs = {} /\ DOMAIN db = {}
  BY DEF CodeInit
<1>2. IsFiniteSet({})
  BY FS_EmptySet
<1> QED
  BY <1>1, <1>2 DEF CodeInd, RecordsKnown, DbHolds

LEMMA CodeNextInd == CodeInd /\ [CodeNext]_codevars => CodeInd'
<1> SUFFICES ASSUME CodeInd, [CodeNext]_codevars PROVE CodeInd'
  OBVIOUS
<1>1. ASSUME NEW r \in RecKeys, Put(r)
      PROVE  CodeInd'
  <2> DEFINE q == [key |-> r]
  <2>1. q.key = r /\ q = [key |-> q.key]
    OBVIOUS
  <2>2. Write(q, Encode(r), <<>>)
    BY <1>1 DEF Put
  <2>3. r.type # Meta /\ r \in AllKeys
    BY NotMeta
  <2>4. q \notin recs
    BY <2>2 DEF Write
  <2> HIDE DEF q
  <2>5. \A p \in recs : p.key # q.key
    BY <2>1, <2>3, <2>4 DEF CodeInd, RecordsKnown
  <2> QED
    BY <2>1, <2>2, <2>3, <2>5, WriteKeeps
<1>2. ASSUME NEW k \in Names, NEW m \in Metas, PutMeta(k, m)
      PROVE  CodeInd'
  <2> DEFINE key == RecKey(Meta, k, 0, 0, <<>>)
             q == [key |-> key, val |-> m]
  <2>1. key \in AllKeys /\ key.type = Meta /\ Encode(key) = EncodeMetaKey(k)
    BY MetaKeyIs
  <2>2. Write(q, EncodeMetaKey(k), EncodeMetaVal(m)) /\ \A p \in recs : p.key.type # Meta
    BY <1>2 DEF PutMeta
  <2> HIDE DEF key
  <2>3. q.key = key /\ q.val = m
    OBVIOUS
  <2> HIDE DEF q
  <2>4. \A p \in recs : p.key # q.key
    BY <2>1, <2>2, <2>3
  <2> QED
    BY <2>1, <2>2, <2>3, <2>4, WriteKeeps
<1>3. CASE UNCHANGED codevars
  BY <1>3 DEF codevars, CodeInd, RecordsKnown, DbHolds
<1> QED
  BY <1>1, <1>2, <1>3 DEF CodeNext, Metas

LEMMA CodeIndHolds == CodeSpec => []CodeInd
BY CodeInitInd, CodeNextInd, PTL DEF CodeSpec

\* Two records never share their bytes, and the decoders of decode.cpp give back
\* each record from its bytes, the number of a list item from its field included:
\* whatever the names, fields, versions and scores, for every width of a byte.
THEOREM EveryKeyDecodes == CodeSpec => []KeysDecode
<1>1. CodeInd => KeysDecode
  <2> SUFFICES ASSUME CodeInd PROVE KeysDecode
    OBVIOUS
  <2> USE DEF CodeInd
  <2>1. Cardinality(DOMAIN db) = Cardinality(recs)
    BY DEF DbHolds
  <2>2. \A r \in recs : r.key \in AllKeys /\ Decode(Encode(r.key)) = r.key /\ Encode(r.key)[1] = r.key.type
    BY DecodeEncodes DEF RecordsKnown
  <2>3. {r.key : r \in recs} = {Decode(b) : b \in DOMAIN db}
    <3>1. \A r \in recs : Encode(r.key) \in DOMAIN db
      BY DEF DbHolds
    <3>2. \A b \in DOMAIN db : \E r \in recs : b = Encode(r.key)
      BY DEF DbHolds
    <3> QED
      BY <2>2, <3>1, <3>2
  <2>4. ASSUME NEW b \in DOMAIN db, b[1] = Item, Len(Decode(b).field) = Digits64
        PROVE  DecodeListKey(b) = Decode(b)
    <3>1. PICK r \in recs : b = Encode(r.key)
      BY DEF DbHolds
    <3> DEFINE k == r.key
    <3>2. k \in AllKeys /\ Decode(b) = k /\ k.type = Item /\ b = Encode(k)
      BY <2>2, <2>4, <3>1
    <3> HIDE DEF k
    <3>3. Len(k.field) = Digits64
      BY <2>4, <3>2
    <3> QED
      BY <3>2, <3>3, DecodeListReads
  <2> QED
    BY <2>1, <2>3, <2>4 DEF KeysDecode
<1> QED
  BY <1>1, CodeIndHolds, PTL

\* The order in which RocksDB keeps the bytes is the order of the records that
\* the reaper, the iterators, ZRANGE and the expire thread count on: by type, the
\* records of a key and a version together, scores by value, times by time.
THEOREM BytesAreInOrder == CodeSpec => []ScanOrder
<1>1. CodeInd => ScanOrder
  BY BytesKeepOrder DEF CodeInd, RecordsKnown, ScanOrder
<1> QED
  BY <1>1, CodeIndHolds, PTL

\* A scan of the prefix of a key and a version meets the records of that version
\* of that key and no others, so that the reaper of a deleted version removes
\* nothing of another key or version.
THEOREM PrefixFindsAVersion == CodeSpec => []PrefixScan
<1>1. CodeInd => PrefixScan
  BY PrefixIsVersion DEF CodeInd, RecordsKnown, PrefixScan
<1> QED
  BY <1>1, CodeIndHolds, PTL

\* DecodeMetaVal gives each reader what EncodeMetaVal was given: the version of a
\* deleted key whatever its type, a refusal of another type, and otherwise the
\* value, or the length and the ends of a list.
THEOREM EveryMetaDecodes == CodeSpec => []MetaDecodes
<1>1. CodeInd => MetaDecodes
  <2> SUFFICES ASSUME CodeInd, NEW r \in recs, r.key.type = Meta, NEW kinds \in Readers
               PROVE  ReadsMeta(DecodeMetaVal(db[EncodeMetaKey(r.key.key)], kinds), r.val, kinds)
    BY DEF MetaDecodes
  <2>1. r.key \in AllKeys /\ r.val \in Plain \cup String \cup List /\ db[Encode(r.key)] = EncodeMetaVal(r.val)
    BY DEF CodeInd, RecordsKnown, DbHolds, Metas
  <2>2. Encode(r.key) = EncodeMetaKey(r.key.key)
    <3>1. Meta # EKey /\ Meta # EScore /\ Meta # Delete /\ Meta # Item /\ Meta # ZScore
      BY DEF Meta, EKey, EScore, Delete, Item, ZScore
    <3> QED
      BY <3>1 DEF Encode
  <2> QED
    BY <2>1, <2>2, MetaReads
<1> QED
  BY <1>1, CodeIndHolds, PTL

----------------------------------------------------------------------------
(* Dumps: lengths *)

LEMMA RdbWidths ==
    /\ Base \in Nat \ {0} /\ Base = 4 * Low /\ Low \in Nat \ {0} /\ Low >= 4
    /\ Bytes32 \in Nat \ {0, 1} /\ Bytes64 \in Nat \ {0}
    /\ \A f \in 1..3 : IntBytes[f] \in Nat \ {0}
    /\ MaxIntText \in Nat /\ LzfMin \in Nat
<1>1. Base \in Nat /\ Base % 4 = 0 /\ Base >= 16
  BY RdbAssumption
<1>2. Base = 4 * (Base \div 4) /\ Base \div 4 \in Nat /\ Base \div 4 >= 4
  BY <1>1
<1>3. /\ Bytes32 \in Nat \ {0, 1} /\ Bytes64 \in Nat /\ Bytes32 < Bytes64
      /\ IntBytes \in [1..3 -> Nat \ {0}]
      /\ MaxIntText \in Nat /\ LzfMin \in Nat
  BY RdbAssumption
<1>4. Bytes64 # 0
  BY <1>3
<1> QED
  BY <1>1, <1>2, <1>3, <1>4 DEF Low

\* What was written is read, and what follows is left.
LEMMA RioReads ==
    ASSUME NEW a \in Seq(Nat), NEW t \in Seq(Nat), NEW n, n = Len(a)
    PROVE  RioRead(a \o t, n) = Got(a, t)
<1> DEFINE s == a \o t
<1>1. SubSeq(s, 1, n) = a /\ Drop(s, n) = t
  BY SplitConcat
<1>2. Len(s) = n + Len(t) /\ n \in Nat /\ Len(t) \in Nat
  OBVIOUS
<1> HIDE DEF s
<1>3. ~(n > Len(s))
  BY <1>2
<1>4. SubSeq(s, n + 1, Len(s)) = t
  BY <1>1, Zenon DEF Drop
<1>5. RioRead(s, n) = Got(a, t)
  BY <1>1, <1>3, <1>4, Zenon DEF RioRead, Got
<1> QED
  BY <1>5 DEF s

\* A length as it is read, with what follows it
LenIs(n, t) == [ok |-> TRUE, enc |-> FALSE, val |-> n, rest |-> t]
EncIs(n, t) == [ok |-> TRUE, enc |-> TRUE, val |-> n, rest |-> t]

LEMMA FirstOf ==
    ASSUME NEW b \in Nat, NEW u \in Seq(Nat)
    PROVE  /\ <<b>> \o u \in Seq(Nat) /\ <<b>> \o u # <<>>
           /\ (<<b>> \o u)[1] = b /\ Tail(<<b>> \o u) = u /\ Len(<<b>> \o u) = Len(u) + 1
<1> DEFINE s == <<b>> \o u
<1>1. s \in Seq(Nat)
  OBVIOUS
<1>2. Tail(s) = u /\ s[1] = b /\ Len(s) = Len(u) + 1
  BY HeadAndTail
<1> HIDE DEF s
<1>3. Len(u) \in Nat
  OBVIOUS
<1>4. s # <<>>
  BY <1>1, <1>2, <1>3
<1> QED
  BY <1>1, <1>2, <1>4 DEF s

\* What rdbLoadLenByRef does for its first byte, and the rest
LEMMA LoadLenByte ==
    ASSUME NEW b \in Nat, NEW u \in Seq(Nat)
    PROVE  /\ b \div Low = 3 => RdbLoadLen(<<b>> \o u) = EncIs(b % Low, u)
           /\ b \div Low = 0 => RdbLoadLen(<<b>> \o u) = LenIs(b % Low, u)
<1> DEFINE s == <<b>> \o u
<1>1. s # <<>> /\ s[1] = b /\ Tail(s) = u
  BY FirstOf
<1> HIDE DEF s
<1>2. ASSUME b \div Low = 3 PROVE RdbLoadLen(s) = EncIs(b % Low, u)
  BY <1>1, <1>2 DEF RdbLoadLen, EncIs
<1>3. ASSUME b \div Low = 0 PROVE RdbLoadLen(s) = LenIs(b % Low, u)
  <2>1. ~(b \div Low = 3)
    BY <1>3
  <2> QED
    BY <1>1, <1>3, <2>1 DEF RdbLoadLen, LenIs
<1> QED
  BY <1>2, <1>3 DEF s

LEMMA LoadLenTwo ==
    ASSUME NEW b \in Nat, NEW c \in Nat, NEW t \in Seq(Nat), b \div Low = 1
    PROVE  RdbLoadLen(<<b>> \o (<<c>> \o t)) = LenIs((b % Low) * Base + c, t)
<1> DEFINE u == <<c>> \o t
           s == <<b>> \o u
           p == <<b>> \o <<c>>
<1>1. u \in Seq(Nat) /\ u[1] = c /\ Len(u) = Len(t) + 1
  BY FirstOf
<1> HIDE DEF u
<1>2. s \in Seq(Nat) /\ s # <<>> /\ s[1] = b /\ Tail(s) = u /\ Len(s) = Len(u) + 1
  BY <1>1, FirstOf
<1>3. s \in Seq(Nat) /\ Tail(s) = u /\ Len(s) = Len(u) + 1
  BY <1>2
<1>4. SubSeq(s, 3, Len(s)) = t
  <2>1. p \in Seq(Nat) /\ Len(p) = 2
    OBVIOUS
  <2>2. <<b>> \in Seq(Nat) /\ <<c>> \in Seq(Nat)
    OBVIOUS
  <2>3. s = p \o t
    BY <2>2, Associative, Zenon DEF Associates, u
  <2> HIDE DEF p, s
  <2>4. Drop(s, 2) = t
    BY <2>1, <2>3, SplitConcat
  <2>5. 2 + 1 = 3
    OBVIOUS
  <2> QED
    BY <2>4, <2>5, Zenon DEF Drop
<1> HIDE DEF s, p
<1>5. ~(Len(s) < 2) /\ s[2] = Tail(s)[1]
  BY <1>1, <1>3
<1>6. ~(b \div Low = 3) /\ ~(b \div Low = 0)
  OBVIOUS
<1>7. s[2] = c
  BY <1>1, <1>3, <1>5, Zenon
<1>8. RdbLoadLen(s) = LenIs((b % Low) * Base + c, t)
  BY <1>2, <1>4, <1>5, <1>6, <1>7 DEF RdbLoadLen, LenIs
<1> QED
  BY <1>8 DEF s, u

\* Division undoes a multiplication.
LEMMA DivIs ==
    ASSUME NEW b \in Nat \ {0}, NEW q \in Nat, NEW r \in 0..(b - 1), NEW n, n = q * b + r
    PROVE  n \in Nat /\ n \div b = q /\ n % b = r
<1>1. n \in Nat
  BY MulAdd
<1>2. n = (n \div b) * b + (n % b) /\ n % b \in 0..(b - 1) /\ n \div b \in Nat
  BY <1>1, DivMod
<1>3. r \in Nat /\ r < b /\ n % b \in Nat /\ n % b < b
  BY <1>2
<1>4. CarryRule(b, q, n \div b, r, n % b, q * b + r, (n \div b) * b + (n % b))
  BY <1>2, <1>3, Carry, Zenon
<1>5. CarryRule(b, q, n \div b, r, n % b, n, n)
  BY <1>2, <1>4, Zenon
<1> QED
  BY <1>1, <1>5, Zenon DEF CarryRule

LEMMA DivSmall ==
    ASSUME NEW b \in Nat \ {0}, NEW n \in Nat, n < b
    PROVE  n \div b = 0 /\ n % b = n
OBVIOUS

LEMMA LoadLenWide ==
    ASSUME NEW b \in {2 * Low, 2 * Low + 1}, NEW d \in Seq(Nat), NEW t \in Seq(Nat),
           Len(d) = IF b = 2 * Low THEN Bytes32 ELSE Bytes64
    PROVE  RdbLoadLen(<<b>> \o (d \o t)) = LenIs(FromBig(d), t)
<1> DEFINE u == d \o t
           s == <<b>> \o u
           k == IF b = 2 * Low THEN Bytes32 ELSE Bytes64
<1>1. u \in Seq(Nat) /\ b \in Nat /\ b \div Low = 2
  <2>1. PICK r \in 0..1 : b = 2 * Low + r
    <3>1. 2 * Low = 2 * Low + 0 /\ 0 \in 0..1 /\ 1 \in 0..1
      BY RdbWidths
    <3> QED
      BY <3>1
  <2>2. r \in 0..(Low - 1) /\ Low \in Nat \ {0} /\ 2 \in Nat
    BY RdbWidths
  <2>3. b \in Nat /\ b \div Low = 2
    BY <2>1, <2>2, DivIs
  <2> QED
    BY <2>3
<1>2. RioRead(u, k) = Got(d, t)
  BY RioReads
<1> HIDE DEF u, k
<1>3. s # <<>> /\ s[1] = b /\ Tail(s) = u
  BY <1>1, FirstOf
<1> HIDE DEF s
<1>4. ~(b \div Low = 3) /\ ~(b \div Low = 0) /\ ~(b \div Low = 1)
  BY <1>1
<1>5. Got(d, t).ok = TRUE /\ Got(d, t).val = d /\ Got(d, t).rest = t
  BY DEF Got
<1>6. RdbLoadLen(s) = LenIs(FromBig(d), t)
  BY <1>2, <1>3, <1>4, <1>5 DEF RdbLoadLen, LenIs, k
<1> QED
  BY <1>6 DEF s, u

\* rdbLoadLenByRef reads what rdbSaveLen wrote, in each of the four forms.
LEMMA LenReads ==
    ASSUME NEW n \in Nat, n < Power(Base, Bytes64), NEW t \in Seq(Nat)
    PROVE  /\ RdbSaveLen(n) \in Seq(Nat)
           /\ RdbLoadLen(RdbSaveLen(n) \o t) = LenIs(n, t)
<1> DEFINE e == RdbSaveLen(n)
<1>0. Base \in Nat \ {0} /\ Low \in Nat \ {0} /\ Bytes32 \in Nat /\ Bytes64 \in Nat
  BY RdbWidths
<1>1. CASE n < Low
  <2>1. RdbSaveLen(n) = <<n>>
    BY <1>1 DEF RdbSaveLen
  <2>3. n \div Low = 0 /\ n % Low = n
    BY <1>0, <1>1, DivSmall
  <2>4. RdbLoadLen(<<n>> \o t) = LenIs(n, t)
    BY <2>3, LoadLenByte
  <2>5. <<n>> \in Seq(Nat)
    OBVIOUS
  <2> QED
    BY <2>1, <2>4, <2>5, Zenon
<1>2. CASE ~(n < Low) /\ n < Low * Base
  <2> DEFINE q == n \div Base
             c == n % Base
             b == Low + q
  <2>1. RdbSaveLen(n) = <<b, c>>
    BY <1>2 DEF RdbSaveLen
  <2>2. n = q * Base + c /\ c \in 0..(Base - 1) /\ q \in Nat
    BY <1>0, DivMod
  <2>3. q < Low
    BY <1>0, <1>2, DivBound
  <2> HIDE DEF q, c
  <2>4. b = 1 * Low + q /\ q \in 0..(Low - 1)
    BY <1>0, <2>2, <2>3
  <2> HIDE DEF b
  <2>5. b \in Nat /\ b \div Low = 1 /\ b % Low = q
    <3>1. 1 \in Nat
      OBVIOUS
    <3> QED
      BY <1>0, <2>4, <3>1, DivIs
  <2>6. c \in Nat /\ (b % Low) * Base + c = n
    BY <2>2, <2>5
  <2>7. RdbLoadLen(<<b>> \o (<<c>> \o t)) = LenIs((b % Low) * Base + c, t)
    BY <2>5, <2>6, LoadLenTwo
  <2>8. <<b>> \in Seq(Nat) /\ <<c>> \in Seq(Nat) /\ <<b, c>> \in Seq(Nat) /\ <<b, c>> = <<b>> \o <<c>>
    BY <2>5, <2>6
  <2>9. <<b, c>> \o t = <<b>> \o (<<c>> \o t)
    <3> DEFINE p == <<b, c>>
               x == <<b>>
               y == <<c>>
    <3>1. x \in Seq(Nat) /\ y \in Seq(Nat) /\ p = x \o y
      BY <2>8
    <3> HIDE DEF p, x, y
    <3>2. Associates(x, y, t)
      BY <3>1, Associative
    <3>3. p \o t = x \o (y \o t)
      BY <3>1, <3>2 DEF Associates
    <3> QED
      BY <3>3 DEF p, x, y
  <2> QED
    BY <2>1, <2>6, <2>7, <2>8, <2>9, Zenon
<1>3. ASSUME NEW b \in {2 * Low, 2 * Low + 1}, NEW k \in Nat, k = IF b = 2 * Low THEN Bytes32 ELSE Bytes64,
             n < Power(Base, k), RdbSaveLen(n) = <<b>> \o BigEndian(n, k)
      PROVE  RdbSaveLen(n) \in Seq(Nat) /\ RdbLoadLen(RdbSaveLen(n) \o t) = LenIs(n, t)
  <2> DEFINE d == BigEndian(n, k)
  <2>1. d \in Seq(Nat) /\ Len(d) = k
    BY <1>0, <1>3, NumeralType DEF BigEndian
  <2>2. FromBig(d) = n
    BY <1>0, <1>3, ValueOfNumeral DEF BigEndian, FromBig
  <2>3. RdbSaveLen(n) = <<b>> \o d
    BY <1>3
  <2> HIDE DEF d
  <2>4. RdbLoadLen(<<b>> \o (d \o t)) = LenIs(FromBig(d), t)
    BY <1>3, <2>1, LoadLenWide
  <2>5. <<b>> \in Seq(Nat)
    BY <1>0
  <2>6. (<<b>> \o d) \o t = <<b>> \o (d \o t)
    BY <2>1, <2>5, Associative, Zenon DEF Associates
  <2>7. <<b>> \o d \in Seq(Nat)
    BY <2>1, <2>5
  <2> QED
    BY <2>2, <2>3, <2>4, <2>6, <2>7, Zenon
<1>4. CASE ~(n < Low) /\ ~(n < Low * Base) /\ n < Power(Base, Bytes32)
  <2>1. RdbSaveLen(n) = <<2 * Low>> \o BigEndian(n, Bytes32)
    BY <1>4 DEF RdbSaveLen
  <2> QED
    BY <1>0, <1>3, <1>4, <2>1
<1>5. CASE ~(n < Low) /\ ~(n < Low * Base) /\ ~(n < Power(Base, Bytes32))
  <2>1. RdbSaveLen(n) = <<2 * Low + 1>> \o BigEndian(n, Bytes64)
    BY <1>5 DEF RdbSaveLen
  <2>2. 2 * Low + 1 # 2 * Low
    BY <1>0
  <2> QED
    BY <1>0, <1>3, <2>1, <2>2
<1> QED
  BY <1>1, <1>2, <1>4, <1>5

----------------------------------------------------------------------------
(* Dumps: strings *)

LEMMA PowerType == ASSUME NEW b \in Nat \ {0}, NEW k \in Nat PROVE Power(b, k) \in Nat \ {0}
<1>1. PICK p : Powers(b, k, p) /\ Power(b, k) = p[k]
  BY PowersExist
<1>2. p \in [0..k -> Nat \ {0}] /\ k \in 0..k
  BY <1>1 DEF Powers
<1> QED
  BY <1>1, <1>2

LEMMA LittleReads ==
    ASSUME NEW k \in Nat, NEW n \in Nat, n < Power(Base, k)
    PROVE  /\ LittleEndian(n, k) \in Seq(Nat) /\ Len(LittleEndian(n, k)) = k
           /\ FromLittle(LittleEndian(n, k)) = n
<1> DEFINE d == BigEndian(n, k)
           l == LittleEndian(n, k)
           r == [i \in DOMAIN l |-> l[Len(l) + 1 - i]]
<1>1. d \in Seq(Nat) /\ Len(d) = k /\ FromBig(d) = n
  BY RdbWidths, NumeralType, ValueOfNumeral DEF BigEndian, FromBig
<1> HIDE DEF d
<1>2. l = [i \in 1..k |-> d[k + 1 - i]]
  BY DEF LittleEndian, d
<1> HIDE DEF l
<1>3. l \in Seq(Nat) /\ Len(l) = k /\ DOMAIN l = 1..k /\ \A i \in 1..k : l[i] = d[k + 1 - i]
  <2>1. \A i \in 1..k : k + 1 - i \in 1..k
    OBVIOUS
  <2>2. \A i \in 1..k : d[k + 1 - i] \in Nat
    BY <1>1, <2>1
  <2>3. l \in [1..k -> Nat]
    BY <1>2, <2>2
  <2> QED
    BY <1>2, <2>3
<1>4. r = d
  <2>1. r = [i \in 1..k |-> l[k + 1 - i]]
    BY <1>3
  <2>2. \A i \in 1..k : k + 1 - i \in 1..k /\ k + 1 - (k + 1 - i) = i
    OBVIOUS
  <2>3. \A i \in 1..k : l[k + 1 - i] = d[i]
    BY <1>3, <2>2
  <2>4. d = [i \in 1..k |-> d[i]]
    BY <1>1
  <2> HIDE DEF r
  <2> QED
    BY <2>1, <2>3, <2>4
<1>5. FromLittle(l) = FromBig(r)
  BY DEF FromLittle
<1> HIDE DEF r
<1>6. FromLittle(l) = n
  BY <1>1, <1>4, <1>5
<1> QED
  BY <1>3, <1>6 DEF l

LEMMA ModIs ==
    ASSUME NEW b \in Nat \ {0}, NEW n \in Int, 0 - b <= n, n < b
    PROVE  n % b = IF n < 0 THEN n + b ELSE n
OBVIOUS

\* A number cast to an unsigned one and back
LEMMA CastBack ==
    ASSUME NEW k \in Nat, NEW n \in Int, Holds(k, n)
    PROVE  LET P == Power(Base, k)
               u == n % P
           IN  u \in Nat /\ u < P /\ (IF u >= P \div 2 THEN u - P ELSE u) = n
<1> DEFINE P == Power(Base, k)
           h == P \div 2
<1>1. P \in Nat \ {0}
  BY RdbWidths, PowerType
<1>2. -h <= n /\ n <= h - 1
  BY DEF Holds
<1> HIDE DEF P
<1>3. h \in Nat /\ 2 * h <= P
  BY <1>1
<1> HIDE DEF h
<1>4. 0 - P <= n /\ n < P
  BY <1>1, <1>2, <1>3
<1>5. n % P = IF n < 0 THEN n + P ELSE n
  BY <1>1, <1>4, ModIs
<1>6. n % P \in Nat /\ n % P < P /\ (IF n % P >= h THEN (n % P) - P ELSE n % P) = n
  BY <1>1, <1>2, <1>3, <1>5
<1> QED
  BY <1>6 DEF P, h

\* The number that a text is of
LEMMA IntOfType == ASSUME NEW s \in Seq(Nat) PROVE IntOf(s) \in Int
<1> DEFINE k == Len(s)
           f == [x \in Nat \X Int |->
                   IF x[1] \notin 1..k THEN 0
                   ELSE IF s[x[1]] = 3 THEN x[2] ELSE 2 * x[2] + s[x[1]] - 1]
           E(v) == v = [i \in 0..k |-> IF i = 0 THEN 0
                                       ELSE IF s[i] = 3 THEN v[i - 1] ELSE 2 * v[i - 1] + s[i] - 1]
           v == CHOOSE g : E(g)
<1>1. k \in Nat /\ \A i \in 1..k : s[i] \in Nat
  OBVIOUS
<1>2. IntOf(s) = IF s # <<>> /\ s[1] = 3 THEN -v[k] ELSE v[k]
  BY DEF IntOf
<1> HIDE DEF k
<1>3. \E g : E(g)
  <2>1. f \in [Nat \X Int -> Int]
    <3>1. ASSUME NEW x \in Nat \X Int PROVE f[x] \in Int
      <4>1. x[1] \in Nat /\ x[2] \in Int
        OBVIOUS
      <4>2. x[1] \in 1..k => s[x[1]] \in Nat
        BY <1>1
      <4> QED
        BY <4>1, <4>2
    <3> QED
      BY <3>1
  <2>2. PICK g \in [0..k -> Int] : Unfolds(g, k, 0, f)
    <3>1. 0 \in Int
      OBVIOUS
    <3> QED
      BY <1>1, <2>1, <3>1, Recursion
  <2>3. ASSUME NEW i \in 0..k, i # 0
        PROVE  f[<<i, g[i - 1]>>] = IF s[i] = 3 THEN g[i - 1] ELSE 2 * g[i - 1] + s[i] - 1
    <3>1. i \in 1..k /\ g[i - 1] \in Int /\ i \in Nat
      BY <1>1, <2>3
    <3> QED
      BY <3>1
  <2> HIDE DEF f
  <2>4. E(g)
    BY <2>2, <2>3 DEF Unfolds
  <2> HIDE DEF E
  <2> QED
    BY <2>4

<1>4. E(v)
  BY <1>3
<1> HIDE DEF v, f
<1>5. \A i \in 0..k : v[i] = IF i = 0 THEN 0
                             ELSE IF s[i] = 3 THEN v[i - 1] ELSE 2 * v[i - 1] + s[i] - 1
  BY <1>4
<1> HIDE DEF E
<1> DEFINE P == {i \in Nat : i <= k => v[i] \in Int}
<1>6. 0 \in P
  <2>1. 0 \in 0..k
    BY <1>1
  <2>2. v[0] = 0
    BY <1>5, <2>1
  <2> QED
    BY <2>2
<1>7. ASSUME NEW i \in Nat, i \in P PROVE i + 1 \in P
  <2> SUFFICES ASSUME i + 1 <= k PROVE v[i + 1] \in Int
    OBVIOUS
  <2>1. i + 1 \in 0..k /\ i + 1 \in 1..k /\ i + 1 # 0 /\ (i + 1) - 1 = i
    BY <1>1
  <2>2. v[i] \in Int /\ s[i + 1] \in Nat
    BY <1>1, <1>7, <2>1
  <2>3. v[i + 1] = IF s[i + 1] = 3 THEN v[i] ELSE 2 * v[i] + s[i + 1] - 1
    BY <1>5, <2>1
  <2> QED
    BY <2>2, <2>3, SMTT(30)
<1> HIDE DEF P
<1>8. k \in P
  BY <1>1, <1>6, <1>7, NatSetInduction
<1>9. v[k] \in Int
  BY <1>1, <1>8 DEF P
<1> QED
  BY <1>2, <1>9


\* What has a length that 64 bits hold, as bytes
Sized(s) == s \in Seq(Nat) /\ Len(s) < Power(Base, Bytes64)
\* e is read as s, whatever follows.
ReadsAs(e, s) == e \in Seq(Nat) /\ \A t \in Seq(Nat) : RdbGenericLoadStringObject(e \o t) = Got(s, t)

AssociatesFour(a, b, c, d, t) == (((a \o b) \o c) \o d) \o t = a \o (b \o (c \o (d \o t)))

LEMMA AssocFour ==
    ASSUME NEW a \in Seq(Nat), NEW b \in Seq(Nat), NEW c \in Seq(Nat), NEW d \in Seq(Nat), NEW t \in Seq(Nat)
    PROVE  AssociatesFour(a, b, c, d, t)
<1>1. a \o b \in Seq(Nat) /\ (a \o b) \o c \in Seq(Nat) /\ d \o t \in Seq(Nat) /\ c \o (d \o t) \in Seq(Nat)
  OBVIOUS
<1>2. Associates((a \o b) \o c, d, t) /\ Associates(a \o b, c, d \o t) /\ Associates(a, b, c \o (d \o t))
  BY <1>1, Associative
<1> QED
  BY <1>2, Zenon DEF Associates, AssociatesFour

LEMMA RawReads ==
    ASSUME NEW s, Sized(s)
    PROVE  ReadsAs(SaveRawString(s), s)
<1> DEFINE l == RdbSaveLen(Len(s))
           e == SaveRawString(s)
<1>0. s \in Seq(Nat) /\ Len(s) \in Nat /\ Len(s) < Power(Base, Bytes64)
  BY DEF Sized
<1>1. e = l \o s
  BY DEF SaveRawString
<1>2. <<>> \in Seq(Nat)
  OBVIOUS
<1>3. l \in Seq(Nat)
  BY <1>0, <1>2, LenReads
<1>4. ASSUME NEW t \in Seq(Nat) PROVE RdbGenericLoadStringObject(e \o t) = Got(s, t)
  <2> DEFINE u == s \o t
  <2>1. u \in Seq(Nat)
    BY <1>0
  <2>2. RioRead(u, Len(s)) = Got(s, t)
    BY <1>0, RioReads
  <2> HIDE DEF u
  <2>3. RdbLoadLen(l \o u) = LenIs(Len(s), u)
    BY <1>0, <2>1, LenReads
  <2> HIDE DEF l, e
  <2>4. e \o t = l \o u
    BY <1>0, <1>1, <1>3, Associative, Zenon DEF Associates, u
  <2>5. RdbLoadLen(e \o t) = LenIs(Len(s), u)
    BY <2>3, <2>4, Zenon
  <2> DEFINE r == RdbLoadLen(e \o t)
  <2>6. r.ok = TRUE /\ r.enc = FALSE /\ r.val = Len(s) /\ r.rest = u
    BY <2>5 DEF LenIs
  <2>7. RdbGenericLoadStringObject(e \o t) = RioRead(r.rest, r.val)
    BY <2>6 DEF RdbGenericLoadStringObject
  <2> HIDE DEF r
  <2> QED
    BY <2>2, <2>6, <2>7, Zenon
<1>5. e \in Seq(Nat)
  <2> HIDE DEF l
  <2> QED
    BY <1>0, <1>1, <1>3
<1> QED
  BY <1>4, <1>5 DEF ReadsAs

\* The first byte of what is not a length
LEMMA LoadEncval ==
    ASSUME NEW f \in 0..3, NEW u \in Seq(Nat)
    PROVE  Encval(f) \in Nat /\ RdbLoadLen(<<Encval(f)>> \o u) = EncIs(f, u)
<1> DEFINE b == Encval(f)
           q == 3
<1>1. b = q * Low + f /\ f \in 0..(Low - 1) /\ Low \in Nat \ {0} /\ q \in Nat
  BY RdbWidths DEF Encval
<1> HIDE DEF b, q
<1>4. b \in Nat /\ b \div Low = q /\ b % Low = f
  BY <1>1, DivIs
<1>2. b \in Nat /\ b \div Low = 3 /\ b % Low = f
  BY <1>4 DEF q
<1>3. RdbLoadLen(<<b>> \o u) = EncIs(f, u)
  BY <1>2, LoadLenByte
<1> QED
  BY <1>2, <1>3 DEF b

LEMMA IntReads ==
    ASSUME NEW s \in Seq(Nat), RdbTryIntegerEncoding(s) # <<>>
    PROVE  ReadsAs(RdbTryIntegerEncoding(s), s)
<1> DEFINE n == IntOf(s)
           forms == {f \in 1..3 : Holds(IntBytes[f], n)}
           form == CHOOSE f \in forms : \A g \in forms : f <= g
           k == IntBytes[form]
           P == Power(Base, k)
           l == LittleEndian(n % P, k)
           e == RdbTryIntegerEncoding(s)
<1>1. e = RdbEncodeInteger(n) /\ e # <<>> /\ TextOf(n) = s
  BY Zenon DEF RdbTryIntegerEncoding, IsInt
<1>2. n \in Int
  BY IntOfType
<1> HIDE DEF n
<1>3. forms # {} /\ e = <<Encval(form - 1)>> \o l
  BY <1>1, Zenon DEF RdbEncodeInteger
<1>4. form \in forms
  <2>1. \E f \in forms : \A g \in forms : f <= g
    <3>1. forms \subseteq 1..3
      OBVIOUS
    <3> HIDE DEF forms
    <3>2. CASE 1 \in forms
      BY <3>1, <3>2
    <3>3. CASE 1 \notin forms /\ 2 \in forms
      BY <3>1, <3>3
    <3>4. CASE 1 \notin forms /\ 2 \notin forms
      <4>1. PICK f \in forms : TRUE
        BY <1>3, Zenon
      <4>2. \A g \in forms : g = 3
        BY <3>1, <3>4
      <4>3. f = 3 /\ f <= 3
        BY <4>2
      <4> QED
        BY <4>1, <4>2, <4>3
    <3> QED
      BY <3>2, <3>3, <3>4
  <2> HIDE DEF forms
  <2> QED
    BY <2>1
<1>5. form \in 1..3 /\ Holds(k, n)
  BY <1>4
<1> HIDE DEF forms, form
<1>6. k \in Nat
  BY <1>5, RdbWidths
<1>7. n % P \in Nat /\ n % P < P /\ (IF n % P >= P \div 2 THEN (n % P) - P ELSE n % P) = n
  BY <1>2, <1>5, <1>6, CastBack
<1>8. l \in Seq(Nat) /\ Len(l) = k /\ FromLittle(l) = n % P
  BY <1>6, <1>7, LittleReads
<1> HIDE DEF l, e
<1> DEFINE g == form - 1
<1>9. g \in 0..3 /\ g \in 0..2 /\ g # Lzf /\ IntBytes[g + 1] = k
  BY <1>5 DEF Lzf
<1> HIDE DEF g, k, P
<1>10. <<Encval(g)>> \in Seq(Nat) /\ e = <<Encval(g)>> \o l
  BY <1>3, <1>8, <1>9, LoadEncval DEF g
<1>11. ASSUME NEW t \in Seq(Nat) PROVE RdbGenericLoadStringObject(e \o t) = Got(s, t)
  <2> DEFINE u == l \o t
             r == RdbLoadLen(e \o t)
             x == RioRead(u, k)
  <2>1. u \in Seq(Nat) /\ x = Got(l, t)
    BY <1>8, RioReads
  <2>2. e \o t = <<Encval(g)>> \o u
    BY <1>8, <1>10, Associative, Zenon DEF Associates
  <2> HIDE DEF u
  <2>3. RdbLoadLen(<<Encval(g)>> \o u) = EncIs(g, u)
    BY <1>9, <2>1, LoadEncval
  <2>4. r = EncIs(g, u)
    BY <2>2, <2>3, Zenon
  <2> HIDE DEF r
  <2>5. r.ok = TRUE /\ r.enc = TRUE /\ r.val = g /\ r.rest = u
    BY <2>4 DEF EncIs
  <2>6. RdbGenericLoadStringObject(e \o t) = RdbLoadIntegerObject(g, u)
    BY <1>9, <2>5 DEF RdbGenericLoadStringObject, r
  <2> HIDE DEF x
  <2>7. x.ok = TRUE /\ x.val = l /\ x.rest = t
    BY <2>1 DEF Got
  <2>8. RdbLoadIntegerObject(g, u)
        = Got(TextOf(IF FromLittle(x.val) >= P \div 2 THEN FromLittle(x.val) - P ELSE FromLittle(x.val)), x.rest)
    BY <1>9, <2>7, Zenon DEF RdbLoadIntegerObject, x, P
  <2> QED
    BY <1>1, <1>7, <1>8, <2>6, <2>7, <2>8, Zenon
<1>12. e \in Seq(Nat)
  BY <1>8, <1>10
<1> QED
  BY <1>11, <1>12 DEF ReadsAs, e


LEMMA LzfReads ==
    ASSUME NEW s, Sized(s), RdbSaveLzfString(s) # <<>>
    PROVE  ReadsAs(RdbSaveLzfString(s), s)
<1> DEFINE c == <<s[1]>>
           b == <<Encval(Lzf)>>
           l == RdbSaveLen(Len(c))
           m == RdbSaveLen(Len(s))
           e == RdbSaveLzfString(s)
<1>0. s \in Seq(Nat) /\ Len(s) \in Nat /\ Len(s) < Power(Base, Bytes64)
  BY DEF Sized
<1>1. LzfCompress(s) # <<>>
  BY Zenon DEF RdbSaveLzfString
<1>2. Len(s) > 4 /\ (\A i \in DOMAIN s : s[i] = s[1]) /\ LzfCompress(s) = c
  BY <1>1, Zenon DEF LzfCompress
<1>3. e = ((b \o l) \o m) \o c
  BY <1>1, <1>2, Zenon DEF RdbSaveLzfString
<1>4. s[1] \in Nat /\ c \in Seq(Nat) /\ Len(c) = 1
  BY <1>0, <1>2
<1>5. Len(c) \in Nat /\ Len(c) < Power(Base, Bytes64)
  <2>1. Power(Base, Bytes64) \in Nat
    BY PowerType, RdbWidths
  <2>2. Len(s) > 4
    BY <1>2
  <2>3. Len(c) = 1
    BY <1>4
  <2> HIDE DEF c
  <2> QED
    BY <1>0, <2>1, <2>2, <2>3
<1>10. Lzf \in 0..3 /\ <<>> \in Seq(Nat)
  BY DEF Lzf
<1>6. b \in Seq(Nat)
  <2>1. Encval(Lzf) \in Nat
    BY <1>10, LoadEncval, Zenon
  <2> QED
    BY <2>1
<1>7. l \in Seq(Nat) /\ m \in Seq(Nat)
  BY <1>0, <1>5, <1>10, LenReads, Zenon
<1> HIDE DEF c, e
<1>8. ASSUME NEW t \in Seq(Nat) PROVE RdbGenericLoadStringObject(e \o t) = Got(s, t)
  <2> DEFINE w == c \o t
             v == m \o w
             u == l \o v
             r == RdbLoadLen(e \o t)
             cl == RdbLoadLen(u)
             ln == RdbLoadLen(v)
             x == RioRead(w, Len(c))
  <2>1. w \in Seq(Nat) /\ x = Got(c, t)
    <3>1. Len(c) = Len(c)
      OBVIOUS
    <3>2. w \in Seq(Nat)
      BY <1>4
    <3> QED
      BY <1>4, <3>1, <3>2, RioReads, Zenon
  <2> HIDE DEF w, x
  <2>2. ln = LenIs(Len(s), w)
    BY <1>0, <2>1, LenReads
  <2>3. v \in Seq(Nat)
    BY <1>7, <2>1
  <2> HIDE DEF v, ln
  <2>4. cl = LenIs(Len(c), v)
    BY <1>5, <2>3, LenReads
  <2>5. u \in Seq(Nat)
    BY <1>7, <2>3
  <2> HIDE DEF u, cl
  <2>6. RdbLoadLen(b \o u) = EncIs(Lzf, u)
    BY <1>10, <2>5, LoadEncval, Zenon
  <2>7. e \o t = b \o u
    <3> HIDE DEF b, l, m, c, e
    <3>1. AssociatesFour(b, l, m, c, t)
      BY <1>4, <1>6, <1>7, AssocFour
    <3> QED
      BY <1>3, <3>1, Zenon DEF AssociatesFour, u, v, w
  <2>8. r = EncIs(Lzf, u)
    BY <2>6, <2>7, Zenon
  <2> HIDE DEF r
  <2>9. r.ok = TRUE /\ r.enc = TRUE /\ r.val = Lzf /\ r.rest = u
    BY <2>8 DEF EncIs
  <2>10. cl.ok = TRUE /\ cl.val = Len(c) /\ cl.rest = v
    BY <2>4 DEF LenIs
  <2>11. ln.ok = TRUE /\ ln.val = Len(s) /\ ln.rest = w
    BY <2>2 DEF LenIs
  <2>12. x.ok = TRUE /\ x.val = c /\ x.rest = t
    BY <2>1 DEF Got
  <2>13. RdbGenericLoadStringObject(e \o t) = RdbLoadLzfStringObject(u)
    BY <2>9, Zenon DEF RdbGenericLoadStringObject, r
  <2>14. RdbLoadLzfStringObject(u) = Got(LzfDecompress(c, Len(s)), t)
    <3> HIDE DEF c
    <3>1. RdbLoadLen(u) = cl /\ RdbLoadLen(cl.rest) = ln
      BY <2>10 DEF cl, ln
    <3>2. RioRead(ln.rest, cl.val) = x
      BY <2>10, <2>11 DEF x
    <3> QED
      BY <2>10, <2>11, <2>12, <3>1, <3>2, Zenon DEF RdbLoadLzfStringObject
  <2>15. LzfDecompress(c, Len(s)) = s
    <3>1. c[1] = s[1] /\ DOMAIN s = 1..Len(s)
      BY <1>0 DEF c
    <3>2. s = [i \in 1..Len(s) |-> s[i]] /\ \A i \in 1..Len(s) : s[i] = s[1]
      BY <1>0, <1>2
    <3> HIDE DEF c
    <3> QED
      BY <3>1, <3>2 DEF LzfDecompress
  <2> QED
    BY <2>13, <2>14, <2>15, Zenon
<1>9. e \in Seq(Nat)
  <2> HIDE DEF b, l, m, c, e
  <2> QED
    BY <1>3, <1>4, <1>6, <1>7
<1> QED
  BY <1>8, <1>9 DEF ReadsAs, e

\* rdbGenericLoadStringObject reads what rdbSaveRawString wrote, as an integer,
\* compressed or as it is.
LEMMA StringReads ==
    ASSUME NEW s, Sized(s), NEW compress
    PROVE  ReadsAs(RdbSaveRawString(s, compress), s)
<1> DEFINE int == IF Len(s) <= MaxIntText THEN RdbTryIntegerEncoding(s) ELSE <<>>
           lzf == IF compress /\ Len(s) > LzfMin THEN RdbSaveLzfString(s) ELSE <<>>
           e == RdbSaveRawString(s, compress)
<1>0. s \in Seq(Nat)
  BY DEF Sized
<1>1. e = IF int # <<>> THEN int ELSE IF lzf # <<>> THEN lzf ELSE SaveRawString(s)
  BY Zenon DEF RdbSaveRawString
<1>2. CASE int # <<>>
  <2>1. int = RdbTryIntegerEncoding(s) /\ RdbTryIntegerEncoding(s) # <<>>
    BY <1>2, Zenon
  <2>2. e = RdbTryIntegerEncoding(s)
    BY <1>1, <1>2, <2>1, Zenon
  <2> QED
    BY <1>0, <2>1, <2>2, IntReads, Zenon
<1>3. CASE ~(int # <<>>) /\ lzf # <<>>
  <2>1. lzf = RdbSaveLzfString(s) /\ RdbSaveLzfString(s) # <<>>
    BY <1>3, Zenon
  <2>2. e = RdbSaveLzfString(s)
    BY <1>1, <1>3, <2>1, Zenon
  <2> QED
    BY <2>1, <2>2, LzfReads, Zenon
<1>4. CASE ~(int # <<>>) /\ ~(lzf # <<>>)
  <2>1. e = SaveRawString(s)
    BY <1>1, <1>4, Zenon
  <2> QED
    BY <2>1, RawReads, Zenon
<1> QED
  BY <1>2, <1>3, <1>4, Zenon


----------------------------------------------------------------------------
(* Dumps: elements, and one after the other *)

\* What an element of a type may be
IsElement(type, e) ==
    \/ type \in {"string", "list", "set"} /\ Sized(e)
    \/ type = "hash" /\ e = <<e[1], e[2]>> /\ Sized(e[1]) /\ Sized(e[2])
    \/ type = "zset" /\ e = <<e[1], e[2]>> /\ Sized(e[1]) /\ e[2] \in Nat /\ e[2] < Power(Base, Bytes64)

ElementIs(type, b, e) == b \in Seq(Nat) /\ \A t \in Seq(Nat) : LoadElement(type, b \o t) = Got(e, t)

LEMMA DoubleReads ==
    ASSUME NEW d \in Nat, d < Power(Base, Bytes64), NEW t \in Seq(Nat)
    PROVE  /\ RdbSaveBinaryDoubleValue(d) \in Seq(Nat)
           /\ RdbLoadBinaryDoubleValue(RdbSaveBinaryDoubleValue(d) \o t) = Got(d, t)
<1> DEFINE l == RdbSaveBinaryDoubleValue(d)
           r == RioRead(l \o t, Bytes64)
<1>1. Bytes64 \in Nat
  BY RdbWidths
<1>2. l \in Seq(Nat) /\ Len(l) = Bytes64 /\ FromLittle(l) = d
  BY <1>1, LittleReads DEF RdbSaveBinaryDoubleValue
<1> HIDE DEF l
<1>3. r = Got(l, t)
  BY <1>2, RioReads
<1> HIDE DEF r
<1>4. r.ok = TRUE /\ r.val = l /\ r.rest = t
  BY <1>3 DEF Got
<1>5. RdbLoadBinaryDoubleValue(l \o t) = Got(FromLittle(r.val), r.rest)
  BY <1>4, Zenon DEF RdbLoadBinaryDoubleValue, r
<1>6. RdbLoadBinaryDoubleValue(l \o t) = Got(d, t)
  BY <1>2, <1>4, <1>5, Zenon
<1> QED
  BY <1>2, <1>6 DEF l

\* The lambdas of restore read what rdbSaveObject wrote of an element.
LEMMA ElementReads ==
    ASSUME NEW type, NEW e, NEW compress, IsElement(type, e)
    PROVE  ElementIs(type, SaveElement(type, e, compress), e)
<1> DEFINE b == SaveElement(type, e, compress)
<1>1. CASE type \in {"string", "list", "set"} /\ Sized(e)
  <2>1. ReadsAs(b, e)
    <3>1. CASE type \in {"string", "list"}
      <4>1. b = RdbSaveRawString(e, compress)
        BY <3>1 DEF SaveElement
      <4> QED
        BY <1>1, <4>1, StringReads, Zenon
    <3>2. CASE type = "set"
      <4>1. b = SaveRawString(e)
        BY <3>2 DEF SaveElement
      <4> QED
        BY <1>1, <4>1, RawReads, Zenon
    <3> QED
      BY <1>1, <3>1, <3>2
  <2> HIDE DEF b
  <2>2. ASSUME NEW t \in Seq(Nat) PROVE LoadElement(type, b \o t) = Got(e, t)
    <3> DEFINE one == RdbGenericLoadStringObject(b \o t)
    <3>1. one = Got(e, t)
      BY <2>1 DEF ReadsAs
    <3> HIDE DEF one
    <3>2. one.ok = TRUE
      BY <3>1 DEF Got
    <3>3. LoadElement(type, b \o t) = one
      BY <1>1, <3>2, Zenon DEF LoadElement, one
    <3> QED
      BY <3>1, <3>3
  <2>3. b \in Seq(Nat)
    BY <2>1 DEF ReadsAs
  <2> QED
    BY <2>2, <2>3 DEF ElementIs, b
<1>2. ASSUME NEW x, NEW y, e = <<e[1], e[2]>>, type \in {"hash", "zset"},
             b = x \o y, ReadsAs(x, e[1]), y \in Seq(Nat),
             \A t \in Seq(Nat) :
                (IF type = "hash" THEN RdbGenericLoadStringObject(y \o t) ELSE RdbLoadBinaryDoubleValue(y \o t))
                = Got(e[2], t)
      PROVE  ElementIs(type, b, e)
  <2>0. x \in Seq(Nat) /\ type \notin {"string", "list", "set"}
    BY <1>2 DEF ReadsAs
  <2> HIDE DEF b
  <2>1. b \in Seq(Nat)
    BY <1>2, <2>0
  <2>2. ASSUME NEW t \in Seq(Nat) PROVE LoadElement(type, b \o t) = Got(e, t)
    <3> DEFINE u == y \o t
               one == RdbGenericLoadStringObject(b \o t)
               two == IF type = "hash" THEN RdbGenericLoadStringObject(one.rest)
                      ELSE RdbLoadBinaryDoubleValue(one.rest)
    <3>1. u \in Seq(Nat)
      BY <1>2
    <3>2. b \o t = x \o u
      BY <1>2, <2>0, Associative, Zenon DEF Associates
    <3> HIDE DEF u
    <3>3. one = Got(e[1], u)
      BY <1>2, <3>1, <3>2, Zenon DEF ReadsAs
    <3> HIDE DEF one
    <3>4. one.ok = TRUE /\ one.val = e[1] /\ one.rest = u
      BY <3>3 DEF Got
    <3>5. two = Got(e[2], t)
      BY <1>2, <3>4, Zenon DEF u
    <3> HIDE DEF two
    <3>6. two.ok = TRUE /\ two.val = e[2] /\ two.rest = t
      BY <3>5 DEF Got
    <3>7. LoadElement(type, b \o t) = Got(<<one.val, two.val>>, two.rest)
      BY <2>0, <3>4, <3>6, Zenon DEF LoadElement, one, two
    <3>8. LoadElement(type, b \o t) = Got(<<e[1], e[2]>>, t)
      BY <3>4, <3>6, <3>7, Zenon
    <3> QED
      BY <1>2, <3>8, Zenon
  <2> QED
    BY <2>1, <2>2 DEF ElementIs
<1>3. CASE type = "hash" /\ e = <<e[1], e[2]>> /\ Sized(e[1]) /\ Sized(e[2])
  <2> DEFINE x == SaveRawString(e[1])
             y == SaveRawString(e[2])
  <2>1. b = x \o y
    BY <1>3 DEF SaveElement
  <2>2. ReadsAs(x, e[1]) /\ ReadsAs(y, e[2])
    BY <1>3, RawReads
  <2> HIDE DEF b, x, y
  <2>3. y \in Seq(Nat) /\ \A t \in Seq(Nat) : RdbGenericLoadStringObject(y \o t) = Got(e[2], t)
    BY <2>2 DEF ReadsAs
  <2>4. ElementIs(type, b, e)
    BY <1>2, <1>3, <2>1, <2>2, <2>3
  <2> QED
    BY <2>4 DEF b
<1>4. CASE type = "zset" /\ e = <<e[1], e[2]>> /\ Sized(e[1]) /\ e[2] \in Nat /\ e[2] < Power(Base, Bytes64)
  <2> DEFINE x == SaveRawString(e[1])
             y == RdbSaveBinaryDoubleValue(e[2])
  <2>1. b = x \o y
    BY <1>4 DEF SaveElement
  <2>2. ReadsAs(x, e[1])
    BY <1>4, RawReads
  <2>3. \A t \in Seq(Nat) : y \in Seq(Nat) /\ RdbLoadBinaryDoubleValue(y \o t) = Got(e[2], t)
    BY <1>4, DoubleReads
  <2> HIDE DEF b, x, y
  <2>4. <<>> \in Seq(Nat)
    OBVIOUS
  <2>5. y \in Seq(Nat)
    BY <2>3, <2>4, Zenon
  <2>6. ElementIs(type, b, e)
    BY <1>2, <1>4, <2>1, <2>2, <2>3, <2>5
  <2> QED
    BY <2>6 DEF b
<1> QED
  BY <1>1, <1>3, <1>4 DEF IsElement


\* The bytes of the elements from each of them on
Rests(type, es, compress, r) ==
    /\ r \in [0..Len(es) -> Seq(Nat)] /\ Len(r[Len(es)]) = 0
    /\ \A i \in 1..Len(es) : r[i - 1] = SaveElement(type, es[i], compress) \o r[i]
\* The bytes of c and the elements up to each of them
Uptos(type, es, compress, c, u) ==
    /\ u \in [0..Len(es) -> Seq(Nat)] /\ u[0] = c
    /\ \A i \in 1..Len(es) : u[i] = u[i - 1] \o SaveElement(type, es[i], compress)
AreElements(type, es) == \A i \in 1..Len(es) : IsElement(type, es[i])

LEMMA SavedType ==
    ASSUME NEW type, NEW e, NEW compress, IsElement(type, e)
    PROVE  SaveElement(type, e, compress) \in Seq(Nat)
BY ElementReads DEF ElementIs

LEMMA Joins == ASSUME NEW s \in Seq(Nat), NEW t \in Seq(Nat) PROVE s \o t \in Seq(Nat)
OBVIOUS

LEMMA RestsExist ==
    ASSUME NEW type, NEW compress, NEW S, NEW es \in Seq(S), AreElements(type, es)
    PROVE  \E r : Rests(type, es, compress, r)
<1> DEFINE k == Len(es)
           B == [i \in 1..k |-> SaveElement(type, es[i], compress)]
           f == [x \in Nat \X Seq(Nat) |-> IF k - x[1] + 1 \in 1..k THEN B[k - x[1] + 1] \o x[2] ELSE x[2]]
<1>1. k \in Nat
  OBVIOUS
<1>2. \A i \in 1..k : B[i] = SaveElement(type, es[i], compress) /\ B[i] \in Seq(Nat)
  BY SavedType DEF AreElements
<1> HIDE DEF k, B
<1>3. f \in [Nat \X Seq(Nat) -> Seq(Nat)]
  <2>1. ASSUME NEW x \in Nat \X Seq(Nat) PROVE f[x] \in Seq(Nat)
    <3>1. x[1] \in Nat /\ x[2] \in Seq(Nat)
      OBVIOUS
    <3>2. CASE k - x[1] + 1 \in 1..k
      <4>1. B[k - x[1] + 1] \in Seq(Nat)
        BY <1>2, <3>2, Zenon
      <4>2. B[k - x[1] + 1] \o x[2] \in Seq(Nat)
        BY <3>1, <4>1, Joins, Zenon
      <4> QED
        BY <3>2, <4>2
    <3>3. CASE k - x[1] + 1 \notin 1..k
      BY <3>1, <3>3
    <3> QED
      BY <3>2, <3>3
  <2> QED
    BY <2>1
<1>4. PICK g \in [0..k -> Seq(Nat)] : Unfolds(g, k, <<>>, f)
  <2>1. <<>> \in Seq(Nat)
    OBVIOUS
  <2> HIDE DEF f
  <2> QED
    BY <1>1, <1>3, <2>1, Recursion
<1>5. Len(g[0]) = 0
  <2>1. g[0] = <<>>
    BY <1>1, <1>4 DEF Unfolds
  <2> QED
    BY <2>1
<1>6. ASSUME NEW j \in 1..k PROVE g[j] = B[k - j + 1] \o g[j - 1]
  <2>1. j \in 0..k /\ j # 0 /\ j \in Nat /\ j - 1 \in 0..k /\ k - j + 1 \in 1..k
    BY <1>1
  <2>2. g[j - 1] \in Seq(Nat)
    BY <1>4, <2>1
  <2>3. f[<<j, g[j - 1]>>] = B[k - j + 1] \o g[j - 1]
    BY <2>1, <2>2
  <2>4. g[j] = f[<<j, g[j - 1]>>]
    <3> HIDE DEF f
    <3> QED
      BY <1>4, <2>1 DEF Unfolds
  <2> QED
    BY <2>3, <2>4
<1> DEFINE r == [i \in 0..k |-> g[k - i]]
<1>7. r \in [0..k -> Seq(Nat)]
  <2>1. \A i \in 0..k : k - i \in 0..k
    BY <1>1
  <2> QED
    BY <1>4, <2>1
<1>8. \A i \in 0..k : r[i] = g[k - i]
  OBVIOUS
<1> HIDE DEF r
<1>9. Len(r[k]) = 0
  <2>1. k - k = 0 /\ k \in 0..k
    BY <1>1
  <2>2. r[k] = g[0]
    BY <1>8, <2>1
  <2> QED
    BY <1>5, <2>2, Zenon
<1>10. ASSUME NEW i \in 1..k PROVE r[i - 1] = SaveElement(type, es[i], compress) \o r[i]
  <2>1. i \in 0..k /\ i - 1 \in 0..k /\ k - (i - 1) \in 1..k /\ k - (k - (i - 1)) + 1 = i
        /\ (k - (i - 1)) - 1 = k - i
    BY <1>1
  <2>2. g[k - (i - 1)] = B[k - (k - (i - 1)) + 1] \o g[(k - (i - 1)) - 1]
    BY <1>6, <2>1, Zenon
  <2>3. r[i - 1] = g[k - (i - 1)] /\ r[i] = g[k - i]
    BY <1>8, <2>1, Zenon
  <2>4. r[i - 1] = B[i] \o r[i]
    BY <2>1, <2>2, <2>3, Zenon
  <2>5. B[i] = SaveElement(type, es[i], compress)
    BY <1>2
  <2> QED
    BY <2>4, <2>5, Zenon
<1>11. Rests(type, es, compress, r)
  BY <1>7, <1>9, <1>10 DEF Rests, k
<1> QED
  BY <1>11


\* What rdbSaveObject writes before the elements
CountOf(type, n) == IF type = "string" THEN <<>> ELSE RdbSaveLen(n)

LEMMA UptosExist ==
    ASSUME NEW type, NEW compress, NEW S, NEW es \in Seq(S), AreElements(type, es),
           CountOf(type, Len(es)) \in Seq(Nat)
    PROVE  \E u : /\ Uptos(type, es, compress, CountOf(type, Len(es)), u)
                  /\ RdbSaveObject(type, es, compress) = u[Len(es)]
<1> DEFINE k == Len(es)
           c == CountOf(type, k)
           B == [i \in 1..k |-> SaveElement(type, es[i], compress)]
           f == [x \in Nat \X Seq(Nat) |-> IF x[1] \in 1..k THEN x[2] \o B[x[1]] ELSE x[2]]
           E(u) == u = [i \in 0..k |-> IF i = 0 THEN IF type = "string" THEN <<>> ELSE RdbSaveLen(k)
                                       ELSE u[i - 1] \o SaveElement(type, es[i], compress)]
           u == CHOOSE g : E(g)
<1>1. k \in Nat
  OBVIOUS
<1>2. \A i \in 1..k : B[i] = SaveElement(type, es[i], compress) /\ B[i] \in Seq(Nat)
  BY SavedType DEF AreElements
<1>3. RdbSaveObject(type, es, compress) = u[k]
  BY Zenon DEF RdbSaveObject
<1>4. c \in Seq(Nat) /\ c = IF type = "string" THEN <<>> ELSE RdbSaveLen(k)
  BY DEF CountOf
<1> HIDE DEF k, B, c
<1>5. \E g : E(g)
  <2>1. f \in [Nat \X Seq(Nat) -> Seq(Nat)]
    <3>1. ASSUME NEW x \in Nat \X Seq(Nat) PROVE f[x] \in Seq(Nat)
      <4>1. x[1] \in Nat /\ x[2] \in Seq(Nat)
        OBVIOUS
      <4>2. CASE x[1] \in 1..k
        <5>1. B[x[1]] \in Seq(Nat)
          BY <1>2, <4>2, Zenon
        <5>2. x[2] \o B[x[1]] \in Seq(Nat)
          BY <4>1, <5>1, Joins, Zenon
        <5> QED
          BY <4>2, <5>2
      <4>3. CASE x[1] \notin 1..k
        BY <4>1, <4>3
      <4> QED
        BY <4>2, <4>3
    <3> QED
      BY <3>1
  <2> HIDE DEF f
  <2>2. PICK g \in [0..k -> Seq(Nat)] : Unfolds(g, k, c, f)
    BY <1>1, <1>4, <2>1, Recursion
  <2>3. ASSUME NEW i \in 0..k, i # 0
        PROVE  f[<<i, g[i - 1]>>] = g[i - 1] \o SaveElement(type, es[i], compress)
    <3>1. i \in 1..k /\ i \in Nat /\ i - 1 \in 0..k
      BY <1>1, <2>3
    <3>2. g[i - 1] \in Seq(Nat)
      BY <3>1
    <3>3. f[<<i, g[i - 1]>>] = g[i - 1] \o B[i]
      BY <3>1, <3>2 DEF f
    <3> QED
      BY <1>2, <3>1, <3>3, Zenon
  <2>4. g = [i \in 0..k |-> IF i = 0 THEN c ELSE f[<<i, g[i - 1]>>]]
    BY <2>2 DEF Unfolds
  <2>5. E(g)
    BY <1>4, <2>3, <2>4, ZenonT(60)
  <2> HIDE DEF E
  <2> QED
    BY <2>5
<1>6. E(u)
  BY <1>5, ZenonT(60)
<1> HIDE DEF u, f
<1>7. u = [i \in 0..k |-> u[i]]
  BY <1>6
<1>8. u[0] = c
  <2>1. 0 \in 0..k
    BY <1>1
  <2> QED
    BY <1>4, <1>6, <2>1
<1>9. ASSUME NEW i \in 1..k PROVE u[i] = u[i - 1] \o SaveElement(type, es[i], compress)
  <2>1. i \in 0..k /\ i # 0
    BY <1>1
  <2> QED
    BY <1>6, <2>1
<1> HIDE DEF E
<1> DEFINE P == {i \in Nat : i <= k => u[i] \in Seq(Nat)}
<1>10. 0 \in P
  BY <1>4, <1>8
<1>11. ASSUME NEW i \in Nat, i \in P PROVE i + 1 \in P
  <2> SUFFICES ASSUME i + 1 <= k PROVE u[i + 1] \in Seq(Nat)
    OBVIOUS
  <2>1. i + 1 \in 1..k /\ (i + 1) - 1 = i
    BY <1>1
  <2>2. u[i] \in Seq(Nat) /\ B[i + 1] \in Seq(Nat)
    BY <1>1, <1>2, <1>11, <2>1
  <2>3. u[i + 1] = u[i] \o B[i + 1]
    BY <1>2, <1>9, <2>1
  <2> QED
    BY <2>2, <2>3, Joins
<1> HIDE DEF P
<1>12. \A i \in Nat : i \in P
  BY <1>10, <1>11, NatSetInduction
<1>13. \A i \in 0..k : u[i] \in Seq(Nat)
  BY <1>1, <1>12 DEF P
<1>14. u \in [0..k -> Seq(Nat)]
  BY <1>7, <1>13
<1>15. Uptos(type, es, compress, c, u)
  BY <1>8, <1>9, <1>14 DEF Uptos, k
<1> QED
  BY <1>3, <1>15 DEF k, c

\* The two parts that the bytes s are of, at an element
Meets(u, r, i, s) == u[i] \o r[i] = s

\* What was written is the count and then the elements.
LEMMA ObjectParts ==
    ASSUME NEW type, NEW compress, NEW S, NEW es \in Seq(S), AreElements(type, es),
           CountOf(type, Len(es)) \in Seq(Nat), NEW r, Rests(type, es, compress, r)
    PROVE  RdbSaveObject(type, es, compress) = CountOf(type, Len(es)) \o r[0]
<1> DEFINE k == Len(es)
           c == CountOf(type, k)
           w == RdbSaveObject(type, es, compress)
<1>0. k \in Nat
  OBVIOUS
<1>1. PICK u : Uptos(type, es, compress, c, u) /\ w = u[k]
  BY UptosExist
<1>2. /\ u \in [0..k -> Seq(Nat)] /\ u[0] = c
      /\ \A i \in 1..k : u[i] = u[i - 1] \o SaveElement(type, es[i], compress)
  BY <1>1 DEF Uptos
<1>3. /\ r \in [0..k -> Seq(Nat)] /\ Len(r[k]) = 0
      /\ \A i \in 1..k : r[i - 1] = SaveElement(type, es[i], compress) \o r[i]
  BY DEF Rests
<1>4. \A i \in 1..k : SaveElement(type, es[i], compress) \in Seq(Nat)
  BY SavedType DEF AreElements
<1> HIDE DEF k, c, w
<1> DEFINE P == {i \in Nat : i <= k => Meets(u, r, i, c \o r[0])}
<1>5. 0 \in P
  BY <1>2 DEF Meets
<1>6. ASSUME NEW i \in Nat, i \in P PROVE i + 1 \in P
  <2> SUFFICES ASSUME i + 1 <= k PROVE Meets(u, r, i + 1, c \o r[0])
    OBVIOUS
  <2> DEFINE j == i + 1
             b == SaveElement(type, es[j], compress)
  <2>1. j \in 1..k /\ j \in 0..k /\ i \in 0..k /\ j - 1 = i
    BY <1>0
  <2> HIDE DEF j
  <2>2. u[j] = u[j - 1] \o b /\ r[j - 1] = b \o r[j] /\ b \in Seq(Nat)
    BY <1>2, <1>3, <1>4, <2>1, Zenon
  <2>3. u[i] \in Seq(Nat) /\ r[j] \in Seq(Nat)
    BY <1>2, <1>3, <2>1
  <2> HIDE DEF b
  <2>4. u[j] = u[i] \o b /\ r[i] = b \o r[j]
    BY <2>1, <2>2, Zenon
  <2>5. Associates(u[i], b, r[j])
    BY <2>2, <2>3, Associative
  <2>6. Meets(u, r, i, c \o r[0])
    BY <1>6, <2>1
  <2>7. Meets(u, r, j, c \o r[0])
    BY <2>4, <2>5, <2>6, Zenon DEF Associates, Meets
  <2> QED
    BY <2>7 DEF j
<1> HIDE DEF P
<1>7. k \in P
  BY <1>0, <1>5, <1>6, NatSetInduction
<1>11. Meets(u, r, k, c \o r[0])
  BY <1>0, <1>7 DEF P
<1>8. u[k] \o r[k] = c \o r[0]
  BY <1>11, Zenon DEF Meets
<1>9. u[k] \in Seq(Nat) /\ r[k] \in Seq(Nat) /\ Len(r[k]) = 0
  BY <1>0, <1>2, <1>3
<1>10. u[k] \o r[k] = u[k]
  <2> DEFINE x == u[k]
             y == r[k]
             z == x \o y
  <2>1. x \in Seq(Nat) /\ y \in Seq(Nat) /\ Len(y) = 0
    BY <1>9
  <2> HIDE DEF x, y
  <2>2. z \in Seq(Nat) /\ Len(z) = Len(x) /\ \A i \in 1..Len(z) : z[i] = x[i]
    BY <2>1
  <2> HIDE DEF z
  <2>3. z = x
    BY <2>1, <2>2, SeqEqual
  <2> QED
    BY <2>3 DEF x, y, z
<1> QED
  BY <1>1, <1>8, <1>10, Zenon DEF k, c, w


\* The first i elements
First(es, i) == SubSeq(es, 1, i)

LEMMA FirstGrows ==
    ASSUME NEW S, NEW es \in Seq(S)
    PROVE  /\ First(es, 0) = <<>> /\ First(es, Len(es)) = es
           /\ \A i \in 1..Len(es) : Append(First(es, i - 1), es[i]) = First(es, i)
<1> DEFINE k == Len(es)
<1>0. k \in Nat /\ \A i \in 1..k : es[i] \in S
  OBVIOUS
<1>1. ASSUME NEW i \in 0..k
      PROVE  First(es, i) \in Seq(S) /\ Len(First(es, i)) = i /\ \A j \in 1..i : First(es, i)[j] = es[j]
  BY DEF First
<1>2. First(es, 0) = <<>>
  <2>1. 0 \in 0..k
    BY <1>0
  <2>2. First(es, 0) \in Seq(S) /\ Len(First(es, 0)) = 0
    BY <1>1, <2>1
  <2> QED
    BY <2>2
<1>3. First(es, k) = es
  <2>1. k \in 0..k
    BY <1>0
  <2>2. First(es, k) \in Seq(S) /\ Len(First(es, k)) = k /\ \A j \in 1..k : First(es, k)[j] = es[j]
    BY <1>1, <2>1
  <2> QED
    BY <2>2, SeqEqual
<1>4. ASSUME NEW i \in 1..k PROVE Append(First(es, i - 1), es[i]) = First(es, i)
  <2> DEFINE x == First(es, i - 1)
             y == First(es, i)
             z == Append(x, es[i])
  <2>1. i - 1 \in 0..k /\ i \in 0..k /\ es[i] \in S /\ (i - 1) + 1 = i
    BY <1>0
  <2>2. x \in Seq(S) /\ Len(x) = i - 1 /\ \A j \in 1..(i - 1) : x[j] = es[j]
    BY <1>1, <2>1
  <2>3. y \in Seq(S) /\ Len(y) = i /\ \A j \in 1..i : y[j] = es[j]
    BY <1>1, <2>1
  <2> HIDE DEF x, y
  <2>4. z \in Seq(S) /\ Len(z) = i /\ \A j \in 1..i : z[j] = IF j = i THEN es[i] ELSE x[j]
    BY <2>1, <2>2
  <2> HIDE DEF z
  <2>5. \A j \in 1..i : z[j] = y[j]
    BY <2>2, <2>3, <2>4
  <2>6. z = y
    BY <2>3, <2>4, <2>5, SeqEqual
  <2> QED
    BY <2>6 DEF x, y, z
<1> QED
  BY <1>2, <1>3, <1>4

\* The loop of restore reads the elements that were written, to the last byte.
LEMMA ElementsRead ==
    ASSUME NEW type, NEW compress, NEW S, NEW es \in Seq(S), AreElements(type, es),
           NEW r, Rests(type, es, compress, r)
    PROVE  LoadElements(type, Len(es), r[0]) = Got(es, <<>>)
<1> DEFINE k == Len(es)
           s == r[0]
           Next1(a) == IF ~a.ok THEN Stop
                       ELSE LET e == LoadElement(type, a.rest)
                            IN  IF e.ok THEN Got(Append(a.val, e.val), e.rest) ELSE Stop
           E(v) == v = [i \in 0..k |->
                          IF i = 0 THEN Got(<<>>, s)
                          ELSE IF ~v[i - 1].ok THEN Stop
                          ELSE LET e == LoadElement(type, v[i - 1].rest)
                               IN  IF e.ok THEN Got(Append(v[i - 1].val, e.val), e.rest) ELSE Stop]
           v == CHOOSE g : E(g)
           G(i) == Got(First(es, i), r[i])
           g == [i \in 0..k |-> G(i)]
<1>0. k \in Nat
  OBVIOUS
<1>1. LoadElements(type, k, s) = v[k]
  BY Zenon DEF LoadElements
<1>2. /\ r \in [0..k -> Seq(Nat)] /\ Len(r[k]) = 0
      /\ \A i \in 1..k : r[i - 1] = SaveElement(type, es[i], compress) \o r[i]
  BY DEF Rests
<1>3. /\ First(es, 0) = <<>> /\ First(es, k) = es
      /\ \A i \in 1..k : Append(First(es, i - 1), es[i]) = First(es, i)
  BY FirstGrows
<1>4. G(0) = Got(<<>>, s)
  BY <1>3, Zenon
<1>5. ASSUME NEW i \in 1..k PROVE Next1(G(i - 1)) = G(i)
  <2> DEFINE a == G(i - 1)
             b == SaveElement(type, es[i], compress)
             e == LoadElement(type, a.rest)
  <2>1. a.ok = TRUE /\ a.val = First(es, i - 1) /\ a.rest = r[i - 1]
    BY DEF Got
  <2>2. r[i] \in Seq(Nat)
    BY <1>0, <1>2
  <2>3. IsElement(type, es[i])
    BY DEF AreElements
  <2>4. ElementIs(type, b, es[i])
    BY <2>3, ElementReads
  <2>5. r[i - 1] = b \o r[i]
    BY <1>2
  <2> HIDE DEF a, b
  <2>6. e = Got(es[i], r[i])
    BY <2>1, <2>2, <2>4, <2>5, Zenon DEF ElementIs
  <2> HIDE DEF e
  <2>7. e.ok = TRUE /\ e.val = es[i] /\ e.rest = r[i]
    BY <2>6 DEF Got
  <2>8. Next1(a) = Got(Append(a.val, e.val), e.rest)
    BY <2>1, <2>7, Zenon DEF e
  <2>9. Append(a.val, e.val) = First(es, i)
    BY <1>3, <2>1, <2>7, Zenon
  <2>10. Next1(a) = Got(First(es, i), r[i])
    BY <2>7, <2>8, <2>9, Zenon
  <2> QED
    BY <2>10, Zenon DEF a
<1> HIDE DEF k, s, G
<1>6. ASSUME NEW x
      PROVE  E(x) <=> x = [i \in 0..k |-> IF i = 0 THEN Got(<<>>, s) ELSE Next1(x[i - 1])]
  BY Zenon
<1> HIDE DEF E, Next1
<1>7. \E x : E(x)
  <2>1. \A i \in 0..k : g[i] = IF i = 0 THEN Got(<<>>, s) ELSE Next1(g[i - 1])
    <3> TAKE i \in 0..k
    <3>1. CASE i = 0
      BY <1>0, <1>4, <3>1
    <3>2. CASE i # 0
      <4>1. i \in 1..k /\ i - 1 \in 0..k
        BY <1>0, <3>2
      <4>2. g[i] = G(i) /\ g[i - 1] = G(i - 1)
        BY <4>1
      <4>3. Next1(G(i - 1)) = G(i)
        BY <1>5, <4>1
      <4> HIDE DEF g
      <4> QED
        BY <3>2, <4>2, <4>3
    <3> QED
      BY <3>1, <3>2
  <2>2. g = [i \in 0..k |-> g[i]]
    BY Zenon
  <2> HIDE DEF g
  <2>3. g = [i \in 0..k |-> IF i = 0 THEN Got(<<>>, s) ELSE Next1(g[i - 1])]
    BY <2>1, <2>2
  <2>4. E(g)
    BY <1>6, <2>3
  <2> QED
    BY <2>4
<1>8. E(v)
  BY <1>7
<1> HIDE DEF v, g
<1>9. v = [i \in 0..k |-> IF i = 0 THEN Got(<<>>, s) ELSE Next1(v[i - 1])]
  BY <1>6, <1>8
<1> DEFINE P == {i \in Nat : i <= k => v[i] = G(i)}
<1>10. 0 \in P
  <2>1. 0 \in 0..k
    BY <1>0
  <2>2. v[0] = Got(<<>>, s)
    BY <1>9, <2>1
  <2> QED
    BY <1>4, <2>2
<1>11. ASSUME NEW i \in Nat, i \in P PROVE i + 1 \in P
  <2> SUFFICES ASSUME i + 1 <= k PROVE v[i + 1] = G(i + 1)
    OBVIOUS
  <2>1. i + 1 \in 1..k /\ i + 1 \in 0..k /\ i + 1 # 0 /\ (i + 1) - 1 = i /\ i <= k
    BY <1>0
  <2>2. v[i + 1] = Next1(v[(i + 1) - 1])
    BY <1>9, <2>1
  <2>3. v[i] = G(i)
    BY <1>11, <2>1
  <2>4. Next1(G((i + 1) - 1)) = G(i + 1)
    BY <1>5, <2>1, Zenon
  <2> QED
    BY <2>1, <2>2, <2>3, <2>4, Zenon
<1> HIDE DEF P
<1>12. k \in P
  BY <1>0, <1>10, <1>11, NatSetInduction
<1>13. v[k] = Got(First(es, k), r[k])
  BY <1>0, <1>12 DEF P, G
<1>14. r[k] = <<>>
  <2>1. r[k] \in Seq(Nat) /\ Len(r[k]) = 0
    BY <1>0, <1>2
  <2> QED
    BY <2>1
<1>15. LoadElements(type, k, s) = Got(es, <<>>)
  BY <1>1, <1>3, <1>13, <1>14, Zenon
<1> QED
  BY <1>15, Zenon DEF k, s


----------------------------------------------------------------------------
(* Dumps: the whole of them *)

LEMMA VersionFits == RDB_VERSION \in Nat /\ RDB_VERSION < Power(Base, 2)
<1> DEFINE b == Base
<1>1. b \in Nat /\ b >= 16 /\ b \in Nat \ {0}
  BY RdbWidths
<1> HIDE DEF b
<1>2. PICK p : Powers(b, 2, p) /\ Power(b, 2) = p[2]
  BY <1>1, PowersExist
<1>3. p[1] = p[0] * b /\ p[2] = p[1] * b /\ p[0] = 1
  <2>1. 1 \in 1..2 /\ 2 \in 1..2 /\ 1 - 1 = 0 /\ 2 - 1 = 1
    OBVIOUS
  <2> QED
    BY <1>2, <2>1 DEF Powers
<1>4. p[2] = b * b
  BY <1>1, <1>3
<1>5. b * b >= 16
  <2>1. b * b >= b
    BY <1>1
  <2> QED
    BY <1>1, <2>1
<1> QED
  BY <1>1, <1>2, <1>4, <1>5 DEF RDB_VERSION, b

\* verifyDumpPayload accepts the footer, which is what follows the object.
LEMMA FooterReads ==
    ASSUME NEW p \in Seq(Nat), Len(p) >= 1
    PROVE  LET s == EncodeFooter(p) IN VerifyDumpPayload(s) /\ SubSeq(s, 1, Len(s) - 3) = p
<1> DEFINE f == LittleEndian(RDB_VERSION, 2)
           v == p \o f
           c == <<Crc(v)>>
           s == EncodeFooter(p)
           n == Len(p)
<1>0. n \in Nat /\ n >= 1
  OBVIOUS
<1>1. f \in Seq(Nat) /\ Len(f) = 2 /\ FromLittle(f) = RDB_VERSION
  BY VersionFits, LittleReads
<1>2. s = v \o c
  BY DEF EncodeFooter
<1> HIDE DEF f, s
<1>3. v \in Seq(Nat) /\ Joined(p, f, v)
  BY <1>1, Concatenated
<1>4. Len(v) = n + 2 /\ (\A i \in 1..n : v[i] = p[i]) /\ \A i \in 1..2 : v[n + i] = f[i]
  BY <1>1, <1>3 DEF Joined
<1> HIDE DEF v
<1>5. Crc(v) \in Nat
  <2>1. Len(v) \in Nat /\ v[1] \in Nat
    BY <1>0, <1>3, <1>4
  <2>2. Len(v) + v[1] \in Nat
    BY <2>1
  <2>3. (Len(v) + v[1]) % Base \in 0..(Base - 1)
    BY <2>2, DivMod, RdbWidths, Zenon
  <2>4. (Len(v) + v[1]) % Base \in Nat
    BY <2>3, RdbWidths
  <2> QED
    BY <2>4, Zenon DEF Crc
<1>6. c \in Seq(Nat) /\ Len(c) = 1 /\ c[1] = Crc(v)
  BY <1>5
<1> HIDE DEF c
<1>7. s \in Seq(Nat) /\ Joined(v, c, s)
  BY <1>2, <1>3, <1>6, Concatenated
<1> HIDE DEF n
<1>8. Len(s) = n + 3 /\ (\A i \in 1..(n + 2) : s[i] = v[i]) /\ s[n + 3] = Crc(v)
  <2>1. Len(s) = Len(v) + Len(c) /\ (\A i \in 1..Len(v) : s[i] = v[i])
        /\ \A i \in 1..Len(c) : s[Len(v) + i] = c[i]
    BY <1>7 DEF Joined
  <2>2. Len(s) = n + 2 + 1 /\ \A i \in 1..(n + 2) : s[i] = v[i]
    BY <1>4, <1>6, <2>1
  <2>3. s[n + 2 + 1] = c[1]
    BY <1>0, <1>4, <1>6, <2>1
  <2>4. n + 2 + 1 = n + 3
    BY <1>0
  <2> QED
    BY <1>6, <2>2, <2>3, <2>4
<1>9. SubSeq(s, 1, Len(s) - 1) = v
  <2>1. Len(s) - 1 = Len(v)
    BY <1>0, <1>4, <1>8
  <2>2. SubSeq(v \o c, 1, Len(v)) = v
    BY <1>3, <1>6, SplitConcat
  <2> QED
    BY <1>2, <2>1, <2>2, Zenon
<1>10. SubSeq(s, Len(s) - 2, Len(s) - 1) = f
  <2> DEFINE x == SubSeq(s, n + 1, n + 2)
  <2>1. x \in Seq(Nat) /\ Len(x) = 2 /\ \A i \in 1..2 : x[i] = s[n + i]
    BY <1>0, <1>7, <1>8
  <2> HIDE DEF x
  <2>2. \A i \in 1..2 : n + i \in 1..(n + 2)
    BY <1>0
  <2>3. \A i \in 1..2 : x[i] = f[i]
    BY <1>4, <1>8, <2>1, <2>2
  <2>4. x = f
    BY <1>1, <2>1, <2>3, SeqEqual
  <2>5. Len(s) - 2 = n + 1 /\ Len(s) - 1 = n + 2
    BY <1>0, <1>8
  <2> QED
    BY <2>4, <2>5, Zenon DEF x
<1>11. SubSeq(s, 1, Len(s) - 3) = p
  <2> DEFINE x == SubSeq(s, 1, n)
  <2>1. x \in Seq(Nat) /\ Len(x) = n /\ \A i \in 1..n : x[i] = s[i]
    BY <1>0, <1>7, <1>8
  <2> HIDE DEF x
  <2>2. \A i \in 1..n : x[i] = p[i]
    <3>1. \A i \in 1..n : i \in 1..(n + 2)
      BY <1>0
    <3> QED
      BY <1>4, <1>8, <2>1, <3>1
  <2>3. x = p
    BY <2>1, <2>2, SeqEqual DEF n
  <2>4. Len(s) - 3 = n
    BY <1>0, <1>8
  <2> QED
    BY <2>3, <2>4, Zenon DEF x
<1>12. VerifyDumpPayload(s)
  <2>1. Len(s) >= 3
    BY <1>0, <1>8
  <2>2. FromLittle(SubSeq(s, Len(s) - 2, Len(s) - 1)) <= RDB_VERSION
    <3>1. FromLittle(SubSeq(s, Len(s) - 2, Len(s) - 1)) = RDB_VERSION
      BY <1>1, <1>10, Zenon
    <3> QED
      BY <3>1, VersionFits
  <2>3. Crc(SubSeq(s, 1, Len(s) - 1)) = s[Len(s)]
    BY <1>8, <1>9, Zenon
  <2> QED
    BY <2>1, <2>2, <2>3, Zenon DEF VerifyDumpPayload
<1> QED
  BY <1>11, <1>12 DEF s

DumpTypes == {"string", "list", "set", "hash", "zset"}

LEMMA TypeOfByte ==
    ASSUME NEW type \in DumpTypes
    PROVE  /\ RdbType[type] \in Nat
           /\ {t \in DOMAIN RdbType : RdbType[t] = RdbType[type]} = {type}
<1>1. DOMAIN RdbType = DumpTypes
  BY DEF RdbType, DumpTypes
<1>2. /\ RdbType["string"] = 0 /\ RdbType["list"] = 1 /\ RdbType["set"] = 2
      /\ RdbType["hash"] = 4 /\ RdbType["zset"] = 5
  BY DEF RdbType
<1>3. \A t \in DumpTypes : RdbType[t] = RdbType[type] <=> t = type
  BY <1>2 DEF DumpTypes
<1>4. RdbType[type] \in Nat
  BY <1>2 DEF DumpTypes
<1> QED
  BY <1>1, <1>3, <1>4


LEMMA DumpReads ==
    ASSUME NEW type \in DumpTypes, NEW compress, NEW S, NEW es \in Seq(S), AreElements(type, es),
           Len(es) < Power(Base, Bytes64), type = "string" => Len(es) = 1
    PROVE  Loads(DumpOf(type, es, compress)) = [type |-> type, loaded |-> Got(es, <<>>)]
<1> DEFINE k == Len(es)
           c == CountOf(type, k)
           o == RdbSaveObject(type, es, compress)
           p == <<RdbType[type]>> \o o
           s == DumpOf(type, es, compress)
<1>0. k \in Nat
  OBVIOUS
<1>1. c \in Seq(Nat)
  <2>1. <<>> \in Seq(Nat)
    OBVIOUS
  <2>2. RdbSaveLen(k) \in Seq(Nat)
    BY <1>0, <2>1, LenReads, Zenon
  <2> QED
    BY <2>1, <2>2 DEF CountOf
<1>2. PICK r : Rests(type, es, compress, r)
  BY RestsExist
<1>3. r[0] \in Seq(Nat)
  BY <1>0, <1>2 DEF Rests
<1>4. LoadElements(type, k, r[0]) = Got(es, <<>>)
  BY <1>2, ElementsRead
<1>5. o = c \o r[0]
  BY <1>1, <1>2, ObjectParts
<1> HIDE DEF o
<1>6. o \in Seq(Nat)
  <2> HIDE DEF c
  <2> QED
    BY <1>1, <1>3, <1>5, Joins
<1>7. p \in Seq(Nat) /\ p # <<>> /\ p[1] = RdbType[type] /\ Tail(p) = o /\ Len(p) = Len(o) + 1
  BY <1>6, TypeOfByte, FirstOf
<1>8. Len(p) >= 1
  <2>1. Len(o) \in Nat
    BY <1>6
  <2>2. Len(p) = Len(o) + 1
    BY <1>7
  <2> HIDE DEF p
  <2> QED
    BY <2>1, <2>2
<1>9. s = EncodeFooter(p)
  BY DEF DumpOf, o
<1> HIDE DEF p, s
<1>10. VerifyDumpPayload(s) /\ SubSeq(s, 1, Len(s) - 3) = p
  BY <1>7, <1>8, <1>9, FooterReads
<1> DEFINE types == {t \in DOMAIN RdbType : RdbType[t] = p[1]}
<1>11. types = {type}
  BY <1>7, TypeOfByte, Zenon
<1> HIDE DEF types
<1>12. types # {} /\ (CHOOSE t \in types : TRUE) = type
  BY <1>11
<1> DEFINE n == RdbLoadLen(o)
<1>13. CASE type = "string"
  <2>1. c = <<>> /\ k = 1
    BY <1>13 DEF CountOf
  <2>2. o = r[0]
    BY <1>3, <1>5, <2>1
  <2>3. Loads(s) = [type |-> type, loaded |-> LoadElements(type, 1, o)]
    BY <1>7, <1>10, <1>12, <1>13, Zenon DEF Loads, types
  <2>4. LoadElements(type, 1, o) = Got(es, <<>>)
    BY <1>4, <2>1, <2>2, Zenon
  <2> QED
    BY <2>3, <2>4, Zenon DEF s
<1>14. CASE type # "string"
  <2>1. c = RdbSaveLen(k)
    BY <1>14 DEF CountOf
  <2>2. n = LenIs(k, r[0])
    BY <1>0, <1>3, <1>5, <2>1, LenReads
  <2> HIDE DEF n
  <2>3. n.ok = TRUE /\ n.val = k /\ n.rest = r[0]
    BY <2>2 DEF LenIs
  <2>4. Loads(s) = [type |-> type, loaded |-> LoadElements(type, n.val, n.rest)]
    <3> DEFINE body == SubSeq(s, 1, Len(s) - 3)
    <3>1. body = p /\ body # <<>> /\ Tail(body) = o
      BY <1>7, <1>10, Zenon
    <3>2. RdbLoadLen(Tail(body)) = n
      BY <3>1, Zenon DEF n
    <3>3. /\ {t \in DOMAIN RdbType : RdbType[t] = body[1]} # {}
          /\ (CHOOSE t \in {t \in DOMAIN RdbType : RdbType[t] = body[1]} : TRUE) = type
      BY <1>12, <3>1, Zenon DEF types
    <3> QED
      BY <1>10, <1>14, <2>3, <3>1, <3>2, <3>3, ZenonT(60) DEF Loads
  <2>5. LoadElements(type, n.val, n.rest) = Got(es, <<>>)
    BY <1>4, <2>3, Zenon
  <2> QED
    BY <2>4, <2>5, Zenon DEF s
<1> QED
  BY <1>13, <1>14

LEMMA PayloadSized == \A s \in Payload : Sized(s)
<1>1. Payload \subseteq Seq(0..(Base - 1)) /\ \A s \in Payload : Len(s) < Power(Base, Bytes64)
  BY RdbAssumption
<1>2. 0..(Base - 1) \subseteq Nat
  BY RdbWidths
<1>3. ASSUME NEW s \in Seq(0..(Base - 1)) PROVE s \in Seq(Nat)
  <2> DEFINE B == 0..(Base - 1)
  <2>0. s \in Seq(B) /\ B \subseteq Nat
    BY <1>2
  <2> HIDE DEF B
  <2>1. s \in [1..Len(s) -> B] /\ Len(s) \in Nat
    BY <2>0
  <2>2. s \in [1..Len(s) -> Nat]
    BY <2>0, <2>1
  <2> QED
    BY <2>1, <2>2
<1> QED
  BY <1>1, <1>3 DEF Sized

LEMMA FewAre ==
    ASSUME NEW S, NEW es \in Few(S)
    PROVE  es \in Seq(S) /\ Len(es) \in Nat /\ Len(es) < Power(Base, Bytes64) /\ \A i \in 1..Len(es) : es[i] \in S
<1>1. MaxElements \in Nat /\ MaxElements < Power(Base, Bytes64)
  BY RdbAssumption
<1>2. PICK n \in 1..MaxElements : es \in [1..n -> S]
  BY DEF Few
<1>3. n \in Nat /\ n < Power(Base, Bytes64)
  <2>1. Power(Base, Bytes64) \in Nat
    BY PowerType, RdbWidths
  <2> QED
    BY <1>1, <2>1
<1>4. es \in Seq(S) /\ Len(es) = n
  BY <1>2, <1>3
<1> QED
  BY <1>2, <1>3, <1>4

LEMMA PowerAboveOne == 1 < Power(Base, Bytes64)
<1>1. Bytes64 \in Nat \ {0} /\ Base \in Nat \ {0} /\ Base >= 16
  BY RdbWidths
<1>2. PICK p : Powers(Base, Bytes64, p) /\ Power(Base, Bytes64) = p[Bytes64]
  BY <1>1, PowersExist
<1>3. p[Bytes64] = p[Bytes64 - 1] * Base /\ p[Bytes64 - 1] \in Nat \ {0}
  BY <1>1, <1>2 DEF Powers
<1>4. p[Bytes64 - 1] * Base >= Base
  BY <1>1, <1>3
<1> QED
  BY <1>1, <1>2, <1>3, <1>4

LEMMA DumpHolds ==
    ASSUME RNext PROVE DumpRestores'
<1> SUFFICES ASSUME NEW type \in DumpTypes, NEW es, NEW compress \in BOOLEAN, NEW S, es \in Seq(S),
                    Dump(type, es, compress), AreElements(type, es), Len(es) < Power(Base, Bytes64),
                    type = "string" => Len(es) = 1
             PROVE  DumpRestores'
  <2>0. \A x \in Payload : Sized(x)
    BY PayloadSized
  <2>1. PICK compress \in BOOLEAN :
          \/ \E x \in Payload : Dump("string", <<x>>, compress)
          \/ \E es \in Few(Payload) : Dump("list", es, compress)
          \/ \E es \in Few(Payload) : Distinct(es) /\ Dump("set", es, compress)
          \/ \E es \in Few(RdbMembers \X Payload) : OfDistinct(es) /\ Dump("hash", es, compress)
          \/ \E es \in Few(RdbMembers \X RdbDoubles) : OfDistinct(es) /\ Dump("zset", es, compress)
    BY DEF RNext
  <2>2. CASE \E x \in Payload : Dump("string", <<x>>, compress)
    <3>1. PICK x \in Payload : Dump("string", <<x>>, compress)
      BY <2>2
    <3> DEFINE es == <<x>>
    <3>2. es \in Seq(Payload) /\ Len(es) = 1 /\ es[1] = x
      OBVIOUS
    <3>3. Len(es) < Power(Base, Bytes64)
      BY <3>2, PowerAboveOne
    <3>4. Dump("string", es, compress)
      BY <3>1
    <3> HIDE DEF es
    <3>5. AreElements("string", es)
      BY <2>0, <3>2 DEF AreElements, IsElement
    <3> QED
      BY <3>2, <3>3, <3>4, <3>5 DEF DumpTypes
  <2>3. ASSUME NEW type \in {"list", "set"}, NEW es \in Few(Payload), Dump(type, es, compress) PROVE DumpRestores'
    <3>1. es \in Seq(Payload) /\ Len(es) < Power(Base, Bytes64) /\ AreElements(type, es)
      BY <2>0, FewAre DEF AreElements, IsElement
    <3> QED
      BY <2>3, <3>1 DEF DumpTypes
  <2>4. ASSUME NEW es \in Few(RdbMembers \X Payload), Dump("hash", es, compress) PROVE DumpRestores'
    <3> DEFINE S == RdbMembers \X Payload
    <3>1. \A e \in S : IsElement("hash", e)
      <4>1. RdbMembers \subseteq Payload
        BY RdbAssumption
      <4>2. \A e \in S : e = <<e[1], e[2]>> /\ e[1] \in Payload /\ e[2] \in Payload
        BY <4>1
      <4> QED
        BY <2>0, <4>2 DEF IsElement
    <3>2. es \in Seq(S) /\ Len(es) < Power(Base, Bytes64) /\ AreElements("hash", es)
      BY <3>1, FewAre DEF AreElements
    <3> QED
      BY <2>4, <3>2 DEF DumpTypes
  <2>5. ASSUME NEW es \in Few(RdbMembers \X RdbDoubles), Dump("zset", es, compress) PROVE DumpRestores'
    <3> DEFINE S == RdbMembers \X RdbDoubles
    <3>1. \A e \in S : IsElement("zset", e)
      <4>1. RdbMembers \subseteq Payload /\ RdbDoubles \subseteq 0..(Power(Base, Bytes64) - 1)
        BY RdbAssumption
      <4>2. Power(Base, Bytes64) \in Nat
        BY PowerType, RdbWidths
      <4>3. \A d \in RdbDoubles : d \in Nat /\ d < Power(Base, Bytes64)
        BY <4>1, <4>2
      <4>4. \A e \in S : e = <<e[1], e[2]>> /\ e[1] \in Payload /\ e[2] \in RdbDoubles
        BY <4>1
      <4> QED
        BY <2>0, <4>3, <4>4 DEF IsElement
    <3>2. es \in Seq(S) /\ Len(es) < Power(Base, Bytes64) /\ AreElements("zset", es)
      BY <3>1, FewAre DEF AreElements
    <3> QED
      BY <2>5, <3>2 DEF DumpTypes
  <2> QED
    BY <2>1, <2>2, <2>3, <2>4, <2>5
<1>1. dumped' = <<type, es>> /\ dump' = DumpOf(type, es, compress)
  BY DEF Dump
<1>2. Loads(dump') = [type |-> type, loaded |-> Got(es, <<>>)]
  BY <1>1, DumpReads
<1>3. dumped'[1] = type /\ dumped'[2] = es
  BY <1>1
<1>4. Loads(dump') = [type |-> dumped'[1], loaded |-> Got(dumped'[2], <<>>)]
  BY <1>2, <1>3, Zenon
<1> QED
  BY <1>4, Zenon DEF DumpRestores

\* RESTORE accepts every dump and loads the elements that were dumped, in the
\* same order and to the last byte, for every length, string, number and score
\* that the widths of the encoding hold and any number of elements
\* (DumpEncoder, RdbEncoder, verifyDumpPayload and RdbDecoder).
THEOREM EveryDumpRestores == RSpec => []DumpRestores
<1>1. RInit => DumpRestores
  BY DEF RInit, DumpRestores
<1>2. DumpRestores /\ [RNext]_rdbvars => DumpRestores'
  <2>1. CASE RNext
    BY <2>1, DumpHolds
  <2>2. ASSUME DumpRestores, UNCHANGED rdbvars PROVE DumpRestores'
    <3>1. dumped' = dumped /\ dump' = dump
      BY <2>2 DEF rdbvars
    <3> QED
      BY <2>2, <3>1, Zenon DEF DumpRestores
  <2> QED
    BY <2>1, <2>2
<1> QED
  BY <1>1, <1>2, PTL DEF RSpec

----------------------------------------------------------------------------
(* Powers of two, and the widths of bytes and integers *)

LEMMA PowersAgree ==
    ASSUME NEW b \in Nat \ {0}, NEW w \in Nat, NEW v \in Nat, NEW p, NEW q,
           Powers(b, w, p), Powers(b, v, q), w <= v
    PROVE  p[w] = q[w]
<1> DEFINE P == {i \in Nat : i <= w => p[i] = q[i]}
<1>1. 0 \in P
  BY DEF Powers
<1>2. ASSUME NEW i \in Nat, i \in P PROVE i + 1 \in P
  <2> SUFFICES ASSUME i + 1 <= w PROVE p[i + 1] = q[i + 1]
    OBVIOUS
  <2>1. i + 1 \in 1..w /\ i + 1 \in 1..v /\ (i + 1) - 1 = i /\ p[i] = q[i]
    BY <1>2
  <2> QED
    BY <2>1 DEF Powers
<1> HIDE DEF P
<1>3. w \in P
  BY <1>1, <1>2, NatSetInduction
<1> QED
  BY <1>3 DEF P

LEMMA PowerStep ==
    ASSUME NEW b \in Nat \ {0}
    PROVE  Power(b, 0) = 1 /\ \A k \in Nat : Power(b, k + 1) = Power(b, k) * b
<1>1. Power(b, 0) = 1
  <2>1. PICK p : Powers(b, 0, p) /\ Power(b, 0) = p[0]
    BY PowersExist
  <2> QED
    BY <2>1 DEF Powers
<1>2. ASSUME NEW k \in Nat PROVE Power(b, k + 1) = Power(b, k) * b
  <2>1. PICK p : Powers(b, k, p) /\ Power(b, k) = p[k]
    BY PowersExist
  <2>2. k + 1 \in Nat /\ k <= k + 1 /\ k + 1 \in 1..(k + 1) /\ (k + 1) - 1 = k
    OBVIOUS
  <2>3. PICK q : Powers(b, k + 1, q) /\ Power(b, k + 1) = q[k + 1]
    BY <2>2, PowersExist
  <2>4. p[k] = q[k]
    BY <2>1, <2>2, <2>3, PowersAgree
  <2>5. q[k + 1] = q[k] * b
    BY <2>2, <2>3 DEF Powers
  <2> QED
    BY <2>1, <2>3, <2>4, <2>5
<1> QED
  BY <1>1, <1>2

\* The powers of two, as a function, so that the provers see numbers only.
Two(k) == Power(2, k)

LEMMA TwoType == \A k \in Nat : Two(k) \in Nat \ {0}
BY PowerType DEF Two

LEMMA TwoStep == Two(0) = 1 /\ \A k \in Nat : Two(k + 1) = 2 * Two(k)
<1>1. \A k \in Nat : Power(2, k) \in Nat
  BY PowerType
<1>2. Power(2, 0) = 1 /\ \A k \in Nat : Power(2, k + 1) = Power(2, k) * 2
  BY PowerStep
<1> QED
  BY <1>1, <1>2 DEF Two

LEMMA TwoAbove == \A k \in Nat : k < Two(k)
<1> DEFINE P == {k \in Nat : k < Two(k)}
<1>1. 0 \in P
  BY TwoStep
<1>2. ASSUME NEW k \in Nat, k \in P PROVE k + 1 \in P
  BY <1>2, TwoStep, TwoType
<1> HIDE DEF P
<1>3. \A k \in Nat : k \in P
  BY <1>1, <1>2, NatSetInduction
<1> QED
  BY <1>3 DEF P

LEMMA TwoSum == ASSUME NEW m \in Nat, NEW n \in Nat PROVE Two(m + n) = Two(m) * Two(n)
<1> DEFINE P == {i \in Nat : Two(m + i) = Two(m) * Two(i)}
<1>0. Two(m) \in Nat
  BY TwoType
<1>1. 0 \in P
  <2>1. m + 0 = m /\ Two(m) * 1 = Two(m)
    BY <1>0
  <2> QED
    BY <2>1, TwoStep
<1>2. ASSUME NEW i \in Nat, i \in P PROVE i + 1 \in P
  <2>1. m + (i + 1) = (m + i) + 1 /\ m + i \in Nat
    OBVIOUS
  <2>2. Two(m + (i + 1)) = 2 * Two(m + i) /\ Two(i + 1) = 2 * Two(i) /\ Two(i) \in Nat
    BY <2>1, TwoStep, TwoType
  <2>3. Two(m + i) = Two(m) * Two(i)
    BY <1>2
  <2>4. \A x, y \in Nat : 2 * (x * y) = x * (2 * y)
    OBVIOUS
  <2> HIDE DEF P
  <2>5. Two(m + (i + 1)) = Two(m) * Two(i + 1)
    BY <1>0, <2>2, <2>3, <2>4, Zenon
  <2> QED
    BY <2>5 DEF P
<1> HIDE DEF P
<1>3. n \in P
  BY <1>1, <1>2, NatSetInduction
<1> QED
  BY <1>3 DEF P

LEMMA StringWidths ==
    /\ ByteBits \in Nat /\ ByteBits >= 2 /\ IntBits \in Nat /\ IntBits - 1 \in Nat
    /\ MaxSize \in Nat /\ MaxLen \in Nat /\ MaxSVersion \in Nat
    /\ FloatBuf \in Nat /\ FloatDigits \in Nat /\ LdMax \in Nat
BY StringAssumption

LEMMA ByteIs == Byte = 0..(Two(ByteBits) - 1) /\ Two(ByteBits) \in Nat /\ Two(ByteBits) >= 4
                /\ {0, 1, 2, 3} \subseteq Byte /\ Byte \subseteq Nat
<1>1. ByteBits - 2 \in Nat /\ ByteBits = (ByteBits - 2) + 1 + 1 /\ (ByteBits - 2) + 1 \in Nat
  BY StringWidths
<1>2. Two(ByteBits) = 2 * (2 * Two(ByteBits - 2)) /\ Two(ByteBits - 2) \in Nat \ {0}
  BY <1>1, TwoStep, TwoType
<1>3. Byte = 0..(Two(ByteBits) - 1)
  BY DEF Byte, Two
<1> QED
  BY <1>2, <1>3

LEMMA IntRange ==
    /\ IntMax \in Nat /\ IntMin = -IntMax - 1 /\ IntMax = Two(IntBits - 1) - 1
    /\ Power(2, IntBits) = 2 * (IntMax + 1) /\ Power(2, IntBits - 1) = IntMax + 1
<1>1. IntBits - 1 \in Nat /\ IntBits = (IntBits - 1) + 1
  BY StringWidths
<1>2. Two(IntBits) = 2 * Two(IntBits - 1) /\ Two(IntBits - 1) \in Nat \ {0}
  BY <1>1, TwoStep, TwoType
<1>3. IntMax = Two(IntBits - 1) - 1 /\ Power(2, IntBits) = Two(IntBits) /\ Power(2, IntBits - 1) = Two(IntBits - 1)
  BY DEF IntMax, Two
<1> QED
  BY <1>2, <1>3 DEF IntMin

----------------------------------------------------------------------------
(* Numbers written and read *)

\* The text of a number: its length, and the digits of its absolute value.
LEMMA SizeExists ==
    ASSUME NEW a \in Nat
    PROVE  \E k \in 1..(a + 1) : a < Power(2, k) /\ (k = 1 \/ Power(2, k - 1) <= a)
<1> DEFINE T == {k \in Nat : k >= 1 /\ a < Two(k)}
<1>1. a + 1 \in T
  <2>1. a + 1 < Two(a + 1) /\ a + 1 \in Nat
    BY TwoAbove
  <2> QED
    BY <2>1, TwoType
<1>2. PICK k \in T : \A j \in T : k <= j
  <2> HIDE DEF T
  <2>1. T \subseteq Nat /\ T # {}
    BY <1>1 DEF T
  <2> QED
    BY <2>1, LeastNat
<1>3. k \in 1..(a + 1) /\ a < Two(k)
  BY <1>1, <1>2
<1>4. k = 1 \/ Two(k - 1) <= a
  <2> SUFFICES ASSUME k # 1 PROVE Two(k - 1) <= a
    OBVIOUS
  <2>1. k - 1 \in Nat /\ k - 1 >= 1 /\ k - 1 < k
    BY <1>3
  <2>2. k - 1 \notin T
    BY <1>2, <2>1
  <2>3. Two(k - 1) \in Nat
    BY <2>1, TwoType
  <2> QED
    BY <2>1, <2>2, <2>3
<1> HIDE DEF T
<1> QED
  BY <1>3, <1>4 DEF Two

----------------------------------------------------------------------------
(* Bits *)

LEMMA DivDiv ==
    ASSUME NEW x \in Nat \ {0}, NEW y \in Nat \ {0}, NEW n \in Nat
    PROVE  (n \div x) \div y = n \div (x * y)
<1> DEFINE a == n \div x
           r == n % x
           c == a \div y
           s == a % y
<1>1. n = a * x + r /\ r \in 0..(x - 1) /\ a \in Nat
  BY DivMod
<1> HIDE DEF a, r
<1>2. a = c * y + s /\ s \in 0..(y - 1) /\ c \in Nat
  BY <1>1, DivMod
<1> HIDE DEF c, s
<1>3. r \in Nat /\ s \in Nat /\ r < x /\ s < y
  BY <1>1, <1>2
<1>4. s * x + r < y * x
  BY <1>3, NextPower
<1>5. s * x + r \in Nat
  BY <1>3, MulAdd
<1>6. x * y \in Nat \ {0} /\ y * x = x * y
  <2>1. \A u, v \in Nat \ {0} : u * v \in Nat \ {0} /\ v * u = u * v
    OBVIOUS
  <2> QED
    BY <2>1
<1>7. s * x + r \in 0..(x * y - 1)
  <2>1. \A u, v \in Nat : u < v => u \in 0..(v - 1)
    OBVIOUS
  <2> QED
    BY <1>4, <1>5, <1>6, <2>1, Zenon
<1>8. n = c * (x * y) + (s * x + r)
  <2>1. (c * y + s) * x + r = c * (x * y) + (s * x + r)
    BY <1>2, <1>3
  <2> QED
    BY <1>1, <1>2, <2>1, Zenon
<1>9. n \div (x * y) = c
  BY <1>2, <1>6, <1>7, <1>8, DivIs, Zenon
<1> QED
  BY <1>9 DEF c, a

LEMMA EvenPart == ASSUME NEW x \in Nat, NEW y \in Nat PROVE (2 * x + y) % 2 = y % 2
OBVIOUS

\* Bit k of n, from the lowest
Bit(n, k) == (n \div Two(k)) % 2

LEMMA BitType == ASSUME NEW n \in Nat, NEW k \in Nat PROVE Bit(n, k) \in {0, 1}
<1>1. Two(k) \in Nat \ {0}
  BY TwoType
<1>2. n \div Two(k) \in Nat
  BY <1>1, DivMod
<1> HIDE DEF Two
<1>3. (n \div Two(k)) % 2 \in 0..1
  <2>1. \A x \in Nat : x % 2 \in 0..1
    OBVIOUS
  <2> QED
    BY <1>2, <2>1
<1>4. 0..1 = {0, 1}
  OBVIOUS
<1> QED
  BY <1>3, <1>4 DEF Bit

\* n with c as bit k: what is above it, the bit, and what is below it
Made(h, c, k, lo) == (2 * h + c) * Two(k) + lo

LEMMA BitSplits ==
    ASSUME NEW n \in Nat, NEW k \in Nat
    PROVE  \E h \in Nat, lo \in 0..(Two(k) - 1) : n = Made(h, Bit(n, k), k, lo)
<1> DEFINE x == n \div Two(k)
<1>1. Two(k) \in Nat \ {0}
  BY TwoType
<1>2. n = x * Two(k) + (n % Two(k)) /\ n % Two(k) \in 0..(Two(k) - 1) /\ x \in Nat
  BY <1>1, DivMod
<1>3. x = 2 * (x \div 2) + (x % 2) /\ x \div 2 \in Nat
  <2> HIDE DEF x
  <2> QED
    BY <1>2
<1>4. Bit(n, k) = x % 2
  BY DEF Bit
<1> HIDE DEF x
<1>5. n = Made(x \div 2, Bit(n, k), k, n % Two(k))
  BY <1>2, <1>3, <1>4, Zenon DEF Made
<1> QED
  BY <1>2, <1>3, <1>5

LEMMA MadeType ==
    ASSUME NEW h \in Nat, NEW c \in {0, 1}, NEW k \in Nat, NEW lo \in 0..(Two(k) - 1)
    PROVE  Made(h, c, k, lo) \in Nat /\ 2 * h + c \in Nat /\ lo \in Nat /\ Two(k) \in Nat \ {0}
<1>1. Two(k) \in Nat \ {0} /\ 2 * h + c \in Nat
  BY TwoType
<1>2. lo \in Nat
  BY <1>1
<1> QED
  BY <1>1, <1>2, MulAdd DEF Made

LEMMA MadeBit ==
    ASSUME NEW h \in Nat, NEW c \in {0, 1}, NEW k \in Nat, NEW lo \in 0..(Two(k) - 1)
    PROVE  Bit(Made(h, c, k, lo), k) = c
<1>1. 2 * h + c \in Nat /\ Two(k) \in Nat \ {0}
  BY MadeType
<1>2. Made(h, c, k, lo) \div Two(k) = 2 * h + c
  BY <1>1, DivIs, ZenonT(60) DEF Made
<1>3. (2 * h + c) % 2 = c
  BY EvenPart
<1> QED
  BY <1>2, <1>3 DEF Bit

\* The bits below are those of the low part.
LEMMA MadeBelow ==
    ASSUME NEW h \in Nat, NEW c \in {0, 1}, NEW k \in Nat, NEW lo \in 0..(Two(k) - 1),
           NEW j \in Nat, j < k
    PROVE  Bit(Made(h, c, k, lo), j) = Bit(lo, j)
<1> DEFINE R == Two(j)
           M == Two(k - j - 1)
           x == 2 * h + c
           a == lo \div R
           r == lo % R
<1>1. k - j - 1 \in Nat /\ k = (j + 1) + (k - j - 1) /\ j + 1 \in Nat
  OBVIOUS
<1>2. Two(k) = Two(j + 1) * M /\ Two(j + 1) = 2 * R
  BY <1>1, TwoSum, TwoStep, Zenon
<1>3. R \in Nat \ {0} /\ M \in Nat /\ x \in Nat /\ lo \in Nat
  BY <1>1, TwoType, MadeType
<1>4. lo = a * R + r /\ r \in 0..(R - 1) /\ a \in Nat
  BY <1>3, DivMod
<1>5. Made(h, c, k, lo) = x * ((2 * R) * M) + lo
  BY <1>2 DEF Made
<1>6. Bit(lo, j) = a % 2
  BY DEF Bit
<1> HIDE DEF R, M, x, a, r
<1>7. r \in Nat
  BY <1>3, <1>4
<1>8. Made(h, c, k, lo) = (2 * (x * M) + a) * R + r
  <2>1. x * ((2 * R) * M) + (a * R + r) = (2 * (x * M) + a) * R + r
    BY <1>3, <1>4, <1>7
  <2> QED
    BY <1>4, <1>5, <2>1, Zenon
<1>9. x * M \in Nat
  BY <1>3
<1>10. 2 * (x * M) + a \in Nat
  BY <1>4, <1>9
<1>11. Made(h, c, k, lo) \div R = 2 * (x * M) + a
  <2> DEFINE n == Made(h, c, k, lo)
             u == 2 * (x * M) + a
  <2>1. n = u * R + r /\ u \in Nat
    BY <1>8, <1>10
  <2> HIDE DEF n, u
  <2>2. n \div R = u
    BY <1>3, <1>4, <2>1, DivIs, Zenon
  <2> QED
    BY <2>2 DEF n, u
<1>12. (2 * (x * M) + a) % 2 = a % 2
  BY <1>4, <1>9, EvenPart
<1> QED
  BY <1>6, <1>11, <1>12 DEF Bit, R

\* The bits above are those of the high part.
LEMMA MadeAbove ==
    ASSUME NEW h \in Nat, NEW c \in {0, 1}, NEW k \in Nat, NEW lo \in 0..(Two(k) - 1),
           NEW j \in Nat, j > k
    PROVE  Bit(Made(h, c, k, lo), j) = Bit(h, j - k - 1)
<1> DEFINE P == Two(k)
           K == Two(j - k - 1)
           n == Made(h, c, k, lo)
<1>1. j - k - 1 \in Nat /\ j = (k + 1) + (j - k - 1) /\ k + 1 \in Nat
  OBVIOUS
<1>2. Two(j) = Two(k + 1) * K /\ Two(k + 1) = 2 * P
  BY <1>1, TwoSum, TwoStep, Zenon
<1>3. P \in Nat \ {0} /\ K \in Nat \ {0} /\ n \in Nat /\ lo \in 0..(P - 1)
  BY <1>1, TwoType, MadeType
<1>4. n = (2 * h + c) * P + lo
  BY DEF Made
<1>5. Bit(h, j - k - 1) = (h \div K) % 2
  BY DEF Bit
<1> HIDE DEF P, K, n
<1>6. n = h * (2 * P) + (c * P + lo) /\ c * P + lo \in 0..(2 * P - 1) /\ 2 * P \in Nat \ {0}
  BY <1>3, <1>4
<1>7. n \div (2 * P) = h
  BY <1>6, DivIs, ZenonT(60)
<1>8. (n \div (2 * P)) \div K = n \div ((2 * P) * K)
  BY <1>3, <1>6, DivDiv
<1> QED
  BY <1>2, <1>5, <1>7, <1>8 DEF Bit, n

LEMMA MadeSmall ==
    ASSUME NEW h \in Nat, NEW c \in {0, 1}, NEW d \in {0, 1}, NEW k \in Nat,
           NEW lo \in 0..(Two(k) - 1), NEW w \in Nat, k < w, Made(h, c, k, lo) < Two(w)
    PROVE  Made(h, d, k, lo) < Two(w)
<1> DEFINE P == Two(k)
           K == Two(w - k - 1)
           n == Made(h, c, k, lo)
           m == Made(h, d, k, lo)
<1>1. w - k - 1 \in Nat /\ w = (k + 1) + (w - k - 1) /\ k + 1 \in Nat
  OBVIOUS
<1>2. Two(w) = Two(k + 1) * K /\ Two(k + 1) = 2 * P
  BY <1>1, TwoSum, TwoStep, Zenon
<1>3. P \in Nat \ {0} /\ K \in Nat \ {0} /\ lo \in 0..(P - 1)
  BY <1>1, TwoType
<1>4. n = (2 * h + c) * P + lo /\ m = (2 * h + d) * P + lo
  BY DEF Made
<1>5. n < Two(w)
  OBVIOUS
<1> HIDE DEF P, K, n, m
<1>6. /\ n = h * (2 * P) + (c * P + lo) /\ c * P + lo \in 0..(2 * P - 1)
      /\ m = h * (2 * P) + (d * P + lo) /\ d * P + lo \in 0..(2 * P - 1) /\ 2 * P \in Nat \ {0}
  BY <1>3, <1>4
<1>7. n \in Nat /\ n \div (2 * P) = h
  BY <1>6, DivIs, ZenonT(60)
<1>8. n < K * (2 * P)
  BY <1>2, <1>3, <1>5
<1>9. h < K
  BY <1>3, <1>6, <1>7, <1>8, DivBound
<1>10. d * P + lo \in Nat /\ d * P + lo < 2 * P
  BY <1>6
<1>11. m < K * (2 * P)
  BY <1>3, <1>6, <1>9, <1>10, NextPower
<1>12. K * (2 * P) = (2 * P) * K
  BY <1>3
<1> QED
  BY <1>2, <1>11, <1>12 DEF m

LEMMA HasBitIs == ASSUME NEW b, NEW k PROVE HasBit(b, k) = Bit(b, k)
BY DEF HasBit, Bit, Two

OneBitSet(b, c, k, on) ==
    /\ c \in Byte
    /\ \A j \in 0..(ByteBits - 1) : HasBit(c, j) = IF j = k THEN on ELSE HasBit(b, j)

\* SETBIT's sum changes the bit it is about, and no other one of the byte.
LEMMA SetOneBit ==
    ASSUME NEW b \in Byte, NEW k \in 0..(ByteBits - 1), NEW on \in {0, 1}
    PROVE  OneBitSet(b, b + (on - HasBit(b, k)) * Power(2, k), k, on)
<1> DEFINE old == Bit(b, k)
           c == b + (on - old) * Two(k)
<1>1. b \in Nat /\ k \in Nat /\ b < Two(ByteBits) /\ k < ByteBits /\ ByteBits \in Nat
  BY ByteIs, StringWidths
<1>2. PICK h \in Nat, lo \in 0..(Two(k) - 1) : b = Made(h, old, k, lo)
  BY <1>1, BitSplits
<1>3. old \in {0, 1}
  BY <1>1, BitType
<1> HIDE DEF old
<1>4. c = Made(h, on, k, lo)
  <2>1. Two(k) \in Nat
    BY <1>1, TwoType
  <2>2. lo \in Int /\ old \in Int /\ on \in Int
    BY <1>3, <2>1
  <2>3. (2 * h + old) * Two(k) + lo + (on - old) * Two(k) = (2 * h + on) * Two(k) + lo
    BY <2>1, <2>2
  <2> QED
    BY <1>2, <2>3 DEF Made
<1>5. c \in Nat
  BY <1>1, <1>4, MadeType, SMTT(30)
<1>6. c < Two(ByteBits)
  BY <1>1, <1>2, <1>3, <1>4, MadeSmall, Zenon
<1>7. c \in Byte
  BY <1>5, <1>6, ByteIs
<1>8. ASSUME NEW j \in 0..(ByteBits - 1) PROVE Bit(c, j) = IF j = k THEN on ELSE Bit(b, j)
  <2> HIDE DEF c
  <2>1. j \in Nat /\ j - k - 1 \in Int /\ (j = k \/ j < k \/ j > k)
    BY <1>1
  <2>2. CASE j = k
    BY <1>1, <1>4, <2>2, MadeBit, Zenon
  <2>3. CASE j < k
    <3>1. Bit(Made(h, on, k, lo), j) = Bit(lo, j)
      BY <1>1, <2>1, <2>3, MadeBelow
    <3>3. Bit(Made(h, old, k, lo), j) = Bit(lo, j)
      BY <1>1, <1>3, <2>1, <2>3, MadeBelow
    <3>2. j # k
      BY <1>1, <2>1, <2>3
    <3> QED
      BY <1>2, <1>4, <3>1, <3>2, <3>3
  <2>4. CASE j > k
    <3>1. Bit(Made(h, on, k, lo), j) = Bit(h, j - k - 1)
      BY <1>1, <2>1, <2>4, MadeAbove
    <3>3. Bit(Made(h, old, k, lo), j) = Bit(h, j - k - 1)
      BY <1>1, <1>3, <2>1, <2>4, MadeAbove
    <3>2. j # k
      BY <1>1, <2>1, <2>4
    <3> QED
      BY <1>2, <1>4, <3>1, <3>2, <3>3
  <2> QED
    BY <2>1, <2>2, <2>3, <2>4
<1>9. c = b + (on - HasBit(b, k)) * Power(2, k)
  BY HasBitIs DEF Two, old
<1> HIDE DEF c
<1> QED
  BY <1>7, <1>8, <1>9, HasBitIs, Zenon DEF OneBitSet

----------------------------------------------------------------------------
(* Numbers written and read *)

LEMMA QuotientIs ==
    ASSUME NEW n \in Nat, NEW w \in Nat, NEW q, Quotients(2, n, w, q), NEW i \in 0..w
    PROVE  q[i] = n \div Two(i)
<1> DEFINE P == {j \in Nat : j <= w => q[j] = n \div Two(j)}
<1>1. 0 \in P
  <2>1. q[0] = n /\ n \div 1 = n
    BY DEF Quotients
  <2> QED
    BY <2>1, TwoStep
<1>2. ASSUME NEW j \in Nat, j \in P PROVE j + 1 \in P
  <2> SUFFICES ASSUME j + 1 <= w PROVE q[j + 1] = n \div Two(j + 1)
    OBVIOUS
  <2>1. j + 1 \in 1..w /\ (j + 1) - 1 = j /\ q[j] = n \div Two(j)
    BY <1>2
  <2>2. q[j + 1] = q[j] \div 2
    BY <2>1 DEF Quotients
  <2>3. Two(j) \in Nat \ {0} /\ 2 \in Nat \ {0} /\ Two(j + 1) = Two(j) * 2
    BY TwoStep, TwoType
  <2>4. (n \div Two(j)) \div 2 = n \div (Two(j) * 2)
    BY <2>3, DivDiv, Zenon
  <2> QED
    BY <2>1, <2>2, <2>3, <2>4, Zenon
<1> HIDE DEF P
<1>3. i \in P
  BY <1>1, <1>2, NatSetInduction
<1> QED
  BY <1>3 DEF P

\* The digits of a number of its own length: it begins with a one.
Written(a, k) == [i \in 1..k |-> 1 + Numeral(2, a, k)[i]]

WrittenAs(a, k, d) ==
    /\ d \in Seq({1, 2}) /\ Len(d) = k
    /\ [i \in DOMAIN d |-> d[i] - 1] = Numeral(2, a, k)
    /\ k = 1 /\ a = 0 => d[1] = 1
    /\ d[1] = 1 => k = 1 /\ a = 0

LEMMA WrittenIs ==
    ASSUME NEW a \in Nat, NEW k \in Nat \ {0}, a < Power(2, k), k = 1 \/ Power(2, k - 1) <= a
    PROVE  WrittenAs(a, k, Written(a, k))
<1> DEFINE s == Numeral(2, a, k)
           d == Written(a, k)
<1>1. PICK q : Quotients(2, a, k, q) /\ s = [i \in 1..k |-> q[k - i] % 2]
  <2> DEFINE two == 2
  <2>1. two \in Nat \ {0} /\ k \in Nat
    OBVIOUS
  <2> HIDE DEF two
  <2>2. \E q : Quotients(two, a, k, q) /\ Numeral(two, a, k) = [i \in 1..k |-> q[k - i] % two]
    BY <2>1, QuotientsExist, ZenonT(60)
  <2> QED
    BY <2>2 DEF two
<1>2. s \in [1..k -> 0..1]
  <2>1. s \in Seq(0..(2 - 1)) /\ Len(s) = k
    <3> DEFINE two == 2
    <3>1. two \in Nat \ {0} /\ k \in Nat
      OBVIOUS
    <3> HIDE DEF two
    <3>2. Numeral(two, a, k) \in Seq(0..(two - 1)) /\ Len(Numeral(two, a, k)) = k
      BY <3>1, NumeralType
    <3> QED
      BY <3>2, Zenon DEF two
  <2> HIDE DEF s
  <2> QED
    BY <2>1
<1>3. s[1] = q[k - 1] % 2 /\ k - 1 \in 0..k /\ k - 1 \in Nat
  BY <1>1
<1>4. q[k - 1] = a \div Two(k - 1)
  BY <1>1, <1>3, QuotientIs
<1>5. s[1] = 0 => k = 1 /\ a = 0
  <2> SUFFICES ASSUME ~(k = 1 /\ a = 0) PROVE s[1] # 0
    OBVIOUS
  <2>1. Two(k - 1) \in Nat \ {0} /\ Two(k) = 2 * Two(k - 1) /\ a < Two(k) /\ (k = 1 \/ Two(k - 1) <= a)
    <3>1. k = (k - 1) + 1
      OBVIOUS
    <3> QED
      BY <1>3, <3>1, TwoStep, TwoType DEF Two
  <2>2. Two(k - 1) <= a
    <3>1. CASE k = 1
      BY <3>1, TwoStep
    <3> QED
      BY <2>1, <3>1
  <2>3. a = 1 * Two(k - 1) + (a - Two(k - 1)) /\ a - Two(k - 1) \in 0..(Two(k - 1) - 1) /\ 1 \in Nat
    BY <2>1, <2>2
  <2>4. a \div Two(k - 1) = 1
    BY <2>1, <2>3, DivIs, ZenonT(60)
  <2>5. 1 % 2 = 1
    OBVIOUS
  <2> HIDE DEF s
  <2> QED
    BY <1>3, <1>4, <2>4, <2>5
<1>6. a = 0 /\ k = 1 => s[1] = 0
  <2> SUFFICES ASSUME a = 0, k = 1 PROVE q[k - 1] % 2 = 0
    BY <1>3
  <2>1. q[k - 1] = 0
    BY <1>1 DEF Quotients
  <2> QED
    BY <2>1
<1> HIDE DEF s
<1>7. d = [i \in 1..k |-> 1 + s[i]]
  BY DEF Written, s
<1> HIDE DEF d
<1>8. \A i \in 1..k : d[i] = 1 + s[i] /\ s[i] \in 0..1 /\ d[i] \in {1, 2}
  BY <1>2, <1>7
<1>9. d \in [1..k -> {1, 2}]
  BY <1>7, <1>8
<1>10. d \in Seq({1, 2}) /\ Len(d) = k /\ DOMAIN d = 1..k
  BY <1>9
<1>11. [i \in DOMAIN d |-> d[i] - 1] = s
  <2>1. \A i \in 1..k : d[i] - 1 = s[i]
    BY <1>8
  <2>2. s = [i \in 1..k |-> s[i]]
    BY <1>2
  <2> QED
    BY <1>10, <2>1, <2>2, Zenon
<1>12. 1 \in 1..k
  OBVIOUS
<1> QED
  BY <1>5, <1>6, <1>8, <1>10, <1>11, <1>12 DEF WrittenAs, s, d

LEMMA EmptyIs == ASSUME NEW S, NEW s \in Seq(S) PROVE (s = <<>>) <=> (Len(s) = 0)
BY EmptySeq

\* What str and ll2string write is a number, without a needless zero, and reads
\* as n.
ReadsAsNumber(n, s) ==
    /\ s \in Seq({1, 2, 3}) /\ Len(s) > 0
    /\ AllDigits(Unsigned(s)) /\ (Unsigned(s)[1] = 2 \/ s = <<1>>)
    /\ Signed(s, Natural(Unsigned(s))) = n

LEMMA NaturalOfWritten ==
    ASSUME NEW a \in Nat, NEW k \in Nat \ {0}, a < Power(2, k), k = 1 \/ Power(2, k - 1) <= a
    PROVE  Natural(Written(a, k)) = a
<1> DEFINE two == 2
<1>1. two \in Nat \ {0} /\ k \in Nat
  OBVIOUS
<1>2. WrittenAs(a, k, Written(a, k))
  BY WrittenIs
<1>3. Natural(Written(a, k)) = ValueOf(two, Numeral(two, a, k))
  BY <1>2 DEF Natural, WrittenAs
<1>4. a < Power(two, k)
  OBVIOUS
<1> HIDE DEF two
<1>5. ValueOf(two, Numeral(two, a, k)) = a
  BY <1>1, <1>4, ValueOfNumeral
<1> QED
  BY <1>3, <1>5

LEMMA StrForm ==
    ASSUME NEW n \in Int
    PROVE  \E a \in Nat, k \in Nat \ {0} :
              /\ a = (IF n < 0 THEN -n ELSE n) /\ a < Power(2, k) /\ (k = 1 \/ Power(2, k - 1) <= a)
              /\ Str(n) = IF n < 0 THEN <<3>> \o Written(a, k) ELSE Written(a, k)
<1> DEFINE a == IF n < 0 THEN -n ELSE n
           k == CHOOSE k \in 1..(a + 1) : a < Power(2, k) /\ (k = 1 \/ Power(2, k - 1) <= a)
<1>1. a \in Nat
  OBVIOUS
<1>2. Str(n) = IF n < 0 THEN <<3>> \o Written(a, k) ELSE Written(a, k)
  BY DEF Str, Written
<1>5. a = (IF n < 0 THEN -n ELSE n)
  OBVIOUS
<1> HIDE DEF a
<1>3. k \in 1..(a + 1) /\ a < Power(2, k) /\ (k = 1 \/ Power(2, k - 1) <= a)
  <2>1. \E j \in 1..(a + 1) : a < Power(2, j) /\ (j = 1 \/ Power(2, j - 1) <= a)
    BY <1>1, SizeExists
  <2> QED
    BY <2>1, Zenon
<1> HIDE DEF k
<1>4. k \in Nat \ {0}
  BY <1>1, <1>3
<1> QED
  BY <1>1, <1>2, <1>3, <1>4, <1>5

LEMMA StrReads == ASSUME NEW n \in Int PROVE ReadsAsNumber(n, Str(n))
<1>1. PICK a \in Nat, k \in Nat \ {0} :
        /\ a = (IF n < 0 THEN -n ELSE n) /\ a < Power(2, k) /\ (k = 1 \/ Power(2, k - 1) <= a)
        /\ Str(n) = IF n < 0 THEN <<3>> \o Written(a, k) ELSE Written(a, k)
  BY StrForm
<1> DEFINE d == Written(a, k)
           s == Str(n)
<1>2. WrittenAs(a, k, d) /\ Natural(d) = a
  BY <1>1, WrittenIs, NaturalOfWritten
<1> HIDE DEF d
<1>3. /\ d \in Seq({1, 2}) /\ d \in Seq({1, 2, 3}) /\ Len(d) = k /\ k > 0 /\ DOMAIN d = 1..k
      /\ d[1] \in {1, 2} /\ \A i \in 1..k : d[i] \in {1, 2}
  <2>1. d \in [1..k -> {1, 2}] /\ Len(d) = k
    BY <1>2 DEF WrittenAs
  <2> QED
    BY <2>1
<1>4. d # <<>>
  BY <1>3, EmptyIs
<1>5. AllDigits(d)
  BY <1>3, <1>4 DEF AllDigits
<1>6. CASE n < 0
  <2>1. s = <<3>> \o d /\ a = -n /\ a # 0
    BY <1>1, <1>6 DEF d
  <2>2. Tail(s) = d /\ s[1] = 3 /\ Len(s) = Len(d) + 1
    <3>1. 3 \in {1, 2, 3}
      OBVIOUS
    <3> QED
      BY <1>3, <2>1, <3>1, HeadAndTail
  <2>3. s \in Seq({1, 2, 3})
    <3>1. <<3>> \in Seq({1, 2, 3})
      OBVIOUS
    <3> QED
      BY <1>3, <2>1, <3>1, Concatenated, Zenon
  <2>4. Len(s) > 0
    BY <1>3, <2>2
  <2> HIDE DEF s
  <2>5. s # <<>>
    BY <2>3, <2>4, EmptyIs
  <2>6. Unsigned(s) = d /\ Signed(s, Natural(d)) = -a
    BY <1>2, <2>2, <2>5, Zenon DEF Unsigned, Signed
  <2>7. d[1] = 2
    BY <1>2, <1>3, <2>1 DEF WrittenAs
  <2>8. -a = n
    BY <2>1
  <2> QED
    BY <1>5, <2>3, <2>4, <2>6, <2>7, <2>8, Zenon DEF ReadsAsNumber, s
<1>7. CASE ~(n < 0)
  <2>1. s = d /\ a = n
    BY <1>1, <1>7 DEF d
  <2> HIDE DEF s
  <2>2. s[1] # 3
    BY <1>3, <2>1
  <2>3. Unsigned(s) = s /\ Signed(s, Natural(s)) = n
    BY <1>2, <2>1, <2>2, Zenon DEF Unsigned, Signed
  <2>4. s[1] = 2 \/ s = <<1>>
    <3>1. CASE d[1] = 1
      <4>1. k = 1
        BY <1>2, <3>1 DEF WrittenAs
      <4>2. <<1>> \in Seq({1, 2}) /\ Len(<<1>>) = 1 /\ <<1>>[1] = 1
        OBVIOUS
      <4>3. d = <<1>>
        <5>1. \A i \in 1..1 : d[i] = <<1>>[i]
          BY <3>1, <4>2
        <5> QED
          BY <1>3, <4>1, <4>2, <5>1, SeqEqual
      <4> QED
        BY <2>1, <4>3
    <3> QED
      BY <1>3, <2>1, <3>1
  <2>5. Len(s) > 0
    BY <1>3, <2>1
  <2> QED
    BY <1>3, <1>5, <2>1, <2>3, <2>4, <2>5, Zenon DEF ReadsAsNumber, s
<1> QED
  BY <1>6, <1>7

LEMMA StrType == ASSUME NEW n \in Int PROVE Str(n) \in Seq(Byte)
<1>1. Str(n) \in Seq({1, 2, 3})
  BY StrReads DEF ReadsAsNumber
<1>2. {1, 2, 3} \subseteq Byte
  BY ByteIs
<1> HIDE DEF Str
<1>3. \A S, T : S \subseteq T => Seq(S) \subseteq Seq(T)
  OBVIOUS
<1> QED
  BY <1>1, <1>2, <1>3, Zenon

----------------------------------------------------------------------------
(* SETRANGE and SETBIT *)

LEMMA ZerosIs ==
    ASSUME NEW n \in Nat
    PROVE  Zeros(n) \in Seq(Byte) /\ Len(Zeros(n)) = n /\ \A i \in 1..n : Zeros(n)[i] = 0
<1>1. 0 \in Byte
  BY ByteIs
<1>2. Zeros(n) \in [1..n -> Byte]
  BY <1>1 DEF Zeros
<1>3. \A i \in 1..n : Zeros(n)[i] = 0
  BY DEF Zeros
<1> HIDE DEF Zeros
<1> QED
  BY <1>2, <1>3

\* Byte i of a string, from 0; zero beyond its end.
ByteOf(s, i) == IF i < Len(s) THEN s[i + 1] ELSE 0

\* The string as long as it has to be for byte m - 1, with zeros added.
Grows(s, m, g) ==
    /\ g \in Seq(Byte) /\ Len(g) = (IF m > Len(s) THEN m ELSE Len(s))
    /\ \A i \in 0..(Len(g) - 1) : g[i + 1] = ByteOf(s, i)

LEMMA GrownIs ==
    ASSUME NEW s \in Seq(Byte), NEW m \in Nat, m >= Len(s)
    PROVE  Grows(s, m, s \o Zeros(m - Len(s)))
<1> DEFINE n == Len(s)
           z == Zeros(m - n)
           g == s \o z
<1>1. n \in Nat /\ m - n \in Nat
  OBVIOUS
<1>2. z \in Seq(Byte) /\ Len(z) = m - n /\ \A i \in 1..(m - n) : z[i] = 0
  BY <1>1, ZerosIs
<1> HIDE DEF z
<1>3. g \in Seq(Byte) /\ Joined(s, z, g)
  BY <1>2, Concatenated
<1> HIDE DEF g
<1>4. Len(g) = m
  BY <1>1, <1>2, <1>3 DEF Joined
<1>5. ASSUME NEW i \in 0..(Len(g) - 1) PROVE g[i + 1] = ByteOf(s, i)
  <2>1. i \in Nat /\ i < m
    BY <1>4
  <2>2. CASE i < n
    <3>1. i + 1 \in 1..n
      BY <1>1, <2>1, <2>2
    <3> QED
      BY <1>3, <2>2, <3>1 DEF Joined, ByteOf
  <2>3. CASE ~(i < n)
    <3>1. i + 1 - n \in 1..(m - n) /\ n + (i + 1 - n) = i + 1
      BY <1>1, <2>1, <2>3
    <3>2. g[n + (i + 1 - n)] = z[i + 1 - n]
      BY <1>2, <1>3, <3>1 DEF Joined
    <3> QED
      BY <1>2, <2>3, <3>1, <3>2 DEF ByteOf
  <2> QED
    BY <2>2, <2>3
<1>6. Len(g) = IF m > n THEN m ELSE n
  BY <1>1, <1>4
<1> QED
  BY <1>3, <1>5, <1>6 DEF Grows, g, z

\* val with the bytes of value from start on
RangeIs(val, start, value, r) ==
    /\ r \in Seq(Byte)
    /\ Len(r) = (IF start + Len(value) > Len(val) THEN start + Len(value) ELSE Len(val))
    /\ \A i \in 0..(Len(r) - 1) :
          r[i + 1] = IF start <= i /\ i < start + Len(value) THEN value[i - start + 1] ELSE ByteOf(val, i)

LEMMA RangeOf ==
    ASSUME NEW head \in Seq(Byte), NEW value \in Seq(Byte), NEW tail \in Seq(Byte),
           NEW val \in Seq(Byte),
           Len(head) + Len(value) + Len(tail)
             = (IF Len(head) + Len(value) > Len(val) THEN Len(head) + Len(value) ELSE Len(val)),
           \A i \in 0..(Len(head) - 1) : head[i + 1] = ByteOf(val, i),
           \A i \in 1..Len(tail) : tail[i] = ByteOf(val, Len(head) + Len(value) + i - 1)
    PROVE  RangeIs(val, Len(head), value, head \o value \o tail)
<1> DEFINE a == head \o value
           r == a \o tail
           p == Len(head)
           q == Len(value)
           t == Len(tail)
<1>1. a \in Seq(Byte) /\ Joined(head, value, a)
  BY Concatenated
<1> HIDE DEF a
<1>2. r \in Seq(Byte) /\ Joined(a, tail, r)
  BY <1>1, Concatenated
<1> HIDE DEF r
<1>3. p \in Nat /\ q \in Nat /\ t \in Nat /\ Len(a) = p + q /\ Len(r) = p + q + t
  BY <1>1, <1>2 DEF Joined
<1>4. Len(r) = (IF p + q > Len(val) THEN p + q ELSE Len(val))
  BY <1>3
<1>5. ASSUME NEW i \in 0..(Len(r) - 1)
      PROVE  r[i + 1] = IF p <= i /\ i < p + q THEN value[i - p + 1] ELSE ByteOf(val, i)
  <2>1. i \in Nat /\ i < p + q + t
    BY <1>3
  <2>2. CASE i < p
    <3>1. i + 1 \in 1..p /\ i + 1 \in 1..(p + q) /\ ~(p <= i) /\ i \in 0..(p - 1)
      BY <1>3, <2>1, <2>2
    <3>2. r[i + 1] = a[i + 1] /\ a[i + 1] = head[i + 1]
      BY <1>1, <1>2, <1>3, <3>1 DEF Joined
    <3> QED
      BY <3>1, <3>2
  <2>3. CASE p <= i /\ i < p + q
    <3>1. i - p + 1 \in 1..q /\ i + 1 \in 1..(p + q) /\ p + (i - p + 1) = i + 1
      BY <1>3, <2>1, <2>3, SMTT(30)
    <3>2. r[i + 1] = a[i + 1] /\ a[p + (i - p + 1)] = value[i - p + 1]
      BY <1>1, <1>2, <1>3, <3>1 DEF Joined
    <3> QED
      BY <2>3, <3>1, <3>2
  <2>4. CASE p + q <= i
    <3>1. i + 1 - (p + q) \in 1..t /\ (p + q) + (i + 1 - (p + q)) = i + 1 /\ ~(i < p + q)
          /\ p + q + (i + 1 - (p + q)) - 1 = i
      BY <1>3, <2>1, <2>4
    <3>2. r[(p + q) + (i + 1 - (p + q))] = tail[i + 1 - (p + q)]
      BY <1>2, <1>3, <3>1 DEF Joined
    <3>3. tail[i + 1 - (p + q)] = ByteOf(val, p + q + (i + 1 - (p + q)) - 1)
      BY <3>1
    <3> QED
      BY <3>1, <3>2, <3>3
  <2> QED
    BY <1>3, <2>1, <2>2, <2>3, <2>4
<1> QED
  BY <1>2, <1>4, <1>5 DEF RangeIs, r, a

LEMMA RangeSetIs ==
    ASSUME NEW val \in Seq(Byte), NEW start \in Nat, NEW value \in Seq(Byte)
    PROVE  RangeIs(val, start, value, RangeSet(val, start, value))
<1> DEFINE n == Len(val)
           q == Len(value)
<1>0. n \in Nat /\ q \in Nat
  OBVIOUS
<1>1. CASE start < n
  <2> DEFINE head == SubSeq(val, 1, start)
             rest == SubSeq(val, start + q + 1, n)
             tail == IF start + q < n THEN rest ELSE <<>>
  <2>1. RangeSet(val, start, value) = head \o value \o tail
    BY <1>1 DEF RangeSet
  <2>2. head \in Seq(Byte) /\ Len(head) = start /\ \A i \in 1..start : head[i] = val[i]
    BY <1>1
  <2>3. start + q < n => /\ rest \in Seq(Byte) /\ Len(rest) = n - (start + q)
                         /\ \A i \in 1..(n - (start + q)) : rest[i] = val[start + q + i]
    <3> SUFFICES ASSUME start + q < n
                 PROVE  /\ rest \in Seq(Byte) /\ Len(rest) = n - (start + q)
                        /\ \A i \in 1..(n - (start + q)) : rest[i] = val[start + q + i]
      OBVIOUS
    <3> DEFINE m == start + q
    <3>1. m \in Nat /\ m < n
      OBVIOUS
    <3> HIDE DEF m
    <3>2. /\ SubSeq(val, m + 1, n) \in Seq(Byte) /\ Len(SubSeq(val, m + 1, n)) = n - m
          /\ \A i \in 1..(n - m) : SubSeq(val, m + 1, n)[i] = val[m + i]
      BY <3>1
    <3> QED
      BY <3>2 DEF m
  <2>4. <<>> \in Seq(Byte) /\ Len(<<>>) = 0
    OBVIOUS
  <2> HIDE DEF head, rest
  <2>5. tail \in Seq(Byte) /\ Len(tail) = IF start + q < n THEN n - (start + q) ELSE 0
    BY <2>3, <2>4
  <2>6. ASSUME NEW i \in 1..Len(tail) PROVE tail[i] = ByteOf(val, Len(head) + q + i - 1)
    <3>1. start + q < n
      BY <2>5
    <3>2. i \in 1..(n - (start + q)) /\ tail[i] = rest[i]
      BY <2>5, <3>1
    <3>3. rest[i] = val[start + q + i]
      BY <2>3, <3>1, <3>2
    <3>4. start + q + i - 1 < n /\ (start + q + i - 1) + 1 = start + q + i
      BY <1>0, <3>2
    <3> QED
      BY <2>2, <3>2, <3>3, <3>4 DEF ByteOf
  <2> HIDE DEF tail
  <2>7. ASSUME NEW i \in 0..(Len(head) - 1) PROVE head[i + 1] = ByteOf(val, i)
    <3>1. i + 1 \in 1..start /\ i < n
      BY <1>0, <1>1, <2>2
    <3> QED
      BY <2>2, <3>1 DEF ByteOf
  <2>8. Len(head) + q + Len(tail) = (IF Len(head) + q > n THEN Len(head) + q ELSE n)
    <3> HIDE DEF n, q
    <3>1. CASE start + q < n
      <4>1. Len(tail) = n - (start + q)
        BY <2>5, <3>1
      <4> QED
        BY <1>0, <2>2, <3>1, <4>1
    <3>2. CASE ~(start + q < n)
      <4>1. Len(tail) = 0
        BY <2>5, <3>2
      <4> QED
        BY <1>0, <1>1, <2>2, <3>2, <4>1
    <3> QED
      BY <3>1, <3>2
  <2>9. RangeIs(val, Len(head), value, head \o value \o tail)
    BY <2>2, <2>5, <2>6, <2>7, <2>8, RangeOf
  <2> QED
    BY <2>1, <2>2, <2>9
<1>2. CASE ~(start < n)
  <2> DEFINE head == val \o Zeros(start - n)
             none == SubSeq(val, 1, 0)
  <2>1. RangeSet(val, start, value) = head \o value
    BY <1>2 DEF RangeSet
  <2>2. Grows(val, start, head)
    BY <1>0, <1>2, GrownIs
  <2> HIDE DEF head
  <2>3. head \in Seq(Byte) /\ Len(head) = start /\ \A i \in 0..(start - 1) : head[i + 1] = ByteOf(val, i)
    BY <1>0, <1>2, <2>2 DEF Grows
  <2>4. none \in Seq(Byte) /\ Len(none) = 0
    OBVIOUS
  <2> HIDE DEF none
  <2>5. head \o value = head \o value \o none
    <3> DEFINE h == head \o value
               g == h \o none
    <3>1. h \in Seq(Byte)
      BY <2>3, Concatenated
    <3> HIDE DEF h
    <3>2. g \in Seq(Byte) /\ Joined(h, none, g)
      BY <2>4, <3>1, Concatenated
    <3> HIDE DEF g
    <3>3. Len(g) = Len(h) /\ \A i \in 1..Len(h) : h[i] = g[i]
      BY <2>4, <3>1, <3>2 DEF Joined
    <3>4. h = g
      BY <3>1, <3>2, <3>3, SeqEqual
    <3> QED
      BY <3>4 DEF g, h
  <2>6. RangeIs(val, Len(head), value, head \o value \o none)
    <3>1. Len(head) + q + Len(none) = (IF Len(head) + q > n THEN Len(head) + q ELSE n)
      BY <1>0, <1>2, <2>3, <2>4
    <3>2. \A i \in 1..Len(none) : none[i] = ByteOf(val, Len(head) + q + i - 1)
      BY <2>4
    <3> QED
      BY <2>3, <2>4, <3>1, <3>2, RangeOf
  <2> QED
    BY <2>1, <2>3, <2>5, <2>6
<1> QED
  BY <1>1, <1>2

LEMMA DivBelow ==
    ASSUME NEW b \in Nat \ {0}, NEW n \in Nat, NEW p \in Nat
    PROVE  (n \div b < p) <=> (n < p * b)
<1> DEFINE a == n \div b
           r == n % b
<1>1. n = a * b + r /\ r \in 0..(b - 1) /\ a \in Nat
  BY DivMod
<1>2. n < p * b => a < p
  BY DivBound
<1> HIDE DEF a, r
<1>3. r \in Nat /\ r < b
  BY <1>1
<1>4. a < p => a * b + r < p * b
  BY <1>1, <1>3, NextPower
<1>5. a < p => n < p * b
  BY <1>1, <1>4, Zenon
<1> QED
  BY <1>2, <1>5 DEF a

\* The byte a bit is in; BitPos is its place there.
At(o) == o \div ByteBits

\* A bit is where its byte and its place say.
LEMMA BitPlace ==
    ASSUME NEW o \in Nat
    PROVE  At(o) \in Nat /\ BitPos(o) \in 0..(ByteBits - 1) /\ o = At(o) * ByteBits + (ByteBits - 1 - BitPos(o))
<1> DEFINE a == o \div ByteBits
           r == o % ByteBits
<1>1. ByteBits \in Nat \ {0}
  BY StringWidths
<1>2. o = a * ByteBits + r /\ r \in 0..(ByteBits - 1) /\ a \in Nat
  BY <1>1, DivMod
<1>3. BitPos(o) = ByteBits - 1 - r
  BY DEF BitPos
<1>6. At(o) = a
  BY DEF At
<1> HIDE DEF a, r
<1>4. BitPos(o) \in 0..(ByteBits - 1) /\ ByteBits - 1 - BitPos(o) = r
  BY <1>1, <1>2, <1>3
<1> QED
  BY <1>2, <1>4, <1>6

LEMMA SameBit ==
    ASSUME NEW o \in Nat, NEW i \in Nat, At(i) = At(o), BitPos(i) = BitPos(o)
    PROVE  i = o
BY BitPlace, Zenon

LEMMA BitInString ==
    ASSUME NEW i \in Nat, NEW n \in Nat
    PROVE  (At(i) < n) <=> (i < n * ByteBits)
<1>1. ByteBits \in Nat \ {0}
  BY StringWidths
<1> QED
  BY <1>1, DivBelow DEF At

\* What SETBIT makes of a string
GrownTo(s, m) == IF m >= Len(s) THEN s \o Zeros(m + 1 - Len(s)) ELSE s
BitSet(s, o, on) ==
    [GrownTo(s, At(o)) EXCEPT ![At(o) + 1] =
       @ + (on - HasBit(GrownTo(s, At(o))[At(o) + 1], BitPos(o))) * Power(2, BitPos(o))]

BitOf(s, i) == HasBit(ByteOf(s, At(i)), BitPos(i))
OnlyBit(s, o, on, r) ==
    /\ r \in Seq(Byte)
    /\ Len(r) = IF o < Len(s) * ByteBits THEN Len(s) ELSE At(o) + 1
    /\ \A i \in 0..(Len(r) * ByteBits - 1) : BitOf(r, i) = IF i = o THEN on ELSE BitOf(s, i)

LEMMA GrownToIs ==
    ASSUME NEW s \in Seq(Byte), NEW m \in Nat
    PROVE  Grows(s, m + 1, GrownTo(s, m))
<1>0. Len(s) \in Nat
  OBVIOUS
<1>1. CASE m >= Len(s)
  <2>1. m + 1 \in Nat /\ m + 1 >= Len(s)
    BY <1>0, <1>1
  <2>2. Grows(s, m + 1, s \o Zeros(m + 1 - Len(s)))
    BY <2>1, GrownIs
  <2> QED
    BY <1>1, <2>2 DEF GrownTo
<1>2. CASE ~(m >= Len(s))
  <2>1. GrownTo(s, m) = s
    BY <1>2 DEF GrownTo
  <2>2. Len(s) = (IF m + 1 > Len(s) THEN m + 1 ELSE Len(s))
    BY <1>0, <1>2
  <2>3. \A i \in 0..(Len(s) - 1) : s[i + 1] = ByteOf(s, i)
    BY <1>0 DEF ByteOf
  <2> QED
    BY <2>1, <2>2, <2>3 DEF Grows
<1> QED
  BY <1>1, <1>2

LEMMA BitSetIs ==
    ASSUME NEW s \in Seq(Byte), NEW o \in Nat, NEW on \in {0, 1}
    PROVE  /\ OnlyBit(s, o, on, BitSet(s, o, on))
           /\ HasBit(GrownTo(s, At(o))[At(o) + 1], BitPos(o)) = BitOf(s, o)
<1> DEFINE m == At(o)
           g == GrownTo(s, m)
           k == BitPos(o)
           c == g[m + 1] + (on - HasBit(g[m + 1], k)) * Power(2, k)
           r == BitSet(s, o, on)
           n == Len(s)
<1>1. m \in Nat /\ k \in 0..(ByteBits - 1) /\ n \in Nat
  <2>1. n \in Nat
    OBVIOUS
  <2> QED
    BY <2>1, BitPlace, Zenon
<1>2. Grows(s, m + 1, g)
  BY <1>1, GrownToIs
<1> HIDE DEF g
<1>3. /\ g \in Seq(Byte) /\ Len(g) = (IF m + 1 > n THEN m + 1 ELSE n)
      /\ \A i \in 0..(Len(g) - 1) : g[i + 1] = ByteOf(s, i)
  BY <1>2 DEF Grows
<1>4. r = [g EXCEPT ![m + 1] = c]
  BY DEF BitSet, g
<1> HIDE DEF r, m, k, n
<1>5. m + 1 \in 1..Len(g) /\ m \in 0..(Len(g) - 1) /\ Len(g) \in Nat
  BY <1>1, <1>3
<1>6. g[m + 1] = ByteOf(s, m) /\ g[m + 1] \in Byte
  BY <1>3, <1>5
<1>7. OneBitSet(g[m + 1], c, k, on)
  BY <1>1, <1>6, SetOneBit
<1>8. c \in Byte /\ \A j \in 0..(ByteBits - 1) : HasBit(c, j) = IF j = k THEN on ELSE HasBit(g[m + 1], j)
  BY <1>7 DEF OneBitSet
<1> HIDE DEF c
<1>9. /\ r \in Seq(Byte) /\ Len(r) = Len(g)
      /\ r[m + 1] = c /\ \A i \in 1..Len(g) : i # m + 1 => r[i] = g[i]
  <2>1. g \in [1..Len(g) -> Byte]
    BY <1>3
  <2>2. r \in [1..Len(g) -> Byte] /\ r[m + 1] = c /\ \A i \in 1..Len(g) : i # m + 1 => r[i] = g[i]
    BY <1>4, <1>5, <1>8, <2>1
  <2> QED
    BY <1>5, <2>2
<1>10. Len(r) = IF o < n * ByteBits THEN n ELSE m + 1
  <2>1. (m < n) <=> (o < n * ByteBits)
    BY <1>1, BitInString DEF m
  <2>2. Len(g) = IF m < n THEN n ELSE m + 1
    BY <1>1, <1>3
  <2> QED
    BY <1>9, <2>1, <2>2
<1>11. ASSUME NEW i \in 0..(Len(r) * ByteBits - 1)
       PROVE  BitOf(r, i) = IF i = o THEN on ELSE BitOf(s, i)
  <2>1. i \in Nat /\ i < Len(r) * ByteBits
    <3>1. Len(r) * ByteBits \in Int
      BY <1>5, <1>9, StringWidths
    <3> QED
      BY <3>1
  <2>2. At(i) < Len(r) /\ At(i) \in Nat /\ BitPos(i) \in 0..(ByteBits - 1)
    BY <1>5, <1>9, <2>1, BitInString, BitPlace
  <2>3. BitOf(r, i) = HasBit(r[At(i) + 1], BitPos(i))
    BY <2>2 DEF BitOf, ByteOf
  <2>4. At(i) \in 0..(Len(g) - 1) /\ At(i) + 1 \in 1..Len(g)
    BY <1>5, <1>9, <2>2
  <2>5. g[At(i) + 1] = ByteOf(s, At(i))
    BY <1>3, <2>4
  <2>6. CASE At(i) = m
    <3>1. HasBit(c, BitPos(i)) = IF BitPos(i) = k THEN on ELSE HasBit(g[m + 1], BitPos(i))
      BY <1>8, <2>2
    <3>2. BitPos(i) = k <=> i = o
      BY <2>1, <2>6, SameBit DEF m, k
    <3> QED
      BY <1>6, <1>9, <2>3, <2>6, <3>1, <3>2 DEF BitOf
  <2>7. CASE At(i) # m
    <3>1. i # o
      BY <2>7 DEF m
    <3>2. At(i) + 1 # m + 1
      BY <1>1, <2>2, <2>7
    <3>3. r[At(i) + 1] = g[At(i) + 1]
      BY <1>9, <2>4, <3>2
    <3> QED
      BY <2>3, <2>5, <3>1, <3>3 DEF BitOf
  <2> QED
    BY <2>6, <2>7
<1> QED
  BY <1>6, <1>9, <1>10, <1>11 DEF OnlyBit, BitOf, r, m, k, n, g

----------------------------------------------------------------------------
(* What the commands that count store *)

LEMMA NaturalType ==
    ASSUME NEW d \in Seq(Nat), AllDigits(d)
    PROVE  Natural(d) \in Nat
<1> DEFINE s == [i \in DOMAIN d |-> d[i] - 1]
           two == 2
<1>1. \A i \in 1..Len(d) : d[i] \in {1, 2}
  BY DEF AllDigits
<1>2. s \in [1..Len(d) -> Nat] /\ Len(d) \in Nat
  BY <1>1
<1>3. s \in Seq(Nat)
  BY <1>2
<1>4. Natural(d) = ValueOf(two, s)
  BY DEF Natural
<1>5. two \in Nat \ {0}
  OBVIOUS
<1> HIDE DEF s, two
<1>6. PICK v : Values(two, s, Len(s), v) /\ ValueOf(two, s) = v[Len(s)]
  BY <1>3, <1>5, ValuesExist
<1>7. v[Len(s)] \in Nat
  <2>1. Len(s) \in 0..Len(s)
    BY <1>3
  <2> QED
    BY <1>6, <2>1 DEF Values
<1> QED
  BY <1>4, <1>6, <1>7

LEMMA UnsignedType == ASSUME NEW s \in Seq(Byte) PROVE Unsigned(s) \in Seq(Nat)
<1>1. s \in Seq(Nat)
  <2>1. Byte \subseteq Nat
    BY ByteIs
  <2>2. \A S, T : S \subseteq T => Seq(S) \subseteq Seq(T)
    OBVIOUS
  <2> QED
    BY <2>1, <2>2, Zenon
<1>2. CASE s = <<>>
  BY <1>1, <1>2 DEF Unsigned
<1>3. CASE s # <<>>
  <2>1. Tail(s) \in Seq(Nat)
    BY <1>1, <1>3
  <2> QED
    BY <1>1, <2>1 DEF Unsigned
<1> QED
  BY <1>2, <1>3

LEMMA String2llType == ASSUME NEW s \in Seq(Byte), IsLl(s) PROVE String2ll(s) \in Int
<1>1. Natural(Unsigned(s)) \in Nat
  BY UnsignedType, NaturalType DEF IsLl
<1> QED
  BY <1>1 DEF String2ll, Signed

LEMMA UpToNulType == ASSUME NEW s \in Seq(Byte) PROVE UpToNul(s) \in Seq(Byte)
<1> DEFINE nuls == {i \in DOMAIN s : s[i] = 0}
           k == CHOOSE i \in nuls : \A j \in nuls : i <= j
<1>1. CASE nuls = {}
  BY <1>1 DEF UpToNul
<1>2. CASE nuls # {}
  <2>1. UpToNul(s) = SubSeq(s, 1, k - 1)
    BY <1>2 DEF UpToNul
  <2>2. nuls \subseteq Nat /\ nuls \subseteq 1..Len(s)
    OBVIOUS
  <2> HIDE DEF nuls
  <2>3. \E i \in nuls : \A j \in nuls : i <= j
    BY <1>2, <2>2, LeastNat
  <2>4. k \in nuls
    BY <2>3, Zenon
  <2> HIDE DEF k
  <2>5. k \in 1..Len(s)
    BY <2>2, <2>4
  <2>6. SubSeq(s, 1, k - 1) \in Seq(Byte)
    BY <2>5
  <2> QED
    BY <2>1, <2>6
<1> QED
  BY <1>1, <1>2

LEMMA LongDoubleType ==
    ASSUME NEW s \in Seq(Byte), ~LdError(s)
    PROVE  StrToLongDouble(s) \in Int
<1> DEFINE u == UpToNul(s)
<1>1. Infinity \in Int /\ -Infinity \in Int
  BY StringWidths DEF Infinity
<1>2. CASE Len(s) >= FloatBuf
  BY <1>2 DEF StrToLongDouble
<1>3. CASE ~(Len(s) >= FloatBuf)
  <2>1. Len(s) < FloatBuf
    BY <1>3, StringWidths
  <2>2. StrToLongDouble(s) = LdOf(s)
    BY <1>3 DEF StrToLongDouble
  <2>3. CASE u \in {<<>>, InfStr, NegInfStr}
    BY <1>1, <2>2, <2>3 DEF LdOf
  <2>4. CASE u \notin {<<>>, InfStr, NegInfStr}
    <3>1. AllDigits(Unsigned(u))
      BY <2>1, <2>4, Zenon DEF LdError, IsLd
    <3>2. u \in Seq(Byte)
      BY UpToNulType
    <3> HIDE DEF u
    <3>3. Natural(Unsigned(u)) \in Nat
      BY <3>1, <3>2, UnsignedType, NaturalType
    <3>4. Signed(u, Natural(Unsigned(u))) \in Int
      BY <3>3 DEF Signed
    <3>5. LdOf(s) = Signed(u, Natural(Unsigned(u)))
      BY <2>4 DEF LdOf, u
    <3> QED
      BY <2>2, <3>4, <3>5
  <2> QED
    BY <2>3, <2>4
<1> QED
  BY <1>2, <1>3

LEMMA StrLdType == ASSUME NEW x \in Int PROVE StrLd(x) \in Seq(Byte)
<1>1. InfStr \in Seq(Byte) /\ NegInfStr \in Seq(Byte)
  BY ByteIs DEF InfStr, NegInfStr
<1>2. <<>> \in Seq(Byte)
  OBVIOUS
<1> QED
  BY <1>1, <1>2, StrType, Zenon DEF StrLd

\* The increment of _incr: the nearest integer, or its opposite; the least
\* integer is its own opposite.
Taken(dir, arg) ==
    LET m == IF arg < IntMin THEN IntMin ELSE IF arg > IntMax THEN IntMax ELSE arg
    IN  IF dir = 1 \/ m = IntMin THEN m ELSE -m

LEMMA IncrementIs ==
    ASSUME NEW dir \in {1, -1}, NEW arg \in Int
    PROVE  /\ Wrap(dir * StrToInt64(arg)) = Taken(dir, arg)
           /\ Taken(dir, arg) \in IntMin..IntMax
<1> DEFINE m == StrToInt64(arg)
           M == Power(2, IntBits)
           x == dir * m
<1>1. IntMax \in Nat /\ IntMin = -IntMax - 1 /\ M = 2 * (IntMax + 1)
  BY IntRange
<1>2. m \in IntMin..IntMax /\ m = IF arg < IntMin THEN IntMin ELSE IF arg > IntMax THEN IntMax ELSE arg
  BY <1>1 DEF StrToInt64
<1>3. Taken(dir, arg) = IF dir = 1 \/ m = IntMin THEN m ELSE -m
  BY <1>2 DEF Taken
<1>4. Wrap(x) = ((x - IntMin) % M) + IntMin
  BY DEF Wrap
<1>5. x = IF dir = 1 THEN m ELSE -m
  <2> HIDE DEF m
  <2> QED
    BY <1>1, <1>2
<1> HIDE DEF m, M, x
<1>6. M \in Nat \ {0} /\ x \in Int /\ IntMin \in Int
  BY <1>1, <1>2, <1>5
<1>7. CASE x - IntMin < M
  <2>1. x - IntMin >= 0
    BY <1>1, <1>2, <1>5
  <2>2. (x - IntMin) % M = x - IntMin
    <3> DEFINE y == x - IntMin
    <3>1. y \in Nat /\ y < M
      BY <1>6, <1>7, <2>1
    <3> HIDE DEF y
    <3>2. y % M = y
      BY <1>6, <3>1, DivSmall
    <3> QED
      BY <3>2 DEF y
  <2>3. Wrap(x) = x
    BY <1>4, <1>6, <2>2
  <2> QED
    BY <1>1, <1>2, <1>3, <1>5, <1>7, <2>3 DEF m, x
<1>8. CASE ~(x - IntMin < M)
  <2>1. x - IntMin = M /\ m = IntMin /\ dir # 1
    BY <1>1, <1>2, <1>5, <1>6, <1>8
  <2>2. M % M = 0
    <3>1. M = 1 * M + 0 /\ 0 \in 0..(M - 1) /\ 1 \in Nat
      BY <1>6
    <3> QED
      BY <1>6, <3>1, DivIs
  <2>3. Wrap(x) = IntMin
    BY <1>4, <1>6, <2>1, <2>2
  <2> QED
    BY <1>1, <1>2, <1>3, <2>1, <2>3 DEF m, x
<1> QED
  BY <1>7, <1>8

----------------------------------------------------------------------------
(* The string of a key: the type invariant *)

\* The inductive invariant: the types, and only a key that is there expires.
SInd ==
    /\ smeta \in [st : {"absent", "live", "dead"}, val : Seq(Byte), ver : 0..MaxSVersion]
    /\ Len(smeta.val) <= MaxLen
    /\ sttl \in BOOLEAN /\ (sttl => SFound)

LEMMA ValueType == ASSUME SInd PROVE KvValue \in Seq(Byte)
BY DEF SInd, KvValue

LEMMA ReplyKeeps == ASSUME SInd, NEW x, SReply(x) PROVE SInd'
BY DEF SInd, SReply, SFound

LEMMA PutKeeps ==
    ASSUME SInd, NEW val \in Seq(Byte), NEW ttl \in BOOLEAN, NEW x, PutKvVal(val, ttl, x)
    PROVE  SInd'
<1>1. KvVersion \in 0..MaxSVersion
  BY StringWidths DEF SInd, PutKvVal, KvVersion
<1>2. smeta' = [st |-> "live", val |-> val, ver |-> KvVersion] /\ sttl' = ttl /\ Len(val) <= MaxLen
  BY DEF PutKvVal, SLive
<1> HIDE DEF KvVersion
<1>3. smeta' \in [st : {"absent", "live", "dead"}, val : Seq(Byte), ver : 0..MaxSVersion]
  BY <1>1, <1>2
<1>4. smeta'.st = "live" /\ smeta'.val = val
  BY <1>2
<1> QED
  BY <1>2, <1>3, <1>4 DEF SInd, SFound

LEMMA UpdateKeeps ==
    ASSUME SInd, NEW val \in Seq(Byte), NEW x, UpdateKv(val, x)
    PROVE  SInd'
BY PutKeeps DEF UpdateKv, SInd

LEMMA KillKeeps == ASSUME SInd, NEW x, SKill(x) PROVE SInd'
<1>1. smeta' = [smeta EXCEPT !.st = "dead"] /\ sttl' = FALSE
  BY DEF SKill, SDead
<1>2. smeta' \in [st : {"absent", "live", "dead"}, val : Seq(Byte), ver : 0..MaxSVersion] /\ smeta'.val = smeta.val
  BY <1>1 DEF SInd
<1> QED
  BY <1>1, <1>2 DEF SInd

LEMMA QuickKeeps ==
    ASSUME SInd, NEW val \in Seq(Byte), NEW ttl \in BOOLEAN, QuickKv(val, ttl)
    PROVE  SInd'
<1> DEFINE v == IF smeta.st = "absent" THEN 0 ELSE smeta.ver + 1
<1>1. v \in 0..MaxSVersion /\ smeta' = [st |-> "live", val |-> val, ver |-> v] /\ sttl' = ttl /\ Len(val) <= MaxLen
  BY StringWidths DEF SInd, QuickKv, SLive
<1> HIDE DEF v
<1>2. smeta' \in [st : {"absent", "live", "dead"}, val : Seq(Byte), ver : 0..MaxSVersion]
  BY <1>1
<1>3. smeta'.st = "live" /\ smeta'.val = val
  BY <1>1
<1> QED
  BY <1>1, <1>2, <1>3 DEF SInd, SFound

LEMMA SetbitIs ==
    ASSUME NEW o, NEW on, Setbit(o, on)
    PROVE  /\ srequest' = <<"setbit", o, on>>
           /\ IF o < 0 \/ At(o) >= MaxLen THEN SReply(ErrorReply)
              ELSE UpdateKv(BitSet(KvValue, o, on),
                            SAnswer(HasBit(GrownTo(KvValue, At(o))[At(o) + 1], BitPos(o))))
BY Zenon DEF Setbit, BitSet, GrownTo, At

LEMMA StringArgs == /\ \A s \in Strings : s \in Seq(Byte)
                    /\ IncrArgs \subseteq Int
                    /\ \A x \in FloatArgs : x \in Int
<1>1. Infinity \in Nat
  BY StringWidths DEF Infinity
<1>2. FloatArgs \subseteq -Infinity..Infinity
  BY StringAssumption
<1> QED
  BY <1>1, <1>2, StringAssumption

LEMMA SInitInd == SInit => SInd
<1>1. <<>> \in Seq(Byte) /\ Len(<<>>) = 0
  OBVIOUS
<1> SUFFICES ASSUME SInit PROVE SInd
  OBVIOUS
<1>2. smeta = [st |-> "absent", val |-> <<>>, ver |-> 0] /\ sttl = FALSE
  BY DEF SInit
<1>3. smeta \in [st : {"absent", "live", "dead"}, val : Seq(Byte), ver : 0..MaxSVersion]
  BY <1>1, <1>2, StringWidths
<1>4. Len(smeta.val) <= MaxLen
  BY <1>1, <1>2, StringWidths
<1> QED
  BY <1>2, <1>3, <1>4 DEF SInd

LEMMA SNextInd == SInd /\ [SNext]_svars => SInd'
<1> SUFFICES ASSUME SInd, [SNext]_svars PROVE SInd'
  OBVIOUS
<1>0. KvValue \in Seq(Byte) /\ smeta.val \in Seq(Byte) /\ sttl \in BOOLEAN
  BY ValueType DEF SInd
<1>1. ASSUME NEW fs \in SUBSET {"nx", "xx", "ex", "px"}, NEW s \in Strings, NEW t \in {0, 1}, ProcSet(fs, s, t)
      PROVE  SInd'
  <2>1. s \in Seq(Byte) /\ (fs \cap {"ex", "px"} # {}) \in BOOLEAN
    BY StringArgs
  <2>2. SReply(ErrorReply) \/ SReply(NilReply) \/ PutKvVal(s, fs \cap {"ex", "px"} # {}, Ok)
    BY <1>1, Zenon DEF ProcSet, SetGeneric
  <2> QED
    BY <2>1, <2>2, ReplyKeeps, PutKeeps, Zenon
<1>2. ASSUME NEW s \in Strings, Getset(s) PROVE SInd'
  <2>1. s \in Seq(Byte) /\ (IF SFound THEN FALSE ELSE sttl) \in BOOLEAN
    BY <1>0, StringArgs
  <2> QED
    BY <1>2, <2>1, PutKeeps, Zenon DEF Getset
<1>3. ASSUME NEW s \in Strings, SAppend(s) PROVE SInd'
  <2>1. KvValue \o s \in Seq(Byte)
    BY <1>0, StringArgs, Concatenated
  <2> QED
    BY <1>3, <2>1, UpdateKeeps, Zenon DEF SAppend
<1>4. ASSUME NEW i \in -1..MaxLen, NEW s \in Strings, Setrange(i, s) PROVE SInd'
  <2>1. i < 0 \/ i \in Nat
    BY StringWidths
  <2>2. i \in Nat => RangeSet(KvValue, i, s) \in Seq(Byte)
    BY <1>0, StringArgs, RangeSetIs DEF RangeIs
  <2>3. \/ \E x : SReply(x)
        \/ ~(i < 0) /\ UpdateKv(RangeSet(KvValue, i, s), SAnswer(Len(RangeSet(KvValue, i, s))))
    BY <1>4, Zenon DEF Setrange
  <2> QED
    BY <2>1, <2>2, <2>3, ReplyKeeps, UpdateKeeps, Zenon
<1>5. ASSUME NEW o \in Offsets, NEW on \in {0, 1}, Setbit(o, on) PROVE SInd'
  <2>1. o < 0 \/ o \in Nat
    BY StringWidths DEF Offsets
  <2>2. o \in Nat => BitSet(KvValue, o, on) \in Seq(Byte)
    BY <1>0, BitSetIs DEF OnlyBit
  <2>3. \/ SReply(ErrorReply)
        \/ ~(o < 0) /\ \E x : UpdateKv(BitSet(KvValue, o, on), x)
    BY <1>5, SetbitIs, Zenon
  <2> QED
    BY <2>1, <2>2, <2>3, ReplyKeeps, UpdateKeeps, Zenon
<1>6. ASSUME NEW dir \in {1, -1}, NEW n \in IncrArgs, ProcIncr(dir, n) PROVE SInd'
  <2> DEFINE by == Wrap(dir * StrToInt64(n))
             old == String2ll(smeta.val)
  <2>1. by \in Int
    <3>1. n \in Int
      BY StringArgs
    <3>2. by = Taken(dir, n) /\ Taken(dir, n) \in IntMin..IntMax
      BY <3>1, IncrementIs, Zenon
    <3>3. IntMin \in Int /\ IntMax \in Int
      BY IntRange
    <3> QED
      BY <3>2, <3>3
  <2>2. Incr(by)
    BY <1>6 DEF ProcIncr
  <2> HIDE DEF by
  <2>3. CASE ~SFound
    <3>1. UpdateKv(Str(by), SAnswer(by))
      BY <2>2, <2>3, Zenon DEF Incr
    <3> QED
      BY <2>1, <3>1, StrType, UpdateKeeps, Zenon
  <2>4. CASE SFound /\ IsLl(smeta.val)
    <3>1. old \in Int
      BY <1>0, <2>4, String2llType
    <3> HIDE DEF old
    <3>2. old + by \in Int
      BY <2>1, <3>1
    <3>3. SReply(ErrorReply) \/ UpdateKv(Str(old + by), SAnswer(old + by))
      BY <2>2, <2>4, Zenon DEF Incr, old
    <3> QED
      BY <3>2, <3>3, StrType, ReplyKeeps, UpdateKeeps, Zenon
  <2>5. CASE SFound /\ ~IsLl(smeta.val)
    BY <2>2, <2>5, ReplyKeeps, Zenon DEF Incr
  <2> QED
    BY <2>3, <2>4, <2>5
<1>7. ASSUME NEW x \in FloatArgs, Incrbyfloat(x) PROVE SInd'
  <2> DEFINE old == StrToLongDouble(smeta.val)
  <2>1. x \in Int /\ Infinity \in Int /\ LdMax \in Int
    BY StringArgs, StringWidths DEF Infinity
  <2>2. CASE ~SFound
    <3>1. UpdateKv(StrLd(x), SAnswer(x))
      BY <1>7, <2>2, Zenon DEF Incrbyfloat
    <3> QED
      BY <2>1, <3>1, StrLdType, UpdateKeeps, Zenon
  <2>3. CASE SFound /\ ~LdError(smeta.val)
    <3>1. old \in Int
      BY <1>0, <2>3, LongDoubleType
    <3> HIDE DEF old
    <3>2. LdSum(old, x) \in Int
      BY <2>1, <3>1 DEF LdSum
    <3>3. SReply(ErrorReply) \/ UpdateKv(StrLd(LdSum(old, x)), SAnswer(LdSum(old, x)))
      BY <1>7, <2>3, Zenon DEF Incrbyfloat, old
    <3> QED
      BY <3>2, <3>3, StrLdType, ReplyKeeps, UpdateKeeps, Zenon
  <2>4. CASE SFound /\ LdError(smeta.val)
    BY <1>7, <2>4, ReplyKeeps, Zenon DEF Incrbyfloat
  <2> QED
    BY <2>2, <2>3, <2>4
<1>8. ASSUME NEW s \in Strings, NEW ttl \in BOOLEAN, NEW r \in BOOLEAN, SRestore(s, ttl, r) PROVE SInd'
  <2>1. s \in Seq(Byte)
    BY StringArgs
  <2>2. SReply(ErrorReply) \/ QuickKv(s, ttl) \/ SKill(ErrorReply)
    BY <1>8, Zenon DEF SRestore
  <2> QED
    BY <2>1, <2>2, ReplyKeeps, QuickKeeps, KillKeeps, Zenon
<1>9. ASSUME SDel PROVE SInd'
  BY <1>9, ReplyKeeps, KillKeeps, Zenon DEF SDel
<1>10. ASSUME UNCHANGED svars PROVE SInd'
  BY <1>10 DEF svars, SInd, SFound
<1> QED
  BY <1>1, <1>2, <1>3, <1>4, <1>5, <1>6, <1>7, <1>8, <1>9, <1>10, Zenon DEF SNext

LEMMA SIndHolds == SSpec => []SInd
<1> QED
  BY SInitInd, SNextInd, PTL DEF SSpec

\* Every command leaves a string of bytes that fits: what SETBIT adds to a byte
\* stays in it, what INCR and INCRBYFLOAT write are bytes (STypeOK).
THEOREM StringsHaveType == SSpec => []STypeOK
<1>1. SInd => STypeOK
  BY DEF SInd, STypeOK
<1> QED
  BY <1>1, SIndHolds, PTL

----------------------------------------------------------------------------
(* The commands as steps of StringAbs *)

LEMMA SamePower == ASSUME NEW b, NEW w PROVE IsAString!Power(b, w) = Power(b, w)
BY DEF IsAString!Power, Power

LEMMA SameValueOf == ASSUME NEW b, NEW s PROVE IsAString!ValueOf(b, s) = ValueOf(b, s)
BY DEF IsAString!ValueOf, ValueOf

LEMMA SameBits ==
    /\ IsAString!Bytes = Byte
    /\ \A s, i : IsAString!ByteAt(s, i) = ByteOf(s, i) /\ IsAString!BitAt(s, i) = BitOf(s, i)
<1>1. IsAString!Bytes = Byte
  BY SamePower DEF IsAString!Bytes, Byte
<1>2. ASSUME NEW s, NEW i PROVE IsAString!ByteAt(s, i) = ByteOf(s, i)
  BY DEF IsAString!ByteAt, ByteOf
<1>3. ASSUME NEW s, NEW i PROVE IsAString!BitAt(s, i) = BitOf(s, i)
  BY <1>2, SamePower, Zenon DEF IsAString!BitAt, BitOf, HasBit, At, BitPos
<1> QED
  BY <1>1, <1>2, <1>3

LEMMA SameNumbers ==
    ASSUME NEW s
    PROVE  /\ IsAString!IsNumeral(s) <=> AllDigits(Unsigned(s)) /\ (Unsigned(s)[1] = 2 \/ s = <<1>>)
           /\ AllDigits(Unsigned(s)) => IsAString!NumberIn(s) = Signed(s, Natural(Unsigned(s)))
<1>1. IsAString!Digits(s) = Unsigned(s)
  BY DEF IsAString!Digits, Unsigned
<1>2. IsAString!IsNumeral(s) <=> AllDigits(Unsigned(s)) /\ (Unsigned(s)[1] = 2 \/ s = <<1>>)
  BY <1>1, Zenon DEF IsAString!IsNumeral, AllDigits
<1>3. ASSUME AllDigits(Unsigned(s)) PROVE s # <<>>
  BY <1>3, Zenon DEF AllDigits, Unsigned
<1>4. IsAString!NumberIn(s) = IF s[1] = 3 THEN -Natural(Unsigned(s)) ELSE Natural(Unsigned(s))
  BY <1>1, SameValueOf, Zenon DEF IsAString!NumberIn, Natural
<1> QED
  BY <1>2, <1>3, <1>4, Zenon DEF Signed

LEMMA SameRange ==
    /\ IsAString!Least = IntMin /\ IsAString!Greatest = IntMax
    /\ \A n \in Int : IsAString!IsInt(n) <=> n \in IntMin..IntMax
    /\ \A dir, n : IsAString!Counts(dir, n) = Taken(dir, n)
<1>1. IsAString!Least = IntMin /\ IsAString!Greatest = IntMax
  <2>1. Power(2, IntBits - 1) = IntMax + 1 /\ IntMin = -IntMax - 1 /\ IntMax \in Nat
    BY IntRange
  <2>2. IsAString!Least = -Power(2, IntBits - 1) /\ IsAString!Greatest = Power(2, IntBits - 1) - 1
    BY SamePower, Zenon DEF IsAString!Least, IsAString!Greatest
  <2> QED
    BY <2>1, <2>2
<1>2. ASSUME NEW n \in Int PROVE IsAString!IsInt(n) <=> n \in IntMin..IntMax
  BY <1>1, IntRange DEF IsAString!IsInt
<1>3. ASSUME NEW dir, NEW n PROVE IsAString!Counts(dir, n) = Taken(dir, n)
  BY <1>1, Zenon DEF IsAString!Counts, Taken
<1> QED
  BY <1>1, <1>2, <1>3

LEMMA SameReplies ==
    /\ IsAString!Nothing = NilReply /\ IsAString!Failed = ErrorReply /\ IsAString!Done = Ok
    /\ \A x : IsAString!Answer(x) = SAnswer(x)
BY DEF IsAString!Nothing, NilReply, IsAString!Failed, ErrorReply, IsAString!Done, Ok, IsAString!Answer, SAnswer

LEMMA SameString ==
    ASSUME SInd
    PROVE  /\ IsAString!There <=> SFound
           /\ IsAString!Old = KvValue
           /\ SFound => Kept = smeta.val /\ KvValue = smeta.val
           /\ ~SFound => Kept = NoString /\ KvValue = <<>> /\ sttl = FALSE
<1>1. smeta.val # NoString
  BY StringAssumption DEF SInd
<1>2. IsAString!There <=> SFound
  BY <1>1 DEF IsAString!There, Kept
<1> QED
  BY <1>1, <1>2 DEF IsAString!Old, Kept, KvValue, SInd

LEMMA ReplyStep == ASSUME NEW x, SReply(x) PROVE Kept' = Kept /\ sttl' = sttl /\ sout' = x
BY DEF SReply, Kept, SFound

LEMMA PutStep == ASSUME NEW val, NEW ttl, NEW x, PutKvVal(val, ttl, x)
                 PROVE  Kept' = val /\ sttl' = ttl /\ sout' = x
<1>1. smeta' = [st |-> "live", val |-> val, ver |-> KvVersion] /\ sttl' = ttl /\ sout' = x
  BY DEF PutKvVal, SLive
<1> QED
  BY <1>1 DEF Kept, SFound

LEMMA UpdateStep == ASSUME NEW val, NEW x, UpdateKv(val, x)
                    PROVE  Kept' = val /\ sttl' = sttl /\ sout' = x
BY PutStep DEF UpdateKv

LEMMA KillStep == ASSUME SInd, NEW x, SKill(x) PROVE Kept' = NoString /\ sttl' = FALSE /\ sout' = x
<1>1. smeta' = [smeta EXCEPT !.st = "dead"] /\ sttl' = FALSE /\ sout' = x
  BY DEF SKill, SDead
<1>2. smeta'.st = "dead"
  BY <1>1 DEF SInd
<1> QED
  BY <1>1, <1>2 DEF Kept, SFound

LEMMA QuickStep == ASSUME NEW val, NEW ttl, QuickKv(val, ttl)
                   PROVE  Kept' = val /\ sttl' = ttl /\ sout' = Ok
<1> DEFINE v == IF smeta.st = "absent" THEN 0 ELSE smeta.ver + 1
<1>1. smeta' = [st |-> "live", val |-> val, ver |-> v] /\ sttl' = ttl /\ sout' = Ok
  BY DEF QuickKv, SLive
<1> HIDE DEF v
<1> QED
  BY <1>1 DEF Kept, SFound

LEMMA RefuseStep == ASSUME SReply(ErrorReply) PROVE IsAString!Refuse
<1>1. Kept' = Kept /\ sttl' = sttl /\ sout' = ErrorReply
  BY ReplyStep
<1> QED
  BY <1>1, SameReplies DEF IsAString!Refuse

LEMMA SetRefines ==
    ASSUME SInd, NEW fs, NEW s, NEW t, ProcSet(fs, s, t)
    PROVE  IsAString!Next
<1>1. srequest' = <<"set", fs, s, t>>
  BY DEF ProcSet
<1>2. srequest'[1] = "set" /\ srequest'[2] = fs /\ srequest'[3] = s /\ srequest'[4] = t
  BY <1>1
<1>3. CASE IsAString!BadSet(fs, t)
  <2>1. SReply(ErrorReply)
    BY <1>3, Zenon DEF ProcSet, IsAString!BadSet
  <2> QED
    BY <1>2, <1>3, <2>1, RefuseStep, Zenon DEF IsAString!Next
<1>4. CASE ~IsAString!BadSet(fs, t)
  <2>1. SetGeneric(fs, s)
    BY <1>4, Zenon DEF ProcSet, IsAString!BadSet
  <2>2. IsAString!Set(fs, s)
    <3>1. CASE (SFound /\ "nx" \in fs) \/ (~SFound /\ "xx" \in fs)
      <4>1. SReply(NilReply)
        BY <2>1, <3>1, Zenon DEF SetGeneric
      <4>2. Kept' = Kept /\ sttl' = sttl /\ sout' = IsAString!Nothing
        BY <4>1, ReplyStep, SameReplies
      <4> QED
        BY <3>1, <4>2, SameString DEF IsAString!Set
    <3>2. CASE ~((SFound /\ "nx" \in fs) \/ (~SFound /\ "xx" \in fs))
      <4>1. PutKvVal(s, fs \cap {"ex", "px"} # {}, Ok)
        BY <2>1, <3>2, Zenon DEF SetGeneric
      <4>2. Kept' = s /\ sttl' = (fs \cap {"ex", "px"} # {}) /\ sout' = IsAString!Done
        BY <4>1, PutStep, SameReplies, Zenon
      <4> QED
        BY <3>2, <4>2, SameString, Zenon DEF IsAString!Set
    <3> QED
      BY <3>1, <3>2
  <2> QED
    BY <1>2, <1>4, <2>2, Zenon DEF IsAString!Next
<1> QED
  BY <1>3, <1>4

LEMMA GetsetRefines ==
    ASSUME SInd, NEW s, Getset(s)
    PROVE  IsAString!Next
<1>1. srequest' = <<"getset", s>>
  BY DEF Getset
<1>2. srequest'[1] = "getset" /\ srequest'[2] = s
  BY <1>1
<1>3. /\ Kept' = s /\ sttl' = (IF SFound THEN FALSE ELSE sttl)
      /\ sout' = IF SFound THEN SAnswer(smeta.val) ELSE NilReply
  BY PutStep, Zenon DEF Getset
<1>4. sttl' = FALSE
  BY <1>3, SameString
<1>5. IsAString!Getset(s)
  BY <1>3, <1>4, SameString, SameReplies, Zenon DEF IsAString!Getset
<1> QED
  BY <1>2, <1>5, Zenon DEF IsAString!Next

LEMMA AppendRefines ==
    ASSUME SInd, NEW s, SAppend(s)
    PROVE  IsAString!Next
<1>1. srequest' = <<"append", s>>
  BY DEF SAppend
<1>2. srequest'[1] = "append" /\ srequest'[2] = s
  BY <1>1
<1>3. Kept' = KvValue \o s /\ sttl' = sttl /\ sout' = SAnswer(Len(KvValue \o s))
  BY UpdateStep, Zenon DEF SAppend
<1>4. IsAString!Concat(s)
  BY <1>3, SameString, SameReplies, Zenon DEF IsAString!Concat, IsAString!Keep
<1> QED
  BY <1>2, <1>4, Zenon DEF IsAString!Next

LEMMA RestoreRefines ==
    ASSUME SInd, NEW s, NEW ttl, NEW r, SRestore(s, ttl, r)
    PROVE  IsAString!Next
<1>1. srequest' = <<"restore", s, ttl>>
  BY DEF SRestore
<1>2. srequest'[1] = "restore" /\ srequest'[2] = s /\ srequest'[3] = ttl
  BY <1>1
<1>3. CASE QuickKv(s, ttl)
  <2>1. Kept' = s /\ sttl' = ttl /\ sout' = IsAString!Done
    BY <1>3, QuickStep, SameReplies
  <2>2. IsAString!Restore(s, ttl)
    BY <2>1, Zenon DEF IsAString!Restore
  <2> QED
    BY <1>2, <2>2, Zenon DEF IsAString!Next
<1>4. CASE SReply(ErrorReply)
  <2>1. Kept' = Kept /\ sttl' = sttl /\ sout' = IsAString!Failed
    BY <1>4, ReplyStep, SameReplies
  <2>2. IsAString!Restore(s, ttl)
    BY <2>1, Zenon DEF IsAString!Restore, IsAString!Keep
  <2> QED
    BY <1>2, <2>2, Zenon DEF IsAString!Next
<1>5. CASE SKill(ErrorReply) /\ SFound
  <2>1. Kept' = NoString /\ sttl' = FALSE /\ sout' = IsAString!Failed
    BY <1>5, KillStep, SameReplies
  <2>2. Kept # NoString
    BY <1>5, SameString DEF IsAString!There
  <2>3. IsAString!Restore(s, ttl)
    BY <2>1, <2>2, Zenon DEF IsAString!Restore, IsAString!Keep
  <2> QED
    BY <1>2, <2>3, Zenon DEF IsAString!Next
<1> QED
  BY <1>3, <1>4, <1>5, Zenon DEF SRestore

LEMMA DelRefines == ASSUME SInd, SDel PROVE IsAString!Next
<1>1. srequest' = <<"del">>
  BY DEF SDel
<1>2. srequest'[1] = "del"
  BY <1>1
<1>3. Kept' = NoString /\ sttl' = FALSE /\ sout' = SAnswer(IF SFound THEN 1 ELSE 0)
  <2>1. CASE SFound
    BY <2>1, KillStep, Zenon DEF SDel
  <2>2. CASE ~SFound
    BY <2>2, ReplyStep, SameString, Zenon DEF SDel
  <2> QED
    BY <2>1, <2>2
<1>4. IsAString!Delete
  BY <1>3, SameString, SameReplies, Zenon DEF IsAString!Delete
<1> QED
  BY <1>2, <1>4, Zenon DEF IsAString!Next

LEMMA SetrangeRefines ==
    ASSUME SInd, NEW start \in Int, NEW s \in Seq(Byte), Setrange(start, s)
    PROVE  IsAString!Next
<1>1. srequest' = <<"setrange", start, s>>
  BY DEF Setrange
<1>2. srequest'[1] = "setrange" /\ srequest'[2] = start /\ srequest'[3] = s
  BY <1>1
<1>3. CASE start < 0
  <2>1. SReply(ErrorReply)
    BY <1>3, Zenon DEF Setrange
  <2> QED
    BY <1>2, <1>3, <2>1, RefuseStep, Zenon DEF IsAString!Next
<1>4. CASE ~(start < 0) /\ ~SFound /\ s = <<>>
  <2>1. SReply(SAnswer(0))
    BY <1>4, Zenon DEF Setrange
  <2>2. Kept' = Kept /\ sttl' = sttl /\ sout' = IsAString!Answer(0)
    BY <2>1, ReplyStep, SameReplies
  <2>3. IsAString!Setrange(start, s)
    BY <1>4, <2>2, SameString, Zenon DEF IsAString!Setrange
  <2> QED
    BY <1>2, <1>4, <2>3, Zenon DEF IsAString!Next
<1>5. CASE ~(start < 0) /\ ~(~SFound /\ s = <<>>) /\ start + Len(s) > MaxSize
  <2>1. SReply(ErrorReply)
    BY <1>5, Zenon DEF Setrange
  <2>2. IsAString!Setrange(start, s)
    BY <1>5, <2>1, RefuseStep, SameString, Zenon DEF IsAString!Setrange
  <2> QED
    BY <1>2, <1>5, <2>2, Zenon DEF IsAString!Next
<1>6. CASE ~(start < 0) /\ ~(~SFound /\ s = <<>>) /\ ~(start + Len(s) > MaxSize)
  <2> DEFINE r == RangeSet(KvValue, start, s)
             v == KvValue
  <2>1. UpdateKv(r, SAnswer(Len(r)))
    BY <1>6, Zenon DEF Setrange
  <2>2. Kept' = r /\ sttl' = sttl /\ sout' = IsAString!Answer(Len(r))
    BY <2>1, UpdateStep, SameReplies
  <2>3. start \in Nat
    BY <1>6
  <2>4. RangeIs(v, start, s, r)
    BY <2>3, ValueType, RangeSetIs
  <2> HIDE DEF r
  <2>5. r \in Seq(IsAString!Bytes)
    BY <2>4, SameBits, Zenon DEF RangeIs
  <2>6. Len(r) = IF start + Len(s) > Len(v) THEN start + Len(s) ELSE Len(v)
    BY <2>4 DEF RangeIs
  <2>7. ASSUME NEW i \in 0..(Len(r) - 1)
        PROVE  IsAString!ByteAt(r, i) = IF start <= i /\ i < start + Len(s)
                                        THEN IsAString!ByteAt(s, i - start) ELSE IsAString!ByteAt(v, i)
    <3>1. r[i + 1] = IF start <= i /\ i < start + Len(s) THEN s[i - start + 1] ELSE ByteOf(v, i)
      BY <2>4 DEF RangeIs
    <3>2. Len(r) \in Nat
      BY <2>4 DEF RangeIs
    <3>3. ByteOf(r, i) = r[i + 1]
      BY <3>2 DEF ByteOf
    <3>4. start <= i /\ i < start + Len(s) => ByteOf(s, i - start) = s[i - start + 1]
      BY <2>3, <3>2 DEF ByteOf
    <3> QED
      BY <3>1, <3>3, <3>4, SameBits, Zenon
  <2>8. IsAString!Setrange(start, s)
    <3>1. IsAString!Old = v
      BY SameString
    <3> HIDE DEF v
    <3> QED
      BY <1>6, <2>2, <2>5, <2>6, <2>7, <3>1, SameString, Zenon DEF IsAString!Setrange, IsAString!Keep
  <2> QED
    BY <1>2, <1>6, <2>8, Zenon DEF IsAString!Next
<1> QED
  BY <1>3, <1>4, <1>5, <1>6

LEMMA SetbitRefines ==
    ASSUME SInd, NEW o \in Int, NEW on \in {0, 1}, Setbit(o, on)
    PROVE  IsAString!Next
<1>1. /\ srequest' = <<"setbit", o, on>>
      /\ IF o < 0 \/ At(o) >= MaxLen THEN SReply(ErrorReply)
         ELSE UpdateKv(BitSet(KvValue, o, on),
                       SAnswer(HasBit(GrownTo(KvValue, At(o))[At(o) + 1], BitPos(o))))
  BY SetbitIs
<1>2. srequest'[1] = "setbit" /\ srequest'[2] = o /\ srequest'[3] = on
  BY <1>1
<1>3. ~(o < 0) => ((At(o) >= MaxLen) <=> (o >= MaxLen * ByteBits))
  <2> SUFFICES ASSUME ~(o < 0) PROVE (At(o) >= MaxLen) <=> (o >= MaxLen * ByteBits)
    OBVIOUS
  <2>1. o \in Nat
    OBVIOUS
  <2>2. (At(o) < MaxLen) <=> (o < MaxLen * ByteBits)
    BY <2>1, StringWidths, BitInString
  <2>3. At(o) \in Nat /\ MaxLen * ByteBits \in Nat
    BY <2>1, StringWidths, BitPlace
  <2> QED
    BY <2>1, <2>2, <2>3, StringWidths
<1>4. CASE o < 0 \/ At(o) >= MaxLen
  <2>1. o < 0 \/ o >= MaxLen * ByteBits
    BY <1>3, <1>4
  <2>2. SReply(ErrorReply)
    BY <1>1, <1>4, Zenon
  <2> QED
    BY <1>2, <2>1, <2>2, RefuseStep, Zenon DEF IsAString!Next
<1>5. CASE ~(o < 0 \/ At(o) >= MaxLen)
  <2> DEFINE r == BitSet(KvValue, o, on)
             v == KvValue
  <2>1. ~(o < 0 \/ o >= MaxLen * ByteBits) /\ o \in Nat
    BY <1>3, <1>5
  <2>2. v \in Seq(Byte)
    BY ValueType
  <2>3. OnlyBit(v, o, on, r) /\ HasBit(GrownTo(v, At(o))[At(o) + 1], BitPos(o)) = BitOf(v, o)
    BY <2>1, <2>2, BitSetIs
  <2>4. UpdateKv(r, SAnswer(BitOf(v, o)))
    BY <1>1, <1>5, <2>3, Zenon
  <2> HIDE DEF r
  <2>5. Kept' = r /\ sttl' = sttl /\ sout' = IsAString!Answer(IsAString!BitAt(v, o))
    BY <2>4, UpdateStep, SameReplies, SameBits, Zenon
  <2>6. /\ r \in Seq(IsAString!Bytes)
        /\ Len(r) = IF o < Len(v) * ByteBits THEN Len(v) ELSE o \div ByteBits + 1
        /\ \A i \in 0..(Len(r) * ByteBits - 1) :
              IsAString!BitAt(r, i) = IF i = o THEN on ELSE IsAString!BitAt(v, i)
    BY <2>3, SameBits, Zenon DEF OnlyBit, At
  <2>7. IsAString!Setbit(o, on)
    <3>1. IsAString!Old = v
      BY SameString
    <3> HIDE DEF v
    <3> QED
      BY <2>5, <2>6, <3>1, Zenon DEF IsAString!Setbit, IsAString!Keep
  <2> QED
    BY <1>2, <2>1, <2>7, Zenon DEF IsAString!Next
<1> QED
  BY <1>4, <1>5

\* The test before the sum says whether the sum is an integer.
LEMMA OverflowIs ==
    ASSUME NEW old \in IntMin..IntMax, NEW by \in IntMin..IntMax
    PROVE  IncrOverflows(old, by) <=> old + by \notin IntMin..IntMax
<1>1. IntMax \in Nat /\ IntMin = -IntMax - 1
  BY IntRange
<1> QED
  BY <1>1 DEF IncrOverflows

LEMMA IncrRefines ==
    ASSUME SInd, NEW dir \in {1, -1}, NEW n \in Int, ProcIncr(dir, n)
    PROVE  IsAString!Next
<1> DEFINE by == Taken(dir, n)
           s == smeta.val
           old == String2ll(s)
<1>1. srequest' = <<"incr", dir, n>>
  BY DEF ProcIncr
<1>2. srequest'[1] = "incr" /\ srequest'[2] = dir /\ srequest'[3] = n
  BY <1>1
<1>3. Incr(by) /\ by \in IntMin..IntMax /\ by = IsAString!Counts(dir, n)
  BY IncrementIs, SameRange, Zenon DEF ProcIncr
<1> HIDE DEF by
<1>4. by \in Int /\ IntMin \in Int /\ IntMax \in Int
  BY <1>3, IntRange
<1> SUFFICES IsAString!Incr(by)
  BY <1>2, <1>3, Zenon DEF IsAString!Next
<1>5. ASSUME NEW m \in Int
      PROVE  IsAString!IsNumeral(Str(m)) /\ IsAString!NumberIn(Str(m)) = m
  BY StrReads, SameNumbers, Zenon DEF ReadsAsNumber
<1>6. CASE ~SFound
  <2>1. UpdateKv(Str(by), SAnswer(by))
    BY <1>3, <1>6, Zenon DEF Incr
  <2>2. Kept' = Str(by) /\ sttl' = sttl /\ sout' = IsAString!Answer(by)
    BY <2>1, UpdateStep, SameReplies
  <2>3. 0 + by = by /\ IsAString!IsInt(by) /\ ~IsAString!There
    BY <1>3, <1>4, <1>6, SameRange, SameString
  <2> QED
    BY <1>4, <1>5, <2>2, <2>3, Zenon DEF IsAString!Incr, IsAString!Keep
<1>7. CASE SFound
  <2>0. s \in Seq(Byte) /\ IsAString!There /\ Kept = s
    BY <1>7, SameString DEF SInd
  <2>1. IsLl(s) <=> IsAString!IsNumeral(s) /\ IsAString!IsInt(IsAString!NumberIn(s))
    <3>1. CASE AllDigits(Unsigned(s))
      <4>1. Natural(Unsigned(s)) \in Nat
        BY <2>0, <3>1, UnsignedType, NaturalType
      <4>2. IsAString!NumberIn(s) = Signed(s, Natural(Unsigned(s)))
        BY <3>1, SameNumbers
      <4>3. Signed(s, Natural(Unsigned(s))) \in Int
        BY <4>1 DEF Signed
      <4>4. IsAString!IsInt(IsAString!NumberIn(s)) <=> Signed(s, Natural(Unsigned(s))) \in IntMin..IntMax
        BY <4>2, <4>3, SameRange, Zenon
      <4>5. IsAString!IsNumeral(s) <=> (Unsigned(s)[1] = 2 \/ s = <<1>>)
        BY <3>1, SameNumbers, Zenon
      <4> QED
        BY <3>1, <4>4, <4>5, Zenon DEF IsLl
    <3>2. CASE ~AllDigits(Unsigned(s))
      BY <3>2, SameNumbers, Zenon DEF IsLl
    <3> QED
      BY <3>1, <3>2
  <2>2. CASE ~IsLl(s)
    <3>1. SReply(ErrorReply)
      BY <1>3, <1>7, <2>2, Zenon DEF Incr
    <3> QED
      BY <2>0, <2>1, <2>2, <3>1, RefuseStep, Zenon DEF IsAString!Incr
  <2>3. CASE IsLl(s)
    <3>1. old \in IntMin..IntMax /\ old = IsAString!NumberIn(s)
      BY <2>3, SameNumbers, Zenon DEF IsLl, String2ll
    <3>2. IF IncrOverflows(old, by) THEN SReply(ErrorReply) ELSE UpdateKv(Str(old + by), SAnswer(old + by))
      <4>1. IF ~IsLl(s) \/ IncrOverflows(old, by) THEN SReply(ErrorReply)
            ELSE UpdateKv(Str(old + by), SAnswer(old + by))
        <5> HIDE DEF IncrOverflows, IsLl, UpdateKv, SReply
        <5> QED
          BY <1>3, <1>7 DEF Incr
      <4> QED
        BY <2>3, <4>1, Zenon
    <3> HIDE DEF old
    <3>3. old \in Int /\ old + by \in Int
      BY <1>4, <3>1
    <3>4. IncrOverflows(old, by) <=> ~IsAString!IsInt(old + by)
      BY <1>3, <3>1, <3>3, OverflowIs, SameRange, Zenon
    <3>5. CASE IncrOverflows(old, by)
      <4>1. SReply(ErrorReply)
        BY <3>2, <3>5
      <4> QED
        BY <2>0, <3>1, <3>4, <3>5, <4>1, RefuseStep, Zenon DEF IsAString!Incr
    <3>6. CASE ~IncrOverflows(old, by)
      <4>1. Kept' = Str(old + by) /\ sttl' = sttl /\ sout' = IsAString!Answer(old + by)
        BY <3>2, <3>6, UpdateStep, SameReplies, Zenon
      <4>2. IsAString!IsNumeral(Kept') /\ IsAString!NumberIn(Kept') = old + by
        BY <1>5, <3>3, <4>1, Zenon
      <4> QED
        BY <2>0, <2>1, <2>3, <3>1, <3>4, <3>6, <4>1, <4>2, Zenon DEF IsAString!Incr, IsAString!Keep
    <3> QED
      BY <3>5, <3>6
  <2> QED
    BY <2>2, <2>3
<1> QED
  BY <1>6, <1>7

LEMMA FloatRefines == ASSUME SInd, NEW x, Incrbyfloat(x) PROVE IsAString!Next
<1>1. srequest' = <<"incrbyfloat", x>>
  BY DEF Incrbyfloat
<1>2. srequest'[1] = "incrbyfloat"
  BY <1>1
<1>3. (\E y : SReply(y)) \/ (\E val, y : UpdateKv(val, y))
  BY Zenon DEF Incrbyfloat
<1>4. sttl' = sttl
  BY <1>3, ReplyStep, UpdateStep, Zenon
<1> QED
  BY <1>2, <1>4, Zenon DEF IsAString!Next, IsAString!Keep

\* A META record that holds bytes implements a string: SET, GETSET, APPEND,
\* SETRANGE, SETBIT, INCR and DECR, RESTORE and DEL leave, bit by bit and byte by
\* byte, what StringAbs promises, and answer so, for bytes and integers of any
\* width and any strings and increments.
THEOREM ImplementsAString == SSpec => BehavesAsAString
<1>1. SInit => IsAString!Init
  <2> SUFFICES ASSUME SInit PROVE IsAString!Init
    OBVIOUS
  <2>1. Kept = NoString
    BY DEF SInit, Kept, SFound
  <2> QED
    BY <2>1, SameReplies DEF SInit, IsAString!Init
<1>2. SInd /\ [SNext]_svars => [IsAString!Next]_<<Kept, sttl, srequest, sout>>
  <2> SUFFICES ASSUME SInd, [SNext]_svars
               PROVE  IsAString!Next \/ UNCHANGED <<Kept, sttl, srequest, sout>>
    OBVIOUS
  <2>1. ASSUME NEW fs, NEW s \in Strings, NEW t, ProcSet(fs, s, t) PROVE IsAString!Next
    BY <2>1, SetRefines
  <2>2. ASSUME NEW s \in Strings, Getset(s) \/ SAppend(s) PROVE IsAString!Next
    BY <2>2, GetsetRefines, AppendRefines
  <2>3. ASSUME NEW i \in -1..MaxLen, NEW s \in Strings, Setrange(i, s) PROVE IsAString!Next
    <3>1. i \in Int /\ s \in Seq(Byte)
      BY StringArgs
    <3> QED
      BY <2>3, <3>1, SetrangeRefines
  <2>4. ASSUME NEW o \in Offsets, NEW on \in {0, 1}, Setbit(o, on) PROVE IsAString!Next
    <3>1. o \in Int
      BY DEF Offsets
    <3> QED
      BY <2>4, <3>1, SetbitRefines
  <2>5. ASSUME NEW dir \in {1, -1}, NEW n \in IncrArgs, ProcIncr(dir, n) PROVE IsAString!Next
    <3>1. n \in Int
      BY StringArgs
    <3> QED
      BY <2>5, <3>1, IncrRefines
  <2>6. ASSUME NEW x, Incrbyfloat(x) PROVE IsAString!Next
    BY <2>6, FloatRefines
  <2>7. ASSUME NEW s, NEW ttl, NEW r, SRestore(s, ttl, r) PROVE IsAString!Next
    BY <2>7, RestoreRefines
  <2>8. CASE SDel
    BY <2>8, DelRefines
  <2>9. CASE UNCHANGED svars
    BY <2>9 DEF svars, Kept, SFound
  <2> QED
    BY <2>1, <2>2, <2>3, <2>4, <2>5, <2>6, <2>7, <2>8, <2>9, Zenon DEF SNext
<1> QED
  BY <1>1, <1>2, SIndHolds, PTL DEF SSpec, BehavesAsAString, IsAString!Spec

----------------------------------------------------------------------------
(* The commands that read *)

LEMMA GetbitIs == ASSUME NEW o PROVE Getbit(o) = IF At(o) >= Len(KvValue) THEN 0 ELSE HasBit(KvValue[At(o) + 1], BitPos(o))
BY DEF Getbit, At

\* s is the part of v of m bytes from byte lo on.
PartOf(s, v, lo, m) ==
    /\ s \in Seq(Byte) /\ Len(s) = m
    /\ \A i \in 1..m : s[i] = v[lo + i]

LEMMA PartIs ==
    ASSUME NEW v \in Seq(Byte), NEW lo \in Nat, NEW m \in Nat, lo + m <= Len(v)
    PROVE  PartOf(SubSeq(v, lo + 1, lo + m), v, lo, m)
<1>1. /\ SubSeq(v, lo + 1, lo + m) \in Seq(Byte) /\ Len(SubSeq(v, lo + 1, lo + m)) = m
      /\ \A i \in 1..m : SubSeq(v, lo + 1, lo + m)[i] = v[lo + i]
  OBVIOUS
<1> QED
  BY <1>1 DEF PartOf

LEMMA EmptyPart == ASSUME NEW v, NEW lo PROVE PartOf(<<>>, v, lo, 0)
<1>1. <<>> \in Seq(Byte) /\ Len(<<>>) = 0 /\ 1..0 = {}
  OBVIOUS
<1> QED
  BY <1>1 DEF PartOf

LEMMA OffsetOf ==
    ASSUME NEW a \in Nat, NEW j \in 0..(ByteBits - 1)
    PROVE  LET o == a * ByteBits + (ByteBits - 1 - j)
           IN  o \in Nat /\ At(o) = a /\ BitPos(o) = j
<1> DEFINE r == ByteBits - 1 - j
           o == a * ByteBits + r
<1>1. ByteBits \in Nat \ {0} /\ r \in 0..(ByteBits - 1) /\ j \in Int
  BY StringWidths
<1>4. ByteBits - 1 - r = j
  BY StringWidths
<1> HIDE DEF r
<1>2. o \in Nat /\ o \div ByteBits = a /\ o % ByteBits = r
  BY <1>1, DivIs, Zenon
<1> HIDE DEF o
<1>3. At(o) = a /\ BitPos(o) = j
  BY <1>1, <1>2, <1>4 DEF At, BitPos
<1> QED
  BY <1>2, <1>3 DEF o, r

\* The set bits of a part, as places in it and as offsets in the string
BitPairs(s) == {p \in (DOMAIN s) \X (0..(ByteBits - 1)) : HasBit(s[p[1]], p[2]) = 1}
BitOffsets(B) == {o \in 0..(Len(KvValue) * ByteBits - 1) : o \div ByteBits \in B /\ Getbit(o) = 1}

LEMMA PartBits ==
    ASSUME SInd, NEW lo \in Nat, NEW m \in Nat, m = 0 \/ lo + m <= Len(KvValue),
           NEW s, PartOf(s, KvValue, lo, m),
           NEW B, \A a \in 0..(Len(KvValue) - 1) : a \in B <=> lo <= a /\ a < lo + m
    PROVE  Bitcount(s) = Cardinality(BitOffsets(B))
<1> DEFINE v == KvValue
           n == Len(v)
           P == BitPairs(s)
           O == BitOffsets(B)
           f == [o \in O |-> <<At(o) - lo + 1, BitPos(o)>>]
<1>1. v \in Seq(Byte) /\ n \in Nat /\ DOMAIN s = 1..m
  BY ValueType DEF PartOf
<1>2. ASSUME NEW o \in O
      PROVE  /\ o \in Nat /\ At(o) \in Nat /\ BitPos(o) \in 0..(ByteBits - 1)
             /\ At(o) - lo + 1 \in 1..m /\ s[At(o) - lo + 1] = v[At(o) + 1]
             /\ HasBit(v[At(o) + 1], BitPos(o)) = 1
  <2>1. n * ByteBits \in Nat
    BY <1>1, StringWidths
  <2>2. o \in Nat /\ o < n * ByteBits /\ At(o) \in B /\ Getbit(o) = 1
    BY <2>1 DEF BitOffsets, At
  <2>3. At(o) \in Nat /\ BitPos(o) \in 0..(ByteBits - 1)
    BY <2>2, BitPlace, Zenon
  <2>4. At(o) < n
    BY <1>1, <2>2, BitInString
  <2>5. HasBit(v[At(o) + 1], BitPos(o)) = 1
    BY <1>1, <2>2, <2>3, <2>4, GetbitIs
  <2>6. lo <= At(o) /\ At(o) < lo + m
    BY <1>1, <2>2, <2>3, <2>4
  <2>7. At(o) - lo + 1 \in 1..m /\ lo + (At(o) - lo + 1) = At(o) + 1
    BY <2>3, <2>6
  <2>8. s[At(o) - lo + 1] = v[lo + (At(o) - lo + 1)]
    BY <2>7 DEF PartOf
  <2> QED
    BY <2>2, <2>3, <2>5, <2>7, <2>8
<1>3. f \in [O -> P]
  <2>1. ASSUME NEW o \in O PROVE <<At(o) - lo + 1, BitPos(o)>> \in P
    <3>1. At(o) - lo + 1 \in DOMAIN s /\ BitPos(o) \in 0..(ByteBits - 1) /\ HasBit(s[At(o) - lo + 1], BitPos(o)) = 1
      BY <1>1, <1>2, Zenon
    <3> QED
      BY <3>1 DEF BitPairs
  <2> HIDE DEF O, P
  <2> QED
    BY <2>1
<1>4. ASSUME NEW o \in O, NEW i \in O, f[o] = f[i] PROVE o = i
  <2>1. At(o) - lo + 1 = At(i) - lo + 1 /\ BitPos(o) = BitPos(i)
    <3> HIDE DEF O, P
    <3> QED
      BY <1>4
  <2>2. o \in Nat /\ i \in Nat /\ At(o) \in Nat /\ At(i) \in Nat
    BY <1>2
  <2>3. At(o) = At(i)
    BY <2>1, <2>2
  <2> QED
    BY <2>1, <2>2, <2>3, SameBit
<1>5. ASSUME NEW p \in P PROVE \E o \in O : f[o] = p
  <2>1. p[1] \in 1..m /\ p[2] \in 0..(ByteBits - 1) /\ HasBit(s[p[1]], p[2]) = 1 /\ p = <<p[1], p[2]>>
    BY <1>1 DEF BitPairs
  <2> DEFINE a == lo + p[1] - 1
             o == a * ByteBits + (ByteBits - 1 - p[2])
  <2>2. a \in Nat /\ a < n /\ lo <= a /\ a < lo + m /\ a + 1 = lo + p[1] /\ a - lo + 1 = p[1]
    BY <1>1, <2>1
  <2> HIDE DEF a
  <2>3. o \in Nat /\ At(o) = a /\ BitPos(o) = p[2]
    BY <2>1, <2>2, OffsetOf
  <2> HIDE DEF o
  <2>4. o < n * ByteBits
    BY <1>1, <2>2, <2>3, BitInString
  <2>5. a \in B
    BY <1>1, <2>2
  <2>6. s[p[1]] = v[a + 1]
    BY <2>1, <2>2 DEF PartOf
  <2>7. ~(a >= n)
    BY <1>1, <2>2
  <2>8. Getbit(o) = 1
    BY <2>1, <2>3, <2>6, <2>7, GetbitIs
  <2>9. o \in 0..(n * ByteBits - 1)
    <3>1. n * ByteBits \in Nat
      BY <1>1, StringWidths
    <3> QED
      BY <2>3, <2>4, <3>1
  <2>10. o \in O
    BY <2>3, <2>5, <2>8, <2>9 DEF BitOffsets, At
  <2>11. f[o] = <<a - lo + 1, p[2]>>
    <3> HIDE DEF O
    <3> QED
      BY <2>3, <2>10
  <2>12. f[o] = p
    BY <2>1, <2>2, <2>11, Zenon
  <2> HIDE DEF f, O
  <2> QED
    BY <2>10, <2>12
<1>6. IsFiniteSet(O)
  <2>1. n * ByteBits \in Nat
    BY <1>1, StringWidths
  <2>2. IsFiniteSet(0..(n * ByteBits - 1))
    BY <2>1, FS_Interval
  <2>3. O \subseteq 0..(n * ByteBits - 1)
    BY DEF BitOffsets
  <2> HIDE DEF O
  <2> QED
    BY <2>2, <2>3, FS_Subset
<1> HIDE DEF f, O, P
<1>7. f \in Bijection(O, P)
  BY <1>3, <1>4, <1>5, Fun_IsBij, Zenon
<1>9. ExistsBijection(O, P)
  BY <1>7, Zenon DEF ExistsBijection
<1>8. Cardinality(P) = Cardinality(O)
  BY <1>6, <1>9, FS_Bijection, Zenon
<1> QED
  BY <1>8 DEF P, O, Bitcount, BitPairs

LEMMA FromIs ==
    ASSUME NEW v \in Seq(Byte), NEW lo \in Nat, NEW size \in Int
    PROVE  PartOf(From(v, lo, size), v, lo,
                  IF lo >= Len(v) \/ size < 0 THEN 0 ELSE IF lo + size > Len(v) THEN Len(v) - lo ELSE size)
<1> DEFINE n == Len(v)
<1>0. n \in Nat /\ ~(lo < 0)
  OBVIOUS
<1>1. CASE lo >= n \/ size < 0
  <2>1. From(v, lo, size) = <<>>
    BY <1>1 DEF From
  <2> QED
    BY <1>1, <2>1, EmptyPart, Zenon
<1>2. CASE ~(lo >= n \/ size < 0)
  <2> DEFINE m == IF lo + size > n THEN n - lo ELSE size
  <2>1. m \in Nat /\ lo + m <= n /\ lo + m = IF lo + size > n THEN n ELSE lo + size
    BY <1>0, <1>2
  <2>2. From(v, lo, size) = SubSeq(v, lo + 1, lo + m)
    <3>1. From(v, lo, size) = SubSeq(v, lo + 1, IF lo + size > n THEN n ELSE lo + size)
      BY <1>0, <1>2, Zenon DEF From
    <3> QED
      BY <2>1, <3>1, Zenon
  <2> HIDE DEF m
  <2>3. PartOf(SubSeq(v, lo + 1, lo + m), v, lo, m)
    BY <2>1, PartIs
  <2> QED
    BY <1>2, <2>2, <2>3, Zenon DEF m
<1> QED
  BY <1>1, <1>2

\* Where GETRANGE and BITCOUNT begin, and how many bytes they have
Place(n, i) == IF i < 0 THEN n + i ELSE i
Many(n, lo, pe) == IF lo >= n \/ lo > pe THEN 0 ELSE IF pe >= n THEN n - lo ELSE pe - lo + 1

LEMMA ManyIs ==
    ASSUME NEW n \in Nat, NEW lo \in Nat, NEW pe \in Nat
    PROVE  /\ Many(n, lo, pe) \in Nat /\ (Many(n, lo, pe) = 0 \/ lo + Many(n, lo, pe) <= n)
           /\ \A a \in 0..(n - 1) : (lo <= a /\ a <= pe) <=> (lo <= a /\ a < lo + Many(n, lo, pe))
BY DEF Many

LEMMA PlaceIs ==
    ASSUME NEW n \in Nat, NEW i \in -n..(n + 1)
    PROVE  Place(n, i) \in Nat
BY DEF Place

LEMMA GetrangeIs ==
    ASSUME SInd, NEW start \in -Len(KvValue)..(Len(KvValue) + 1), NEW end \in -Len(KvValue)..(Len(KvValue) + 1)
    PROVE  LET n == Len(KvValue)
               lo == Place(n, start)
           IN  PartOf(Getrange(start, end), KvValue, lo, Many(n, lo, Place(n, end)))
<1> DEFINE v == KvValue
           n == Len(v)
           lo == Place(n, start)
           pe == Place(n, end)
           m == Many(n, lo, pe)
           Clamp(i) == LET j == IF i < 0 THEN n + i ELSE i IN IF j < 0 THEN 0 ELSE j
           last == IF Clamp(end) >= n THEN n - 1 ELSE Clamp(end)
           none == (start < 0 /\ end < 0 /\ start > end) \/ n = 0 \/ Clamp(start) > last
<1>1. v \in Seq(Byte) /\ n \in Nat
  BY ValueType
<1>2. Getrange(start, end) = IF none THEN <<>> ELSE SubSeq(v, Clamp(start) + 1, last + 1)
  BY Zenon DEF Getrange
<1>3. start \in Int /\ end \in Int /\ start >= -n /\ end >= -n
  BY <1>1
<1> HIDE DEF v, n
<1>4. Clamp(start) = lo /\ Clamp(end) = pe /\ lo \in Nat /\ pe \in Nat
  BY <1>1, <1>3 DEF Place
<1>5. last = IF pe >= n THEN n - 1 ELSE pe
  BY <1>4
<1>6. none <=> n = 0 \/ lo > last
  <2>1. start < 0 /\ end < 0 /\ start > end => lo > last
    BY <1>1, <1>3, <1>5 DEF Place
  <2> QED
    BY <1>4, <2>1
<1> HIDE DEF last, none, Clamp
<1>7. m \in Nat /\ (m = 0 \/ lo + m <= n)
  BY <1>1, <1>4, ManyIs
<1>8. CASE none
  <2>1. m = 0
    <3> HIDE DEF lo, pe
    <3> QED
      BY <1>1, <1>4, <1>5, <1>6, <1>8 DEF Many
  <2> QED
    BY <1>2, <1>8, <2>1, EmptyPart DEF n, v
<1>9. CASE ~none
  <2>1. last + 1 = lo + m /\ lo + m <= n
    <3> HIDE DEF lo, pe
    <3> QED
      BY <1>1, <1>4, <1>5, <1>6, <1>9 DEF Many
  <2>2. Getrange(start, end) = SubSeq(v, lo + 1, lo + m)
    BY <1>2, <1>4, <1>9, <2>1
  <2> HIDE DEF m, lo
  <2>3. PartOf(SubSeq(v, lo + 1, lo + m), v, lo, m)
    BY <1>1, <1>4, <1>7, <2>1, PartIs DEF n
  <2> QED
    BY <2>2, <2>3 DEF m, lo, n, v
<1> QED
  BY <1>8, <1>9

LEMMA StrSliceIs ==
    ASSUME NEW v \in Seq(Byte), NEW start \in -Len(v)..(Len(v) + 1), NEW end \in -Len(v)..(Len(v) + 1)
    PROVE  LET n == Len(v)
               lo == Place(n, start)
           IN  PartOf(StrSlice(v, start, end), v, lo, Many(n, lo, Place(n, end)))
<1> DEFINE n == Len(v)
           lo == Place(n, start)
           pe == Place(n, end)
           size == IF end < 0 THEN n + end + 1 - lo ELSE end - lo + 1
<1>1. n \in Nat /\ start \in Int /\ end \in Int /\ start >= -n /\ end >= -n
  OBVIOUS
<1>2. StrSlice(v, start, end) = From(v, lo, size)
  BY DEF StrSlice, Place
<1>3. lo \in Nat /\ pe \in Nat
  BY <1>1 DEF Place
<1>4. size = pe + 1 - lo /\ size \in Int
  <2> HIDE DEF lo
  <2> QED
    BY <1>1, <1>3 DEF Place
<1>5. PartOf(From(v, lo, size), v, lo,
             IF lo >= n \/ size < 0 THEN 0 ELSE IF lo + size > n THEN n - lo ELSE size)
  <2> HIDE DEF lo, size
  <2> QED
    BY <1>3, <1>4, FromIs
<1>6. Many(n, lo, pe) = IF lo >= n \/ size < 0 THEN 0 ELSE IF lo + size > n THEN n - lo ELSE size
  <2> HIDE DEF lo, pe, size, n
  <2> QED
    BY <1>1, <1>3, <1>4 DEF Many
<1> HIDE DEF lo, size, n, pe
<1>7. PartOf(StrSlice(v, start, end), v, lo, Many(n, lo, pe))
  BY <1>2, <1>5, <1>6
<1> QED
  BY <1>7 DEF lo, n, pe

LEMMA SubstrIs ==
    ASSUME NEW v \in Seq(Byte), NEW start \in -Len(v)..(Len(v) + 1), NEW size \in Nat
    PROVE  LET n == Len(v)
               lo == Place(n, start)
           IN  PartOf(SubstrOf(v, start, size), v, lo, Many(n, lo, lo + size - 1))
<1> DEFINE n == Len(v)
           lo == Place(n, start)
<1>1. n \in Nat /\ start \in Int /\ start >= -n /\ ~(size < 0)
  OBVIOUS
<1>2. SubstrOf(v, start, size) = From(v, lo, size)
  BY <1>1 DEF SubstrOf, Place
<1>3. lo \in Nat
  BY <1>1 DEF Place
<1>5. PartOf(From(v, lo, size), v, lo,
             IF lo >= n \/ size < 0 THEN 0 ELSE IF lo + size > n THEN n - lo ELSE size)
  <2> HIDE DEF lo
  <2> QED
    BY <1>3, FromIs
<1>6. Many(n, lo, lo + size - 1) = IF lo >= n \/ size < 0 THEN 0 ELSE IF lo + size > n THEN n - lo ELSE size
  <2> HIDE DEF lo, n
  <2> QED
    BY <1>1, <1>3 DEF Many
<1> HIDE DEF lo, n
<1>7. PartOf(SubstrOf(v, start, size), v, lo, Many(n, lo, lo + size - 1))
  BY <1>2, <1>5, <1>6
<1> QED
  BY <1>7 DEF lo, n

LEMMA ReadsHold == SInd => ReadsAgree
<1> SUFFICES ASSUME SInd PROVE ReadsAgree
  OBVIOUS
<1> DEFINE v == KvValue
           n == Len(v)
           Pos(i) == IF i < 0 THEN n + i ELSE i
<1>1. v \in Seq(Byte) /\ n \in Nat
  BY ValueType
<1>2. \A i : Pos(i) = Place(n, i)
  BY DEF Place
<1>3. ProcStrlen = Len(Getrange(0, -1))
  <2>1. CASE n = 0
    <3>1. Getrange(0, -1) = <<>>
      BY <2>1, Zenon DEF Getrange
    <3>2. Len(<<>>) = 0
      OBVIOUS
    <3> QED
      BY <2>1, <3>1, <3>2 DEF ProcStrlen
  <2>2. CASE n # 0
    <3>1. 0 \in -n..(n + 1) /\ -1 \in -n..(n + 1) /\ Place(n, 0) = 0 /\ Place(n, -1) = n - 1
      BY <1>1, <2>2 DEF Place
    <3>2. PartOf(Getrange(0, -1), v, 0, Many(n, 0, n - 1))
      BY <3>1, GetrangeIs
    <3>3. Many(n, 0, n - 1) = n
      BY <1>1, <2>2 DEF Many
    <3> QED
      BY <3>2, <3>3 DEF PartOf, ProcStrlen
  <2> QED
    BY <2>1, <2>2
<1>4. ASSUME NEW start \in -n..(n + 1), NEW end \in -n..(n + 1)
      PROVE  LET bytes == {i \in 0..(n - 1) : Pos(start) <= i /\ i <= Pos(end)}
             IN  /\ Len(Getrange(start, end)) = Cardinality(bytes)
                 /\ \A i \in bytes : Getrange(start, end)[i - Pos(start) + 1] = v[i + 1]
                 /\ ProcBitcount(start, end) =
                      Cardinality({o \in 0..(n * ByteBits - 1) :
                                     o \div ByteBits \in bytes /\ Getbit(o) = 1})
                 /\ end >= 0 => ProcCountbit(start, end) =
                      Cardinality({o \in 0..(n * ByteBits - 1) :
                                     /\ o \div ByteBits \in Pos(start)..(Pos(start) + end - 1)
                                     /\ Getbit(o) = 1})
  <2> DEFINE lo == Pos(start)
             pe == Pos(end)
             bytes == {i \in 0..(n - 1) : lo <= i /\ i <= pe}
             m == Many(n, lo, pe)
             g == Getrange(start, end)
             sl == StrSlice(v, start, end)
  <2>1. lo \in Nat /\ pe \in Nat
    BY <1>1, <1>2, PlaceIs
  <2>2. m \in Nat /\ (m = 0 \/ lo + m <= n) /\ \A a \in 0..(n - 1) : (lo <= a /\ a <= pe) <=> (lo <= a /\ a < lo + m)
    BY <1>1, <2>1, ManyIs
  <2>3. PartOf(g, v, lo, m)
    BY <1>2, GetrangeIs
  <2>4. PartOf(sl, v, lo, m)
    BY <1>1, <1>2, StrSliceIs
  <2> HIDE DEF m, g, sl
  <2>5. bytes = lo..(lo + m - 1)
    <3> HIDE DEF lo, pe, n
    <3>1. \A a \in bytes : a \in lo..(lo + m - 1)
      <4> TAKE a \in bytes
      <4>1. a \in 0..(n - 1) /\ lo <= a /\ a < lo + m
        BY <2>2
      <4>2. a \in Int
        BY <4>1
      <4> QED
        BY <2>1, <2>2, <4>1, <4>2
    <3>2. \A a \in lo..(lo + m - 1) : a \in bytes
      <4> TAKE a \in lo..(lo + m - 1)
      <4>1. a \in 0..(n - 1) /\ lo <= a /\ a < lo + m
        BY <1>1, <2>1, <2>2
      <4> QED
        BY <2>2, <4>1
    <3> QED
      BY <3>1, <3>2
  <2>6. Cardinality(bytes) = m
    <3> HIDE DEF lo, bytes
    <3>1. lo \in Int /\ lo + m - 1 \in Int
      BY <2>1, <2>2
    <3>2. Cardinality(lo..(lo + m - 1)) = IF lo > lo + m - 1 THEN 0 ELSE (lo + m - 1) - lo + 1
      BY <3>1, FS_Interval
    <3> QED
      BY <2>1, <2>2, <2>5, <3>2
  <2>7. Len(g) = Cardinality(bytes)
    BY <2>3, <2>6 DEF PartOf
  <2>8. ASSUME NEW i \in bytes PROVE g[i - lo + 1] = v[i + 1]
    <3> HIDE DEF lo
    <3>1. i \in lo..(lo + m - 1)
      BY <2>5
    <3>2. i - lo + 1 \in 1..m /\ lo + (i - lo + 1) = i + 1
      BY <2>1, <2>2, <3>1
    <3> QED
      BY <2>3, <3>2 DEF PartOf
  <2>9. ProcBitcount(start, end) = Cardinality(BitOffsets(bytes))
    <3>1. \A a \in 0..(n - 1) : a \in bytes <=> lo <= a /\ a < lo + m
      BY <2>2
    <3> HIDE DEF lo, bytes
    <3>2. Bitcount(sl) = Cardinality(BitOffsets(bytes))
      BY <2>1, <2>2, <2>4, <3>1, PartBits
    <3> QED
      BY <3>2 DEF ProcBitcount, sl
  <2>10. end >= 0 => ProcCountbit(start, end) = Cardinality(BitOffsets(lo..(lo + end - 1)))
    <3> SUFFICES ASSUME end >= 0 PROVE ProcCountbit(start, end) = Cardinality(BitOffsets(lo..(lo + end - 1)))
      OBVIOUS
    <3> DEFINE k == Many(n, lo, lo + end - 1)
               sb == SubstrOf(v, start, end)
    <3>1. end \in Nat
      BY <1>1
    <3>2. PartOf(sb, v, lo, k)
      BY <1>1, <1>2, <3>1, SubstrIs
    <3> HIDE DEF sb
    <3>3. k \in Nat /\ (k = 0 \/ lo + k <= n)
          /\ \A a \in 0..(n - 1) : a \in lo..(lo + end - 1) <=> lo <= a /\ a < lo + k
      <4> HIDE DEF lo, n
      <4> QED
        BY <1>1, <2>1, <3>1 DEF Many
    <3> HIDE DEF k, lo
    <3>4. Bitcount(sb) = Cardinality(BitOffsets(lo..(lo + end - 1)))
      BY <2>1, <3>2, <3>3, PartBits
    <3> QED
      BY <3>4 DEF ProcCountbit, sb
  <2> HIDE DEF lo, bytes
  <2>11. BitOffsets(bytes) = {o \in 0..(n * ByteBits - 1) : o \div ByteBits \in bytes /\ Getbit(o) = 1}
    BY DEF BitOffsets
  <2>12. BitOffsets(lo..(lo + end - 1)) =
           {o \in 0..(n * ByteBits - 1) : o \div ByteBits \in lo..(lo + end - 1) /\ Getbit(o) = 1}
    BY DEF BitOffsets
  <2> QED
    BY <2>7, <2>8, <2>9, <2>10, <2>11, <2>12, Zenon DEF lo, bytes, g
<1> QED
  BY <1>3, <1>4, Zenon DEF ReadsAgree

\* GETRANGE, BITCOUNT, COUNTBIT, GETBIT and STRLEN agree on where the bytes and
\* bits of a string are, for a string of any length, bytes of any width and every
\* range that begins and ends in it (ReadsAgree).
THEOREM StringReadsAgree == SSpec => []ReadsAgree
BY ReadsHold, SIndHolds, PTL
=============================================================================
