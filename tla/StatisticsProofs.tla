-------------------------- MODULE StatisticsProofs ---------------------------
(***************************************************************************)
(* The commands that reduce a signal to one row, for every recording,      *)
(* window and selection: summary, snapshot and compare tell what the file  *)
(* holds at their instants and in their window, and a logic value that is  *)
(* shown is matched, as a condition, by the values shown so.               *)
(***************************************************************************)
EXTENDS Statistics, FiniteSetTheorems, SequenceTheorems, WellFoundedInduction, TLAPS

(***************************************************************************)
(* Binary numbers.                                                         *)
(***************************************************************************)

(* Induction up to n, over a set of numbers.                               *)
LEMMA UpTo ==
  ASSUME NEW n \in Nat, NEW S, 0 \in S, \A i \in 1..n : i - 1 \in S => i \in S
  PROVE  \A i \in 0..n : i \in S
<1>. DEFINE Outside == {i \in Nat : i \in 0..n /\ i \notin S}
<1>1. SUFFICES ASSUME NEW j \in 0..n, j \notin S PROVE FALSE
  OBVIOUS
<1>2. j \in Outside
  BY <1>1
<1>3. PICK k \in Outside : \A r \in Outside : ~(<<r, k>> \in OpToRel(<, Nat))
  BY <1>2, NatLessThanWellFounded, WFMin
<1>4. k \in Nat /\ k \in 0..n /\ k \notin S
  OBVIOUS
<1>5. k # 0
  BY <1>4
<1>6. k \in 1..n /\ k - 1 \in 0..n /\ k - 1 \in Nat /\ k - 1 < k
  BY <1>4, <1>5
<1>7. k - 1 \notin S
  BY <1>4, <1>6
<1>8. k - 1 \in Outside
  BY <1>6, <1>7
<1>9. <<k - 1, k>> \in OpToRel(<, Nat)
  BY <1>4, <1>6 DEF OpToRel
<1>. QED
  BY <1>3, <1>8, <1>9

Digit(b) == IF b = "1" THEN 1 ELSE 0

(* The number the digits up to each position make.                         *)
Numbers(upto, bits, n) ==
  /\ DOMAIN upto = 0..n
  /\ upto[0] = 0
  /\ \A i \in 1..n : upto[i] = 2 * upto[i - 1] + Digit(bits[i])

LEMMA NumberPositions ==
  ASSUME NEW bits, Len(bits) \in Nat
  PROVE  \E upto : Numbers(upto, bits, Len(bits)) /\ from_binary(bits) = upto[Len(bits)]
<1>. DEFINE n == Len(bits)
            Run(g, m) == g = [i \in 0..m |-> IF i = 0 THEN 0 ELSE 2 * g[i - 1] + Digit(bits[i])]
            S == {m \in 0..n : \E g : Run(g, m)}
<1>1. 0 \in S
  <2>1. Run([i \in 0..0 |-> 0], 0)
    OBVIOUS
  <2>. HIDE DEF Run
  <2>2. \E g : Run(g, 0)
    BY <2>1
  <2>. QED
    BY <2>2
<1>2. ASSUME NEW m \in 1..n, m - 1 \in S PROVE m \in S
  <2>1. PICK g : Run(g, m - 1)
    BY <1>2
  <2>. DEFINE h == [i \in 0..m |-> IF i < m THEN g[i] ELSE 2 * g[m - 1] + Digit(bits[m])]
  <2>2. ASSUME NEW i \in 0..m
        PROVE  h[i] = IF i = 0 THEN 0 ELSE 2 * h[i - 1] + Digit(bits[i])
    <3>1. CASE i = 0
      <4>1. h[0] = g[0]
        OBVIOUS
      <4>2. g[0] = 0
        BY <2>1
      <4>. QED
        BY <3>1, <4>1, <4>2
    <3>2. CASE i \in 1..(m - 1)
      <4>1. i \in 0..(m - 1) /\ i # 0 /\ i - 1 \in 0..m /\ i - 1 < m /\ i < m
        BY <3>2
      <4>2. h[i] = g[i] /\ h[i - 1] = g[i - 1]
        BY <4>1
      <4>3. g[i] = 2 * g[i - 1] + Digit(bits[i])
        BY <2>1, <4>1
      <4>. QED
        BY <4>1, <4>2, <4>3
    <3>3. CASE i = m
      <4>1. h[m] = 2 * g[m - 1] + Digit(bits[m])
        OBVIOUS
      <4>2. h[m - 1] = g[m - 1]
        OBVIOUS
      <4>. QED
        BY <3>3, <4>1, <4>2
    <3>. QED
      BY <3>1, <3>2, <3>3
  <2>3. h = [i \in 0..m |-> h[i]]
    OBVIOUS
  <2>. HIDE DEF h
  <2>4. h = [i \in 0..m |-> IF i = 0 THEN 0 ELSE 2 * h[i - 1] + Digit(bits[i])]
    BY <2>2, <2>3
  <2>. QED
    BY <2>4
<1>3. n \in S
  <2>. HIDE DEF S
  <2>1. \A i \in 0..n : i \in S
    BY <1>1, <1>2, UpTo
  <2>. QED
    BY <2>1
<1>4. \E g : Run(g, n)
  BY <1>3
<1>5. PICK g : Run(g, n) /\ from_binary(bits) = g[n]
  <2>1. Run(CHOOSE g : Run(g, n), n)
    BY <1>4
  <2>2. from_binary(bits) = (CHOOSE g : Run(g, n))[n]
    BY DEF from_binary, Digit
  <2>. QED
    BY <2>1, <2>2
<1>6. Numbers(g, bits, n)
  BY <1>5 DEF Numbers
<1>. QED
  BY <1>5, <1>6

(* Zeros in front change nothing.                                          *)
LEMMA LeadingZeros ==
  ASSUME NEW a, NEW b, NEW m \in Nat, NEW n \in Nat, Len(b) = n, Len(a) = m + n,
         \A i \in 1..m : a[i] = "0", \A i \in 1..n : a[m + i] = b[i]
  PROVE  from_binary(a) = from_binary(b)
<1>1. Len(a) \in Nat /\ Len(b) \in Nat
  OBVIOUS
<1>2. PICK f : Numbers(f, a, m + n) /\ from_binary(a) = f[m + n]
  BY <1>1, NumberPositions
<1>3. PICK g : Numbers(g, b, n) /\ from_binary(b) = g[n]
  BY <1>1, NumberPositions
<1>. DEFINE Z == {i \in 0..m : f[i] = 0}
            S == {i \in 0..n : f[m + i] = g[i]}
<1>4. f[m] = 0
  <2>1. 0 \in Z
    BY <1>2 DEF Numbers
  <2>2. ASSUME NEW i \in 1..m, i - 1 \in Z PROVE i \in Z
    <3>1. f[i] = 2 * f[i - 1] + Digit(a[i])
      BY <1>2 DEF Numbers
    <3>2. a[i] = "0" /\ f[i - 1] = 0
      BY <2>2
    <3>. QED
      BY <3>1, <3>2 DEF Digit
  <2>. HIDE DEF Z
  <2>3. \A i \in 0..m : i \in Z
    BY <2>1, <2>2, UpTo
  <2>. QED
    BY <2>3 DEF Z
<1>5. f[m + n] = g[n]
  <2>1. 0 \in S
    BY <1>3, <1>4 DEF Numbers
  <2>2. ASSUME NEW i \in 1..n, i - 1 \in S PROVE i \in S
    <3>1. m + i \in 1..(m + n) /\ (m + i) - 1 = m + (i - 1)
      OBVIOUS
    <3>2. f[m + i] = 2 * f[m + (i - 1)] + Digit(a[m + i])
      BY <1>2, <3>1 DEF Numbers
    <3>3. g[i] = 2 * g[i - 1] + Digit(b[i])
      BY <1>3 DEF Numbers
    <3>4. a[m + i] = b[i] /\ f[m + (i - 1)] = g[i - 1]
      BY <2>2
    <3>. QED
      BY <3>2, <3>3, <3>4
  <2>. HIDE DEF S
  <2>3. \A i \in 0..n : i \in S
    BY <2>1, <2>2, UpTo
  <2>. QED
    BY <2>3 DEF S
<1>. QED
  BY <1>2, <1>3, <1>5

(***************************************************************************)
(* Values as they are shown.                                               *)
(***************************************************************************)
Known == {"0", "1"}
Unclear == {"x", "z"}

(* What a bit may be written as; an x is named, for AllUnknown writes one. *)
Letter == STRING \cup {"x"}

Readable(raw, width) ==
  width \in Nat \ {0} /\ raw \in Seq(Letter) /\ raw # << >> /\ Len(raw) <= width

(* A value as wide as its signal.                                          *)
Fitted(raw, width) ==
  [i \in 1..(width - Len(raw)) |-> Pad(normalize_bits(raw))] \o normalize_bits(raw)

LEMMA BitFacts ==
  ASSUME NEW b
  PROVE  /\ norm_bit(b) \in Known \cup Unclear
         /\ norm_bit(b) \in Unclear <=> b \notin {"0", "1", "h", "l"}
<1>1. CASE b \in {"0", "l"}
  <2>1. norm_bit(b) = "0"
    BY <1>1 DEF norm_bit
  <2>. QED
    BY <1>1, <2>1 DEF Known, Unclear
<1>2. CASE b \in {"1", "h"}
  <2>1. norm_bit(b) = "1"
    BY <1>2 DEF norm_bit
  <2>. QED
    BY <1>2, <2>1 DEF Known, Unclear
<1>3. CASE b = "z"
  <2>1. norm_bit(b) = "z"
    BY <1>3 DEF norm_bit
  <2>. QED
    BY <1>3, <2>1 DEF Known, Unclear
<1>4. CASE b \notin {"0", "1", "h", "l", "z"}
  <2>1. norm_bit(b) = "x"
    BY <1>4 DEF norm_bit
  <2>. QED
    BY <1>4, <2>1 DEF Known, Unclear
<1>. QED
  BY <1>1, <1>2, <1>3, <1>4

LEMMA NormFacts ==
  ASSUME NEW raw, NEW width, Readable(raw, width), NEW bits, bits = normalize_bits(raw)
  PROVE  /\ Len(raw) \in 1..width /\ bits \in Seq(Known \cup Unclear) /\ Len(bits) = Len(raw)
         /\ \A i \in 1..Len(raw) : bits[i] = norm_bit(raw[i])
         /\ Pad(bits) \in Known \cup Unclear
         /\ Pad(bits) \in Unclear => bits[1] \in Unclear
         /\ bits_have_unknown(raw) <=> \E i \in 1..Len(raw) : bits[i] \in Unclear
<1>1. Len(raw) \in 1..width /\ DOMAIN raw = 1..Len(raw)
  BY DEF Readable
<1>2. bits = [i \in 1..Len(raw) |-> norm_bit(raw[i])]
  BY <1>1 DEF normalize_bits
<1>3. bits \in [1..Len(raw) -> Known \cup Unclear]
  BY <1>2, BitFacts
<1>4. bits \in Seq(Known \cup Unclear) /\ Len(bits) = Len(raw)
  BY <1>1, <1>3
<1>5. Pad(bits) \in Known \cup Unclear /\ (Pad(bits) \in Unclear => bits[1] \in Unclear)
  BY DEF Pad, Known, Unclear
<1>6. bits_have_unknown(raw) <=> \E i \in 1..Len(raw) : bits[i] \in Unclear
  BY <1>1, <1>2, BitFacts DEF bits_have_unknown
<1>. QED
  BY <1>1, <1>2, <1>4, <1>5, <1>6

LEMMA FittedFacts ==
  ASSUME NEW raw, NEW width, Readable(raw, width), NEW bits, bits = normalize_bits(raw),
         NEW fitted, fitted = Fitted(raw, width)
  PROVE  /\ fitted \in Seq(Known \cup Unclear) /\ Len(fitted) = width
         /\ \A i \in 1..(width - Len(raw)) : fitted[i] = Pad(bits)
         /\ \A i \in 1..Len(raw) : fitted[(width - Len(raw)) + i] = bits[i]
         /\ \A off \in 0..(width - 1) : fitted[width - off] = BitAt(bits, off, Pad(bits))
         /\ bits_have_unknown(raw) <=> \E i \in 1..width : fitted[i] \in Unclear
<1>1. PICK k : k = width - Len(raw)
  OBVIOUS
<1>2. PICK n : n = Len(raw)
  OBVIOUS
<1>3. /\ n \in 1..width /\ bits \in Seq(Known \cup Unclear) /\ Len(bits) = n
      /\ Pad(bits) \in Known \cup Unclear /\ (Pad(bits) \in Unclear => bits[1] \in Unclear)
      /\ (bits_have_unknown(raw) <=> \E i \in 1..n : bits[i] \in Unclear)
  BY <1>2, NormFacts
<1>4. width \in Nat /\ k \in Nat /\ k + n = width /\ n \in Nat
  BY <1>1, <1>2, <1>3 DEF Readable
<1>5. PICK pads : pads = [i \in 1..k |-> Pad(bits)]
  OBVIOUS
<1>6. pads \in Seq(Known \cup Unclear) /\ Len(pads) = k
  BY <1>3, <1>4, <1>5
<1>7. fitted = pads \o bits
  BY <1>1, <1>5 DEF Fitted
<1>8. /\ fitted \in Seq(Known \cup Unclear) /\ Len(fitted) = width
      /\ \A i \in 1..k : fitted[i] = Pad(bits)
      /\ \A i \in 1..n : fitted[k + i] = bits[i]
  <2>1. Len(fitted) = k + n /\ fitted \in Seq(Known \cup Unclear)
    <3>1. PICK S : S = Known \cup Unclear
      OBVIOUS
    <3>2. pads \in Seq(S) /\ bits \in Seq(S)
      BY <1>3, <1>6, <3>1
    <3>3. (pads \o bits) \in Seq(S) /\ Len(pads \o bits) = Len(pads) + Len(bits)
      BY <3>2, ConcatProperties
    <3>. QED
      BY <1>3, <1>6, <1>7, <3>1, <3>3
  <2>2. ASSUME NEW i \in 1..k PROVE fitted[i] = Pad(bits)
    <3>1. i \in 1..(k + n) /\ i <= k
      BY <1>4
    <3>2. (pads \o bits)[i] = pads[i]
      BY <1>3, <1>6, <3>1, ConcatProperties
    <3>. QED
      BY <1>5, <1>7, <3>2
  <2>3. ASSUME NEW i \in 1..n PROVE fitted[k + i] = bits[i]
    <3>1. (k + i) \in 1..(k + n) /\ (k + i) > k /\ (k + i) - k = i
      BY <1>4
    <3>2. (pads \o bits)[k + i] = bits[(k + i) - k]
      BY <1>3, <1>6, <3>1, ConcatProperties
    <3>. QED
      BY <1>7, <3>1, <3>2
  <2>. QED
    BY <1>4, <2>1, <2>2, <2>3
<1>9. ASSUME NEW off \in 0..(width - 1) PROVE fitted[width - off] = BitAt(bits, off, Pad(bits))
  <2>1. CASE off < n
    <3>1. n - off \in 1..n /\ width - off = k + (n - off)
      BY <1>4, <2>1
    <3>2. fitted[width - off] = bits[n - off]
      BY <1>8, <3>1
    <3>. QED
      BY <1>3, <2>1, <3>2 DEF BitAt
  <2>2. CASE ~(off < n)
    <3>1. width - off \in 1..k
      BY <1>4, <2>2
    <3>. QED
      BY <1>3, <1>8, <2>2, <3>1 DEF BitAt
  <2>. QED
    BY <2>1, <2>2
<1>10. bits_have_unknown(raw) => \E i \in 1..width : fitted[i] \in Unclear
  <2>1. SUFFICES ASSUME NEW i \in 1..n, bits[i] \in Unclear PROVE \E j \in 1..width : fitted[j] \in Unclear
    BY <1>3
  <2>2. k + i \in 1..width /\ fitted[k + i] = bits[i]
    BY <1>4, <1>8
  <2>. QED
    BY <2>1, <2>2
<1>11. ASSUME NEW i \in 1..width, fitted[i] \in Unclear PROVE bits_have_unknown(raw)
  <2>1. CASE i \in 1..k
    <3>1. bits[1] \in Unclear /\ 1 \in 1..n
      BY <1>3, <1>8, <1>11, <2>1
    <3>. QED
      BY <1>3, <3>1
  <2>2. CASE i \notin 1..k
    <3>1. i - k \in 1..n /\ k + (i - k) = i
      BY <1>4, <2>2
    <3>2. fitted[i] = bits[i - k]
      BY <1>8, <3>1
    <3>. QED
      BY <1>3, <1>11, <3>1, <3>2
  <2>. QED
    BY <2>1, <2>2
<1>. QED
  BY <1>1, <1>2, <1>8, <1>9, <1>10, <1>11

(* What is shown: the bits when some are unknown, else the number.         *)
LEMMA ShownFacts ==
  ASSUME NEW raw, NEW width, Readable(raw, width)
  PROVE  /\ bits_have_unknown(raw) => fmt_bits(raw, width) = Shown("bin", Fitted(raw, width), 0)
         /\ ~bits_have_unknown(raw) =>
              fmt_bits(raw, width) = Shown(IF width = 1 THEN "dec" ELSE "hex", << >>,
                                           from_binary(normalize_bits(raw)))
<1>1. PICK bits : bits = normalize_bits(raw)
  OBVIOUS
<1>2. PICK fitted : fitted = Fitted(raw, width)
  OBVIOUS
<1>3. /\ Len(raw) \in 1..width /\ bits \in Seq(Known \cup Unclear) /\ Len(bits) = Len(raw)
      /\ Pad(bits) \in Known \cup Unclear /\ (Pad(bits) \in Unclear => bits[1] \in Unclear)
      /\ (bits_have_unknown(raw) <=> \E i \in 1..Len(raw) : bits[i] \in Unclear)
  BY <1>1, NormFacts
<1>4. /\ fitted \in Seq(Known \cup Unclear) /\ Len(fitted) = width
      /\ \A i \in 1..(width - Len(raw)) : fitted[i] = Pad(bits)
      /\ \A i \in 1..Len(raw) : fitted[(width - Len(raw)) + i] = bits[i]
      /\ (bits_have_unknown(raw) <=> \E i \in 1..width : fitted[i] \in Unclear)
  BY <1>1, <1>2, FittedFacts
<1>5. width \in Nat \ {0} /\ DOMAIN fitted = 1..width
  BY <1>4 DEF Readable
<1>6. fmt_bits(raw, width) =
        CASE \E i \in DOMAIN fitted : fitted[i] \in {"x", "z"} -> Shown("bin", fitted, 0)
          [] width = 1 /\ fitted \in {<<"0">>, <<"1">>} -> Shown("dec", << >>, from_binary(fitted))
          [] OTHER -> Shown("hex", << >>, from_binary(fitted))
  <2>1. ~(Len(bits) > width)
    BY <1>3, <1>5
  <2>2. fitted = [i \in 1..(width - Len(bits)) |-> Pad(bits)] \o bits
    BY <1>1, <1>2, <1>3 DEF Fitted
  <2>. QED
    BY <1>1, <2>1, <2>2 DEF fmt_bits
<1>7. CASE bits_have_unknown(raw)
  <2>1. \E i \in DOMAIN fitted : fitted[i] \in {"x", "z"}
    BY <1>4, <1>5, <1>7 DEF Unclear
  <2>2. ~(width = 1 /\ fitted \in {<<"0">>, <<"1">>})
    BY <1>5, <2>1
  <2>3. fmt_bits(raw, width) = Shown("bin", fitted, 0)
    BY <1>6, <2>1, <2>2
  <2>. QED
    BY <1>2, <1>7, <2>3
<1>8. CASE ~bits_have_unknown(raw)
  <2>1. ~(\E i \in DOMAIN fitted : fitted[i] \in {"x", "z"})
    BY <1>4, <1>5, <1>8 DEF Unclear
  <2>2. from_binary(fitted) = from_binary(bits)
    <3>1. PICK k \in Nat : k = width - Len(raw)
      <4>1. width - Len(raw) \in Nat
        BY <1>3, <1>5
      <4>. QED
        BY <4>1
    <3>2. PICK n \in Nat : n = Len(raw)
      BY <1>3
    <3>3. Len(bits) = n /\ Len(fitted) = k + n
      BY <1>3, <1>4, <1>5, <3>1, <3>2
    <3>4. 1 \in 1..n /\ bits[1] \notin Unclear
      BY <1>3, <1>8, <3>2
    <3>5. Pad(bits) = "0"
      BY <3>4 DEF Pad, Unclear
    <3>6. \A i \in 1..k : fitted[i] = "0"
      BY <1>4, <3>1, <3>5
    <3>7. \A i \in 1..n : fitted[k + i] = bits[i]
      BY <1>4, <3>1, <3>2
    <3>. QED
      BY <3>3, <3>6, <3>7, LeadingZeros
  <2>3. CASE width = 1
    <3>1. fitted[1] \in Known
      <4>1. 1 \in DOMAIN fitted /\ fitted[1] \in Known \cup Unclear
        BY <1>4, <1>5, <2>3
      <4>2. fitted[1] \notin {"x", "z"}
        BY <2>1, <4>1
      <4>. QED
        BY <4>1, <4>2 DEF Unclear
    <3>2. fitted = <<fitted[1]>>
      BY <1>4, <2>3
    <3>3. fitted \in {<<"0">>, <<"1">>}
      BY <3>1, <3>2 DEF Known
    <3>4. fmt_bits(raw, width) = Shown("dec", << >>, from_binary(fitted))
      BY <1>6, <2>1, <2>3, <3>3
    <3>. QED
      BY <1>1, <1>8, <2>2, <2>3, <3>4
  <2>4. CASE width # 1
    <3>1. fmt_bits(raw, width) = Shown("hex", << >>, from_binary(fitted))
      BY <1>6, <2>1, <2>4
    <3>. QED
      BY <1>1, <1>8, <2>2, <2>4, <3>1
  <2>. QED
    BY <2>3, <2>4
<1>. QED
  BY <1>7, <1>8

(***************************************************************************)
(* Values as conditions compare them.                                      *)
(***************************************************************************)
BitOf(raw, width, off) ==
  CASE off >= width -> "0"
    [] off < width /\ Len(raw) > width -> "x"
    [] OTHER -> BitAt(normalize_bits(raw), off, Pad(normalize_bits(raw)))
Want(pattern, off) == BitAt(pattern, off, Pad(pattern))
Cared(pattern, width) ==
  {off \in 0..((IF width > Len(pattern) THEN width ELSE Len(pattern)) - 1) :
     Want(pattern, off) # "?"}

LEMMA CompareFacts ==
  ASSUME NEW raw, NEW pattern, NEW width
  PROVE  /\ pattern_compare(raw, pattern, width).equal <=>
              \A off \in Cared(pattern, width) : BitOf(raw, width, off) = Want(pattern, off)
         /\ pattern_compare(raw, pattern, width).cared_unknown <=>
              \E off \in Cared(pattern, width) : BitOf(raw, width, off) \in Unclear
<1>. DEFINE same == \A off \in Cared(pattern, width) :
                      BitOf(raw, width, off) = Want(pattern, off)
            unknown == \E off \in Cared(pattern, width) : BitOf(raw, width, off) \in {"x", "z"}
<1>1. pattern_compare(raw, pattern, width) = [equal |-> same, cared_unknown |-> unknown]
  BY DEF pattern_compare, Cared, BitOf, Want
<1>2. pattern_compare(raw, pattern, width).equal = same
      /\ pattern_compare(raw, pattern, width).cared_unknown = unknown
  <2>. HIDE DEF same, unknown
  <2>. QED
    BY <1>1
<1>. QED
  BY <1>2 DEF Unclear

LEMMA BitOfFacts ==
  ASSUME NEW raw, NEW width, Readable(raw, width), NEW off \in Nat
  PROVE  /\ off < width => BitOf(raw, width, off) = Fitted(raw, width)[width - off]
         /\ ~(off < width) => BitOf(raw, width, off) = "0"
         /\ BitOf(raw, width, off) \in Unclear => bits_have_unknown(raw)
<1>1. PICK fitted : fitted = Fitted(raw, width)
  OBVIOUS
<1>2. PICK bits : bits = normalize_bits(raw)
  OBVIOUS
<1>3. width \in Nat /\ Len(raw) \in Nat /\ Len(raw) <= width
  BY DEF Readable
<1>4. CASE off < width
  <2>1. off \in 0..(width - 1) /\ width - off \in 1..width
    BY <1>3, <1>4
  <2>2. fitted[width - off] = BitAt(bits, off, Pad(bits))
    BY <1>1, <1>2, <2>1, FittedFacts
  <2>3. ~(off >= width) /\ ~(Len(raw) > width)
    BY <1>3, <1>4
  <2>4. BitOf(raw, width, off) = fitted[width - off]
    BY <1>2, <2>2, <2>3 DEF BitOf
  <2>5. fitted[width - off] \in Unclear => bits_have_unknown(raw)
    BY <1>1, <1>2, <2>1, FittedFacts
  <2>. QED
    BY <1>1, <1>4, <2>4, <2>5
<1>5. CASE ~(off < width)
  <2>1. off >= width
    BY <1>3, <1>5
  <2>2. BitOf(raw, width, off) = "0"
    BY <1>5, <2>1 DEF BitOf
  <2>. QED
    BY <1>5, <2>2 DEF Unclear
<1>. QED
  BY <1>4, <1>5

(* The bits shown of one value, as a pattern, are those of another exactly *)
(* if the other is shown with these bits.                                  *)
LEMMA PatternFacts ==
  ASSUME NEW raw, NEW other, NEW width, Readable(raw, width), Readable(other, width)
  PROVE  pattern_compare(other, Fitted(raw, width), width).equal
           <=> Fitted(other, width) = Fitted(raw, width)
<1>1. PICK f : f = Fitted(raw, width)
  OBVIOUS
<1>2. PICK g : g = Fitted(other, width)
  OBVIOUS
<1>3. /\ f \in Seq(Known \cup Unclear) /\ Len(f) = width
      /\ g \in Seq(Known \cup Unclear) /\ Len(g) = width
  BY <1>1, <1>2, FittedFacts
<1>4. width \in Nat \ {0}
  BY DEF Readable
<1>5. ASSUME NEW off \in 0..(width - 1)
      PROVE  Want(f, off) = f[width - off] /\ f[width - off] # "?"
  <2>1. off < Len(f) /\ width - off \in 1..width
    BY <1>3, <1>4
  <2>2. f[width - off] \in Known \cup Unclear
    BY <1>3, <2>1
  <2>3. Want(f, off) = f[width - off]
    BY <1>3, <2>1 DEF Want, BitAt
  <2>. QED
    BY <2>2, <2>3 DEF Known, Unclear
<1>6. Cared(f, width) = 0..(width - 1)
  <2>1. ~(width > Len(f)) /\ Len(f) = width
    BY <1>3, <1>4
  <2>2. Cared(f, width) = {off \in 0..(width - 1) : Want(f, off) # "?"}
    BY <2>1 DEF Cared
  <2>. QED
    BY <1>5, <2>2
<1>7. ASSUME NEW off \in 0..(width - 1) PROVE BitOf(other, width, off) = g[width - off]
  <2>1. off \in Nat /\ off < width
    BY <1>4
  <2>. QED
    BY <1>2, <2>1, BitOfFacts
<1>8. pattern_compare(other, f, width).equal <=>
        \A off \in 0..(width - 1) : g[width - off] = f[width - off]
  <2>1. pattern_compare(other, f, width).equal <=>
          \A off \in Cared(f, width) : BitOf(other, width, off) = Want(f, off)
    BY CompareFacts
  <2>. QED
    BY <1>5, <1>6, <1>7, <2>1
<1>9. (\A off \in 0..(width - 1) : g[width - off] = f[width - off]) => g = f
  <2>1. SUFFICES ASSUME \A off \in 0..(width - 1) : g[width - off] = f[width - off] PROVE g = f
    OBVIOUS
  <2>2. ASSUME NEW i \in 1..width PROVE g[i] = f[i]
    <3>1. width - i \in 0..(width - 1) /\ width - (width - i) = i
      BY <1>4
    <3>. QED
      BY <2>1, <3>1
  <2>. QED
    BY <1>3, <2>2
<1>. QED
  BY <1>1, <1>2, <1>8, <1>9

(* value_matches of what a value is shown as.                              *)
LEMMA ShownMatches ==
  ASSUME NEW raw, NEW other, NEW width, Readable(raw, width), Readable(other, width),
         NEW target, target = parse_target_value(fmt_bits(raw, width))
  PROVE  /\ target.ok
         /\ condition_match(other, "Bits", "=", target, width)
              <=> fmt_bits(other, width) = fmt_bits(raw, width)
<1>. DEFINE shown == fmt_bits(raw, width)
<1>0. condition_match(other, "Bits", "=", target, width)
        <=> value_matches(other, "Bits", target, width)
  BY DEF condition_match
<1>1. /\ bits_have_unknown(other) => fmt_bits(other, width) = Shown("bin", Fitted(other, width), 0)
      /\ ~bits_have_unknown(other) =>
           fmt_bits(other, width) = Shown(IF width = 1 THEN "dec" ELSE "hex", << >>,
                                          from_binary(normalize_bits(other)))
  BY ShownFacts
<1>2. CASE bits_have_unknown(raw)
  <2>1. PICK f : f = Fitted(raw, width)
    OBVIOUS
  <2>2. shown = Shown("bin", f, 0)
    BY <1>2, <2>1, ShownFacts
  <2>3. /\ f \in Seq(Known \cup Unclear) /\ Len(f) = width
        /\ \E i \in 1..width : f[i] \in Unclear
    <3>1. PICK bits : bits = normalize_bits(raw)
      OBVIOUS
    <3>. QED
      BY <1>2, <2>1, <3>1, FittedFacts
  <2>4. width \in Nat \ {0} /\ DOMAIN f = 1..width /\ f # << >>
    BY <2>3 DEF Readable
  <2>5. AllIn(f, Mask) /\ ~AllIn(f, {"0", "1"})
    BY <2>3, <2>4 DEF AllIn, Mask, Known, Unclear
  <2>6. shown.form = "bin" /\ shown.bits = f
    BY <2>2 DEF Shown
  <2>7. parse_target_value(shown) = RawTarget(f)
    <3>. HIDE DEF shown
    <3>. QED
      BY <2>4, <2>5, <2>6 DEF parse_target_value
  <2>8. target.ok = TRUE /\ target.int = FALSE /\ target.raw = f
    BY <2>7 DEF RawTarget
  <2>9. value_matches(other, "Bits", target, width) <=> pattern_compare(other, f, width).equal
    BY <2>8 DEF value_matches
  <2>10. pattern_compare(other, f, width).equal <=> Fitted(other, width) = f
    BY <2>1, PatternFacts
  <2>11. Fitted(other, width) = f => bits_have_unknown(other)
    <3>1. SUFFICES ASSUME Fitted(other, width) = f PROVE bits_have_unknown(other)
      OBVIOUS
    <3>2. PICK bits : bits = normalize_bits(other)
      OBVIOUS
    <3>. QED
      BY <2>3, <3>1, <3>2, FittedFacts
  <2>12. fmt_bits(other, width) = shown <=> Fitted(other, width) = f
    <3>1. ASSUME bits_have_unknown(other)
          PROVE  fmt_bits(other, width) = shown <=> Fitted(other, width) = f
      <4>1. fmt_bits(other, width) = Shown("bin", Fitted(other, width), 0)
        BY <1>1, <3>1
      <4>. QED
        BY <2>2, <4>1 DEF Shown
    <3>2. ASSUME ~bits_have_unknown(other)
          PROVE  fmt_bits(other, width) # shown
      <4>1. fmt_bits(other, width).form = IF width = 1 THEN "dec" ELSE "hex"
        BY <1>1, <3>2 DEF Shown
      <4>. QED
        BY <2>6, <4>1
    <3>. QED
      BY <2>11, <3>1, <3>2
  <2>. QED
    BY <1>0, <2>8, <2>9, <2>10, <2>12
<1>3. CASE ~bits_have_unknown(raw)
  <2>1. PICK n : n = from_binary(normalize_bits(raw))
    OBVIOUS
  <2>2. PICK form : form = IF width = 1 THEN "dec" ELSE "hex"
    OBVIOUS
  <2>3. shown = Shown(form, << >>, n)
    BY <1>3, <2>1, <2>2, ShownFacts
  <2>4. form \in {"dec", "hex"}
    BY <2>2
  <2>5. shown.form = form /\ shown.num = n
    BY <2>3 DEF Shown
  <2>6. parse_target_value(shown) = IntTarget(n)
    <3>. HIDE DEF shown
    <3>. QED
      BY <2>4, <2>5 DEF parse_target_value
  <2>7. target.ok = TRUE /\ target.int = TRUE /\ target.value = n
    BY <2>6 DEF IntTarget
  <2>8. value_matches(other, "Bits", target, width) <=>
          is_clean_binary(other) /\ from_binary(normalize_bits(other)) = n
    BY <2>7 DEF value_matches
  <2>9. is_clean_binary(other) <=> ~bits_have_unknown(other)
    BY DEF is_clean_binary, has_unknown, bits_have_unknown, Readable
  <2>10. fmt_bits(other, width) = shown <=>
           ~bits_have_unknown(other) /\ from_binary(normalize_bits(other)) = n
    <3>1. ASSUME bits_have_unknown(other) PROVE fmt_bits(other, width) # shown
      <4>1. fmt_bits(other, width).form = "bin"
        BY <1>1, <3>1 DEF Shown
      <4>. QED
        BY <2>4, <2>5, <4>1
    <3>2. ASSUME ~bits_have_unknown(other)
          PROVE  fmt_bits(other, width) = shown <=> from_binary(normalize_bits(other)) = n
      <4>1. fmt_bits(other, width) = Shown(form, << >>, from_binary(normalize_bits(other)))
        BY <1>1, <2>2, <3>2
      <4>. QED
        BY <2>3, <4>1 DEF Shown
    <3>. QED
      BY <3>1, <3>2
  <2>. QED
    BY <1>0, <2>7, <2>8, <2>9, <2>10
<1>. QED
  BY <1>2, <1>3

(* To a row and to a pattern, a value with more bits than the signal is the *)
(* value whose bits are all x.                                             *)
LEMMA OverlongFacts ==
  ASSUME NEW raw, raw \in Seq(Letter), NEW width, width \in Nat \ {0}, Len(raw) > width
  PROVE  /\ Readable(AllUnknown(width), width)
         /\ fmt_bits(raw, width) = fmt_bits(AllUnknown(width), width)
         /\ \A off \in Nat : BitOf(raw, width, off) = BitOf(AllUnknown(width), width, off)
<1>1. PICK u : u = AllUnknown(width)
  OBVIOUS
<1>2. u \in Seq(Letter) /\ Len(u) = width /\ \A i \in 1..width : u[i] = "x"
  <2>1. u = [i \in 1..width |-> "x"] /\ width \in Nat
    BY <1>1 DEF AllUnknown
  <2>2. u \in [1..width -> Letter]
    <3>1. "x" \in Letter
      BY DEF Letter
    <3>. QED
      BY <2>1, <3>1
  <2>3. u \in Seq(Letter)
    BY <2>1, <2>2
  <2>4. Len(u) = width
    BY <2>1
  <2>. QED
    BY <2>1, <2>3, <2>4
<1>3. Readable(u, width)
  <2>1. u # << >>
    BY <1>2
  <2>. QED
    BY <1>2, <2>1 DEF Readable
<1>4. normalize_bits(u) = u
  <2>1. norm_bit("x") = "x"
    BY DEF norm_bit
  <2>2. \A i \in DOMAIN u : norm_bit(u[i]) = u[i]
    BY <1>2, <2>1
  <2>3. u = [i \in DOMAIN u |-> u[i]]
    BY <1>2
  <2>. QED
    BY <2>2, <2>3 DEF normalize_bits
<1>5. \E i \in DOMAIN u : u[i] \in {"x", "z"}
  BY <1>2
<1>6. fmt_bits(raw, width) = Shown("bin", u, 0)
  <2>1. PICK bits : bits = normalize_bits(raw)
    OBVIOUS
  <2>2. Len(bits) > width
    BY <2>1 DEF normalize_bits
  <2>. QED
    BY <1>1, <1>5, <2>1, <2>2 DEF fmt_bits
<1>7. fmt_bits(u, width) = Shown("bin", u, 0)
  <2>1. bits_have_unknown(u)
    BY <1>2 DEF bits_have_unknown
  <2>2. Len(normalize_bits(u)) = width /\ normalize_bits(u) = u
    BY <1>2, <1>4
  <2>3. Fitted(u, width) = u
    <3>1. [i \in 1..(width - Len(u)) |-> Pad(u)] = << >>
      BY <1>2
    <3>2. << >> \o u = u
      BY <1>2
    <3>. QED
      BY <1>4, <3>1, <3>2 DEF Fitted
  <2>. QED
    BY <1>3, <2>1, <2>3, ShownFacts
<1>8. ASSUME NEW off \in Nat PROVE BitOf(raw, width, off) = BitOf(u, width, off)
  <2>1. CASE off >= width
    BY <2>1 DEF BitOf
  <2>2. CASE off < width
    <3>1. BitOf(raw, width, off) = "x"
      BY <2>2 DEF BitOf
    <3>2. BitOf(u, width, off) = BitAt(u, off, Pad(u))
      BY <1>2, <1>4, <2>2 DEF BitOf
    <3>3. BitAt(u, off, Pad(u)) = "x"
      BY <1>2, <2>2 DEF BitAt
    <3>. QED
      BY <3>1, <3>2, <3>3
  <2>. QED
    BY <2>1, <2>2
<1>. QED
  BY <1>1, <1>3, <1>6, <1>7, <1>8

(* So any recorded value is shown, and read by a pattern, as one that fits. *)
LEMMA ReadAsFitting ==
  ASSUME NEW raw, raw \in Seq(Letter), raw # << >>, NEW width, width \in Nat \ {0}
  PROVE  \E r : /\ Readable(r, width) /\ fmt_bits(raw, width) = fmt_bits(r, width)
                /\ \A p : /\ pattern_compare(raw, p, width).equal
                               <=> pattern_compare(r, p, width).equal
                          /\ pattern_compare(raw, p, width).cared_unknown
                               <=> pattern_compare(r, p, width).cared_unknown
                /\ r = IF Len(raw) <= width THEN raw ELSE AllUnknown(width)
<1>1. CASE Len(raw) <= width
  BY <1>1 DEF Readable
<1>2. CASE ~(Len(raw) <= width)
  <2>1. PICK u : u = AllUnknown(width)
    OBVIOUS
  <2>2. Len(raw) > width
    BY <1>2
  <2>3. /\ Readable(u, width) /\ fmt_bits(raw, width) = fmt_bits(u, width)
        /\ \A off \in Nat : BitOf(raw, width, off) = BitOf(u, width, off)
    BY <2>1, <2>2, OverlongFacts
  <2>4. ASSUME NEW p
        PROVE  /\ pattern_compare(raw, p, width).equal <=> pattern_compare(u, p, width).equal
               /\ pattern_compare(raw, p, width).cared_unknown
                    <=> pattern_compare(u, p, width).cared_unknown
    <3>1. \A off \in Cared(p, width) : BitOf(raw, width, off) = BitOf(u, width, off)
      BY <2>3 DEF Cared
    <3>2. /\ pattern_compare(raw, p, width).equal <=>
               \A off \in Cared(p, width) : BitOf(raw, width, off) = Want(p, off)
          /\ pattern_compare(u, p, width).equal <=>
               \A off \in Cared(p, width) : BitOf(u, width, off) = Want(p, off)
          /\ pattern_compare(raw, p, width).cared_unknown <=>
               \E off \in Cared(p, width) : BitOf(raw, width, off) \in Unclear
          /\ pattern_compare(u, p, width).cared_unknown <=>
               \E off \in Cared(p, width) : BitOf(u, width, off) \in Unclear
      BY CompareFacts
    <3>. QED
      BY <3>1, <3>2
  <2>. QED
    BY <1>2, <2>1, <2>3, <2>4
<1>. QED
  BY <1>1, <1>2

(* What a value is shown as, given back, holds of any other that is shown  *)
(* so, and of no other; a number only if the other has no bits too many.   *)
LEMMA ShownHolds ==
  ASSUME NEW raw, raw \in Seq(Letter), raw # << >>,
         NEW other, other \in Seq(Letter), other # << >>,
         NEW width, width \in Nat \ {0},
         NEW target, target = parse_target_value(fmt_bits(raw, width))
  PROVE  /\ target.ok
         /\ Len(other) <= width \/ ~target.int =>
              (condition_match(other, "Bits", "=", target, width)
                 <=> fmt_bits(other, width) = fmt_bits(raw, width))
<1>1. PICK r : Readable(r, width) /\ fmt_bits(raw, width) = fmt_bits(r, width)
  BY ReadAsFitting
<1>2. PICK o : /\ Readable(o, width) /\ fmt_bits(other, width) = fmt_bits(o, width)
               /\ \A p : pattern_compare(other, p, width).equal
                           <=> pattern_compare(o, p, width).equal
               /\ Len(other) <= width => o = other
  BY ReadAsFitting
<1>3. target.ok /\ (condition_match(o, "Bits", "=", target, width)
                      <=> fmt_bits(o, width) = fmt_bits(r, width))
  BY <1>1, <1>2, ShownMatches
<1>4. ~target.int => (condition_match(other, "Bits", "=", target, width)
                       <=> condition_match(o, "Bits", "=", target, width))
  <2>1. ASSUME ~target.int, NEW v
        PROVE  condition_match(v, "Bits", "=", target, width)
                 <=> pattern_compare(v, target.raw, width).equal
    BY <2>1 DEF condition_match, value_matches
  <2>. QED
    BY <1>2, <2>1
<1>. QED
  BY <1>1, <1>2, <1>3, <1>4

(* = and != of one value and one target.                                   *)
LEMMA DecidedFacts ==
  ASSUME NEW raw, raw \in Seq(Letter), raw # << >>, NEW width, width \in Nat \ {0},
         NEW t, t \in Targets(width),
         NEW eq, eq = condition_match(raw, "Bits", "=", t, width),
         NEW ne, ne = condition_match(raw, "Bits", "!=", t, width)
  PROVE  /\ ~(eq /\ ne)
         /\ ~bits_have_unknown(raw) /\ (t.int \/ Len(raw) <= width) => eq \/ ne
         /\ bits_have_unknown(raw) /\ t.int => ~eq /\ ~ne
         /\ ~t.int /\ ~(Len(raw) <= width) =>
              /\ eq <=> condition_match(AllUnknown(width), "Bits", "=", t, width)
              /\ ne <=> condition_match(AllUnknown(width), "Bits", "!=", t, width)
<1>1. eq <=> value_matches(raw, "Bits", t, width)
  BY DEF condition_match
<1>2. has_unknown(raw) <=> bits_have_unknown(raw)
  BY DEF has_unknown, bits_have_unknown
<1>3. is_clean_binary(raw) => ~bits_have_unknown(raw)
  BY <1>2 DEF is_clean_binary
<1>4. t.int = TRUE \/ t.int = FALSE
  BY DEF Targets, RawTarget, IntTarget
<1>5. CASE t.int = TRUE
  <2>1. ne <=> ~has_unknown(raw) /\ ~value_matches(raw, "Bits", t, width)
    BY <1>5 DEF condition_match
  <2>2. value_matches(raw, "Bits", t, width) => is_clean_binary(raw)
    BY <1>5 DEF value_matches
  <2>. QED
    BY <1>1, <1>2, <1>3, <1>5, <2>1, <2>2
<1>6. CASE t.int = FALSE
  <2>1. ASSUME NEW v
        PROVE  /\ condition_match(v, "Bits", "=", t, width)
                    <=> pattern_compare(v, t.raw, width).equal
               /\ condition_match(v, "Bits", "!=", t, width)
                    <=> /\ ~pattern_compare(v, t.raw, width).cared_unknown
                        /\ ~pattern_compare(v, t.raw, width).equal
    BY <1>6 DEF condition_match, value_matches
  <2>2. CASE Len(raw) <= width
    <3>1. pattern_compare(raw, t.raw, width).cared_unknown => bits_have_unknown(raw)
      <4>1. SUFFICES ASSUME NEW off \in Cared(t.raw, width), BitOf(raw, width, off) \in Unclear
                     PROVE  bits_have_unknown(raw)
        BY CompareFacts
      <4>2. off \in Nat /\ Readable(raw, width)
        BY <2>2 DEF Cared, Readable
      <4>. QED
        BY <4>1, <4>2, BitOfFacts
    <3>. QED
      BY <1>6, <2>1, <2>2, <3>1
  <2>3. CASE ~(Len(raw) <= width)
    <3>1. PICK u : u = AllUnknown(width)
      OBVIOUS
    <3>2. /\ pattern_compare(raw, t.raw, width).equal <=> pattern_compare(u, t.raw, width).equal
          /\ pattern_compare(raw, t.raw, width).cared_unknown
               <=> pattern_compare(u, t.raw, width).cared_unknown
      BY <2>3, <3>1, ReadAsFitting
    <3>. QED
      BY <1>6, <2>1, <2>3, <3>1, <3>2
  <2>. QED
    BY <2>2, <2>3
<1>. QED
  BY <1>4, <1>5, <1>6

(***************************************************************************)
(* Recordings: the changes up to a tick come first.                        *)
(***************************************************************************)
Ordered(changes) ==
  /\ changes \in Seq([tick : Nat, raw : Seq(STRING)])
  /\ \A i, j \in DOMAIN changes : i < j => changes[i].tick <= changes[j].tick
  /\ \A i \in DOMAIN changes : changes[i].raw # Undef

LEMMA OrderedFacts ==
  ASSUME NEW changes, Ordered(changes)
  PROVE  /\ Len(changes) \in Nat /\ DOMAIN changes = 1..Len(changes)
         /\ \A i \in 1..Len(changes) : changes[i].tick \in Nat /\ changes[i].raw \in Seq(STRING)
                                         /\ changes[i].raw # Undef
         /\ \A i, j \in 1..Len(changes) : i < j => changes[i].tick <= changes[j].tick
<1>1. PICK S : S = [tick : Nat, raw : Seq(STRING)]
  OBVIOUS
<1>2. changes \in Seq(S)
  BY <1>1 DEF Ordered
<1>3. Len(changes) \in Nat /\ DOMAIN changes = 1..Len(changes)
  BY <1>2
<1>4. \A i \in 1..Len(changes) : changes[i] \in S
  BY <1>2
<1>5. ASSUME NEW x \in S PROVE x.tick \in Nat /\ x.raw \in Seq(STRING)
  BY <1>1
<1>. QED
  BY <1>3, <1>4, <1>5 DEF Ordered

(* How many changes there are up to a tick.                                *)
Reach(changes, t) == last_at_or_before(changes, t)

LEMMA ReachFacts ==
  ASSUME NEW changes, Ordered(changes), NEW t \in Int
  PROVE  /\ Reach(changes, t) \in 0..Len(changes) /\ Len(changes) \in Nat
         /\ upper_bound(changes, t) = Reach(changes, t)
         /\ \A i \in 1..Len(changes) : changes[i].tick <= t <=> i <= Reach(changes, t)
<1>. DEFINE upto == {i \in DOMAIN changes : changes[i].tick <= t}
<1>1. PICK n \in Nat : n = Len(changes) /\ DOMAIN changes = 1..n
  BY OrderedFacts
<1>2. /\ \A i \in 1..n : changes[i].tick \in Nat
      /\ \A i, j \in 1..n : i < j => changes[i].tick <= changes[j].tick
  BY <1>1, OrderedFacts
<1>3. \E k \in 0..n : upto = 1..k
  <2>. DEFINE S == {m \in 0..n : \E k \in 0..m : {i \in 1..m : changes[i].tick <= t} = 1..k}
  <2>1. 0 \in S
    <3>1. {i \in 1..0 : changes[i].tick <= t} = 1..0
      OBVIOUS
    <3>. QED
      BY <3>1
  <2>2. ASSUME NEW m \in 1..n, m - 1 \in S PROVE m \in S
    <3>1. PICK k \in 0..(m - 1) : {i \in 1..(m - 1) : changes[i].tick <= t} = 1..k
      BY <2>2
    <3>2. CASE changes[m].tick <= t
      <4>1. ASSUME NEW i \in 1..m PROVE changes[i].tick <= t
        <5>1. i < m => changes[i].tick <= changes[m].tick
          BY <1>2, <4>1
        <5>2. changes[i].tick \in Nat /\ changes[m].tick \in Nat
          BY <1>2
        <5>3. i < m \/ i = m
          OBVIOUS
        <5>. QED
          BY <3>2, <5>1, <5>2, <5>3
      <4>2. {i \in 1..m : changes[i].tick <= t} = 1..m
        BY <4>1
      <4>3. m \in 0..m
        OBVIOUS
      <4>. QED
        BY <4>2, <4>3
    <3>3. CASE ~(changes[m].tick <= t)
      <4>1. {i \in 1..m : changes[i].tick <= t} = {i \in 1..(m - 1) : changes[i].tick <= t}
        BY <3>3
      <4>2. k \in 0..m /\ {i \in 1..m : changes[i].tick <= t} = 1..k
        BY <3>1, <4>1
      <4>. QED
        BY <4>2
    <3>. QED
      BY <3>2, <3>3
  <2>. HIDE DEF S
  <2>3. \A m \in 0..n : m \in S
    BY <2>1, <2>2, UpTo
  <2>4. n \in S
    BY <2>3
  <2>5. upto = {i \in 1..n : changes[i].tick <= t}
    BY <1>1
  <2>. QED
    BY <2>4, <2>5 DEF S
<1>4. PICK k \in 0..n : upto = 1..k
  BY <1>3
<1>. HIDE DEF upto
<1>5. Reach(changes, t) = k
  <2>1. Reach(changes, t) = IF upto = {} THEN 0 ELSE LastOf(upto)
    BY DEF Reach, last_at_or_before, upto
  <2>2. CASE k = 0
    BY <1>4, <2>1, <2>2
  <2>3. CASE k # 0
    <3>1. k \in 1..k /\ \A j \in 1..k : j <= k
      BY <2>3
    <3>2. \A i \in 1..k : (\A j \in 1..k : j <= i) => i = k
      BY <2>3
    <3>3. LastOf(1..k) = k
      BY <3>1, <3>2 DEF LastOf
    <3>. QED
      BY <1>4, <2>1, <3>1, <3>3
  <2>. QED
    BY <2>2, <2>3
<1>6. upper_bound(changes, t) = k
  <2>1. upper_bound(changes, t) = Cardinality(upto)
    BY DEF upper_bound, upto
  <2>2. Cardinality(1..k) = k
    BY FS_Interval
  <2>. QED
    BY <1>4, <2>1, <2>2
<1>7. \A i \in 1..n : changes[i].tick <= t <=> i <= k
  <2>1. SUFFICES ASSUME NEW i \in 1..n PROVE changes[i].tick <= t <=> i <= k
    OBVIOUS
  <2>2. changes[i].tick <= t <=> i \in upto
    BY <1>1 DEF upto
  <2>. QED
    BY <1>4, <2>2
<1>. QED
  BY <1>1, <1>4, <1>5, <1>6, <1>7

LEMMA ReachGrows ==
  ASSUME NEW changes, Ordered(changes), NEW t \in Int, NEW u \in Int, t <= u
  PROVE  Reach(changes, t) <= Reach(changes, u)
<1>1. PICK n \in Nat : n = Len(changes)
  BY ReachFacts
<1>2. PICK k \in 0..n : k = Reach(changes, t)
  BY <1>1, ReachFacts
<1>3. PICK m \in 0..n : m = Reach(changes, u)
  BY <1>1, ReachFacts
<1>4. /\ \A i \in 1..n : changes[i].tick <= t <=> i <= k
      /\ \A i \in 1..n : changes[i].tick <= u <=> i <= m
  BY <1>1, <1>2, <1>3, ReachFacts
<1>5. CASE k = 0
  BY <1>2, <1>3, <1>5
<1>6. CASE k # 0
  <2>1. k \in 1..n /\ changes[k].tick <= t
    BY <1>4, <1>6
  <2>2. changes[k].tick \in Nat
    BY <1>1, <2>1, OrderedFacts
  <2>3. changes[k].tick <= u
    BY <2>1, <2>2
  <2>. QED
    BY <1>2, <1>3, <1>4, <2>1, <2>3
<1>. QED
  BY <1>5, <1>6

(* The changes of a window that are counted: those past the baseline.      *)
Baseline(t0) == init_boundary(t0)

LEMMA BaselineFacts ==
  ASSUME NEW t0 \in Nat
  PROVE  Baseline(t0) \in Nat /\ Baseline(t0) <= t0
         /\ \A t \in Nat : (t0 <= t /\ t > 0) <=> ~(t <= Baseline(t0))
BY DEF Baseline, init_boundary

LEMMA CountedFacts ==
  ASSUME NEW changes, Ordered(changes), NEW t0 \in Nat, NEW t1 \in Int, t0 <= t1,
         NEW counted, counted = {i \in DOMAIN changes :
                                   changes[i].tick \in t0..t1 /\ changes[i].tick > 0}
  PROVE  /\ counted = (Reach(changes, Baseline(t0)) + 1)..Reach(changes, t1)
         /\ Reach(changes, Baseline(t0)) \in Nat /\ Reach(changes, t1) \in Nat
         /\ Reach(changes, Baseline(t0)) <= Reach(changes, t1)
         /\ Cardinality(counted) = Reach(changes, t1) - Reach(changes, Baseline(t0))
<1>1. PICK b \in Nat : b = Baseline(t0)
  BY BaselineFacts
<1>2. b <= t0 /\ b <= t1 /\ \A t \in Nat : (t0 <= t /\ t > 0) <=> ~(t <= b)
  BY <1>1, BaselineFacts
<1>3. PICK n \in Nat : n = Len(changes) /\ DOMAIN changes = 1..n
  BY OrderedFacts
<1>4. PICK k \in 0..n : k = Reach(changes, b)
  BY <1>3, ReachFacts
<1>5. PICK m \in 0..n : m = Reach(changes, t1)
  BY <1>3, ReachFacts
<1>6. /\ \A i \in 1..n : changes[i].tick <= b <=> i <= k
      /\ \A i \in 1..n : changes[i].tick <= t1 <=> i <= m
  <2>1. \A i \in 1..n : changes[i].tick <= b <=> i <= k
    <3>1. b \in Int /\ Ordered(changes)
      OBVIOUS
    <3>. QED
      BY <1>3, <1>4, <3>1, ReachFacts
  <2>2. \A i \in 1..n : changes[i].tick <= t1 <=> i <= m
    BY <1>3, <1>5, ReachFacts
  <2>. QED
    BY <2>1, <2>2
<1>7. k <= m
  BY <1>2, <1>4, <1>5, ReachGrows
<1>8. \A i \in 1..n : changes[i].tick \in Nat
  BY <1>3, OrderedFacts
<1>9. counted = (k + 1)..m
  <2>1. ASSUME NEW i \in 1..n PROVE i \in counted <=> i \in (k + 1)..m
    <3>1. PICK t \in Nat : t = changes[i].tick
      BY <1>8
    <3>2. i \in counted <=> t \in t0..t1 /\ t > 0
      BY <1>3, <3>1
    <3>3. t \in t0..t1 /\ t > 0 <=> ~(t <= b) /\ t <= t1
      BY <1>2
    <3>4. t <= b <=> i <= k
      BY <1>6, <3>1
    <3>5. t <= t1 <=> i <= m
      BY <1>6, <3>1
    <3>. QED
      BY <3>2, <3>3, <3>4, <3>5
  <2>2. counted \subseteq 1..n /\ (k + 1)..m \subseteq 1..n
    BY <1>3
  <2>. QED
    BY <2>1, <2>2
<1>10. Cardinality((k + 1)..m) = m - k
  <2>1. Cardinality((k + 1)..m) = IF k + 1 > m THEN 0 ELSE m - (k + 1) + 1
    BY FS_Interval
  <2>. QED
    BY <1>7, <2>1
<1>11. k \in Nat /\ m \in Nat
  OBVIOUS
<1>12. Reach(changes, Baseline(t0)) = k /\ Reach(changes, t1) = m
  BY <1>1, <1>4, <1>5
<1>. QED
  BY <1>7, <1>9, <1>10, <1>11, <1>12

(***************************************************************************)
(* Times.                                                                  *)
(***************************************************************************)
LEMMA RoundFacts ==
  ASSUME NEW n \in Nat, NEW d \in Nat \ {0}
  PROVE  round_half_even(n, d) \in Nat
<1>1. PICK q : q = n \div d
  OBVIOUS
<1>2. q \in Nat
  BY <1>1
<1>3. round_half_even(n, d) =
        CASE 2 * (n % d) < d -> q
          [] 2 * (n % d) > d -> q + 1
          [] OTHER -> IF q % 2 = 0 THEN q ELSE q + 1
  BY <1>1, Zenon DEF round_half_even
<1>4. PICK r : r = n % d
  OBVIOUS
<1>5. round_half_even(n, d) \in {q, q + 1}
  BY <1>3, <1>4
<1>. QED
  BY <1>2, <1>5

LEMMA TimeFacts ==
  ASSUME NEW text, IsArgument(text), text # NoTime
  PROVE  parse_time(text).tick \in Nat
<1>1. /\ text.num \in Nat /\ text.den \in Nat \ {0}
      /\ text.unit # "" => UnitFs[text.unit] \in Nat \ {0}
  <2>1. /\ text.num \in Nat /\ text.den \in Nat \ {0}
        /\ text.unit \in {""} \cup DOMAIN UnitFs
    BY DEF IsArgument
  <2>2. DOMAIN UnitFs = {"fs", "ps", "ns"}
    BY SMT DEF UnitFs
  <2>3. UnitFs["fs"] \in Nat \ {0} /\ UnitFs["ps"] \in Nat \ {0} /\ UnitFs["ns"] \in Nat \ {0}
    BY SMT DEF UnitFs
  <2>. QED
    BY <2>1, <2>2, <2>3
<1>2. TimeError.tick \in Nat
  BY DEF TimeError
<1>3. \A n \in Nat : Tick(n).tick \in Nat
  BY <1>2 DEF Tick
<1>4. CASE text.minus /\ text.num # 0
  BY <1>2, <1>4 DEF parse_time
<1>5. CASE ~(text.minus /\ text.num # 0) /\ text.unit = "" /\ text.point
  BY <1>2, <1>5 DEF parse_time
<1>6. CASE ~(text.minus /\ text.num # 0) /\ text.unit = "" /\ ~text.point
  <2>1. parse_time(text) = Tick(text.num)
    BY <1>6 DEF parse_time
  <2>. QED
    BY <1>1, <1>3, <2>1
<1>7. CASE ~(text.minus /\ text.num # 0) /\ text.unit # "" /\ (text.underscores \/ TickFs = 0)
  BY <1>2, <1>7 DEF parse_time
<1>8. CASE ~(text.minus /\ text.num # 0) /\ text.unit # "" /\ ~(text.underscores \/ TickFs = 0)
  <2>1. PICK u : u = UnitFs[text.unit]
    OBVIOUS
  <2>2. u \in Nat
    BY <1>1, <1>8, <2>1
  <2>3. TickFs \in Nat \ {0}
    BY <1>8, ValuesAssumption
  <2>4. text.num * u \in Nat /\ text.den * TickFs \in Nat \ {0}
    <3>1. PICK a \in Nat, d \in Nat \ {0}, f \in Nat \ {0} : a = text.num /\ d = text.den /\ f = TickFs
      BY <1>1, <2>3
    <3>2. a * u \in Nat
      BY <2>2
    <3>3. d * f \in Nat \ {0}
      OBVIOUS
    <3>. QED
      BY <3>1, <3>2, <3>3
  <2>5. round_half_even(text.num * u, text.den * TickFs) \in Nat
    BY <2>4, RoundFacts
  <2>6. parse_time(text) = Tick(round_half_even(text.num * u, text.den * TickFs))
    BY <1>8, <2>1 DEF parse_time
  <2>. QED
    BY <1>3, <2>5, <2>6
<1>. QED
  BY <1>4, <1>5, <1>6, <1>7, <1>8

WindowOK(w) == w.t0 \in Nat /\ w.t1 \in Nat /\ w.t0 <= w.t1

LEMMA WindowFacts ==
  ASSUME NEW begin, NEW end, IsArgument(begin), IsArgument(end),
         parse_window(begin, end).ok
  PROVE  WindowOK(parse_window(begin, end))
<1>1. PICK b : b = IF begin = NoTime THEN [ok |-> TRUE, tick |-> 0] ELSE parse_time(begin)
  OBVIOUS
<1>2. PICK e : e = IF end = NoTime THEN [ok |-> TRUE, tick |-> MaxTicks] ELSE parse_time(end)
  OBVIOUS
<1>3. b.tick \in Nat
  <2>1. CASE begin = NoTime
    BY <1>1, <2>1
  <2>2. CASE begin # NoTime
    BY <1>1, <2>2, TimeFacts
  <2>. QED
    BY <2>1, <2>2
<1>4. e.tick \in Nat
  <2>1. CASE end = NoTime
    BY <1>2, <2>1, ValuesAssumption
  <2>2. CASE end # NoTime
    BY <1>2, <2>2, TimeFacts
  <2>. QED
    BY <2>1, <2>2
<1>. DEFINE fine == b.ok /\ e.ok /\ b.tick <= e.tick
<1>5. parse_window(begin, end) = [ok |-> fine, t0 |-> b.tick, t1 |-> e.tick]
  BY <1>1, <1>2 DEF parse_window
<1>6. /\ parse_window(begin, end).ok = fine
      /\ parse_window(begin, end).t0 = b.tick /\ parse_window(begin, end).t1 = e.tick
  <2>. HIDE DEF fine
  <2>. QED
    BY <1>5
<1>7. fine
  BY <1>6
<1>. QED
  BY <1>3, <1>4, <1>6, <1>7 DEF WindowOK

(***************************************************************************)
(* The invariant, with the file and the window as parameters.              *)
(***************************************************************************)
TextOf(tr, s, i) ==
  IF i = 0 THEN Shown("undef", << >>, 0) ELSE fmt_val(tr[s][i].raw, Kind[s], Width[s])
SnapOf(tr, s, t) == TextOf(tr, s, Reach(tr[s], t))
CountedOf(tr, w, s) ==
  {i \in DOMAIN tr[s] : tr[s][i].tick \in w.t0..w.t1 /\ tr[s][i].tick > 0}

(* A scan is at its place behind the baseline and has counted what it went *)
(* past.                                                                   *)
ScanOK(tr, w, sc) ==
  LET before == Reach(tr[sc.sid], Baseline(w.t0))
      last == Reach(tr[sc.sid], w.t1)
  IN  /\ {"sid", "base", "next", "upper", "changes", "first_at"} \subseteq DOMAIN sc
      /\ sc.base = before /\ sc.upper = last
      /\ sc.next \in (before + 1)..(last + 1)
      /\ sc.changes = sc.next - (before + 1)
      /\ sc.first_at = IF sc.changes = 0 THEN -1 ELSE tr[sc.sid][before + 1].tick

(* What a row of summary says.                                             *)
Promised(tr, w, s, row) ==
  /\ row.last = SnapOf(tr, s, w.t1)
  /\ row.init = SnapOf(tr, s, Baseline(w.t0))
  /\ row.changes = Cardinality(CountedOf(tr, w, s))
  /\ row.init # row.last => row.active
  /\ row.active =>
       row.first_at = tr[s][CHOOSE i \in CountedOf(tr, w, s) :
                              \A j \in CountedOf(tr, w, s) : i <= j].tick

(* What the rows of snapshot and compare say.                              *)
PointOK(tr, w, c, rs) ==
  \A s \in c.sel :
    /\ c.cmd = "snapshot" =>
         IF s \in DOMAIN rs THEN rs[s] = SnapOf(tr, s, w.t1)
         ELSE SnapOf(tr, s, w.t1).form = "undef"
    /\ c.cmd = "compare" =>
         IF s \in DOMAIN rs THEN rs[s] = <<SnapOf(tr, s, w.t0), SnapOf(tr, s, w.t1)>>
         ELSE SnapOf(tr, s, w.t0) = SnapOf(tr, s, w.t1)

TypePart ==
  /\ trace \in Recordings /\ command \in Commands
  /\ phase \in {"parse", "visit", "error", "done"}
  /\ phase \in {"visit", "done"} => WindowOK(window)

ScanPart ==
  scan # NoScan =>
    /\ phase = "visit" /\ command.cmd = "summary" /\ scan.sid \in todo
    /\ ScanOK(trace, window, scan)

SummaryPart ==
  command.cmd = "summary" =>
    /\ todo \subseteq command.sel /\ command.sel \subseteq todo \cup undefined \cup DOMAIN rows
    /\ phase = "parse" => undefined = {} /\ DOMAIN rows = {}
    /\ phase = "done" => todo = {}
    /\ \A s \in undefined : SnapOf(trace, s, window.t1).form = "undef"
    /\ \A s \in DOMAIN rows : s \in command.sel /\ Promised(trace, window, s, rows[s])

PointPart == phase = "done" => PointOK(trace, window, command, rows)

StatInv == TypePart /\ ScanPart /\ SummaryPart /\ PointPart

LEMMA SignalFacts ==
  ASSUME TypePart, NEW s \in command.sel
  PROVE  s \in Sid /\ Ordered(trace[s]) /\ Width[s] \in Nat \ {0}
<1>1. s \in Sid /\ trace \in Recordings
  BY StatisticsAssumption DEF TypePart
<1>. QED
  BY <1>1, StatisticsAssumption DEF Ordered

LEMMA StatStarts ==
  ASSUME Init
  PROVE  StatInv
<1>1. /\ trace \in Recordings /\ command \in Commands /\ phase = "parse" /\ todo = command.sel
      /\ scan = NoScan /\ rows = << >> /\ undefined = {}
  BY DEF Init
<1>2. DOMAIN rows = {}
  BY <1>1
<1>. QED
  BY <1>1, <1>2 DEF StatInv, TypePart, ScanPart, SummaryPart, PointPart

LEMMA ParsePreserves ==
  ASSUME StatInv, ParseTimes
  PROVE  StatInv'
<1>1. /\ phase = "parse" /\ window' = parse_window(command.begin, command.end)
      /\ phase' = IF parse_window(command.begin, command.end).ok THEN "visit" ELSE "error"
      /\ trace' = trace /\ command' = command /\ todo' = todo /\ scan' = scan
      /\ rows' = rows /\ undefined' = undefined
  BY DEF ParseTimes
<1>2. IsArgument(command.begin) /\ IsArgument(command.end)
  BY StatisticsAssumption DEF StatInv, TypePart
<1>3. phase' = "visit" => WindowOK(window')
  BY <1>1, <1>2, WindowFacts
<1>4. TypePart'
  BY <1>1, <1>3 DEF StatInv, TypePart
<1>5. ScanPart'
  BY <1>1 DEF StatInv, ScanPart
<1>6. SummaryPart'
  BY <1>1 DEF StatInv, SummaryPart
<1>7. PointPart'
  BY <1>1 DEF PointPart
<1>. QED
  BY <1>4, <1>5, <1>6, <1>7 DEF StatInv

LEMMA BeginPreserves ==
  ASSUME StatInv, BeginScan
  PROVE  StatInv'
<1>1. PICK s : s = CHOOSE x \in todo : TRUE
  OBVIOUS
<1>2. /\ phase = "visit" /\ command.cmd = "summary" /\ todo # {}
      /\ trace' = trace /\ command' = command /\ phase' = phase /\ window' = window
      /\ todo' = todo /\ rows' = rows /\ undefined' = undefined
  BY DEF BeginScan
<1>3. s \in todo /\ s \in command.sel
  BY <1>1, <1>2 DEF StatInv, SummaryPart
<1>4. PICK t0 \in Nat, t1 \in Nat : t0 = window.t0 /\ t1 = window.t1 /\ t0 <= t1
  BY <1>2 DEF StatInv, TypePart, WindowOK
<1>5. PICK b \in Nat : b = Baseline(t0) /\ b <= t0
  BY BaselineFacts
<1>6. Ordered(trace[s])
  BY <1>3, SignalFacts DEF StatInv
<1>7. PICK tr : tr = trace[s]
  OBVIOUS
<1>8. PICK k : k = Reach(tr, b)
  OBVIOUS
<1>9. PICK m : m = Reach(tr, t1)
  OBVIOUS
<1>10. k \in Nat /\ m \in Nat /\ k <= m /\ upper_bound(tr, b) = k /\ upper_bound(tr, t1) = m
  <2>1. Ordered(tr) /\ b \in Int /\ t1 \in Int /\ b <= t1
    BY <1>4, <1>5, <1>6, <1>7
  <2>2. k \in Nat /\ upper_bound(tr, b) = k
    BY <1>8, <2>1, ReachFacts
  <2>3. m \in Nat /\ upper_bound(tr, t1) = m
    BY <1>9, <2>1, ReachFacts
  <2>4. k <= m
    BY <1>8, <1>9, <2>1, ReachGrows
  <2>. QED
    BY <2>2, <2>3, <2>4
<1>11. last_at_or_before(trace[s], init_boundary(window.t0)) = k
       /\ upper_bound(trace[s], init_boundary(window.t0)) = k
       /\ upper_bound(trace[s], window.t1) = m
  BY <1>4, <1>5, <1>7, <1>8, <1>10 DEF Reach, Baseline
<1>12. /\ {"sid", "base", "next", "upper", "changes", "first_at"} \subseteq DOMAIN scan'
       /\ scan'.sid = s /\ scan'.base = k /\ scan'.next = k + 1 /\ scan'.upper = m
       /\ scan'.changes = 0 /\ scan'.first_at = -1
  BY <1>1, <1>11 DEF BeginScan
<1>13. ScanOK(trace', window', scan')
  <2>1. Reach(trace'[scan'.sid], Baseline(window'.t0)) = k /\ Reach(trace'[scan'.sid], window'.t1) = m
    BY <1>2, <1>4, <1>5, <1>7, <1>8, <1>9, <1>12
  <2>. QED
    BY <1>10, <1>12, <2>1 DEF ScanOK
<1>14. TypePart' /\ SummaryPart' /\ PointPart'
  BY <1>2 DEF StatInv, TypePart, SummaryPart, PointPart
<1>15. ScanPart'
  BY <1>2, <1>3, <1>12, <1>13 DEF ScanPart
<1>. QED
  BY <1>14, <1>15 DEF StatInv

LEMMA ChangePreserves ==
  ASSUME StatInv, ScanChange
  PROVE  StatInv'
<1>1. /\ scan # NoScan /\ scan.next <= scan.upper
      /\ trace' = trace /\ command' = command /\ phase' = phase /\ window' = window
      /\ todo' = todo /\ rows' = rows /\ undefined' = undefined
  BY DEF ScanChange
<1>2. phase = "visit" /\ command.cmd = "summary" /\ scan.sid \in todo /\ ScanOK(trace, window, scan)
  BY <1>1 DEF StatInv, ScanPart
<1>3. PICK k : k = Reach(trace[scan.sid], Baseline(window.t0))
  OBVIOUS
<1>4. PICK m : m = Reach(trace[scan.sid], window.t1)
  OBVIOUS
<1>5. /\ {"sid", "base", "next", "upper", "changes", "first_at"} \subseteq DOMAIN scan
      /\ scan.base = k /\ scan.upper = m /\ scan.next \in (k + 1)..(m + 1)
      /\ scan.changes = scan.next - (k + 1)
      /\ scan.first_at = IF scan.changes = 0 THEN -1 ELSE trace[scan.sid][k + 1].tick
  BY <1>2, <1>3, <1>4 DEF ScanOK
<1>6. k \in Nat /\ m \in Nat /\ \A i \in 1..m : trace[scan.sid][i].tick \in Nat
  <2>1. scan.sid \in command.sel
    BY <1>2 DEF StatInv, SummaryPart
  <2>2. Ordered(trace[scan.sid])
    BY <2>1, SignalFacts DEF StatInv
  <2>3. window.t0 \in Nat /\ window.t1 \in Nat
    BY <1>2 DEF StatInv, TypePart, WindowOK
  <2>4. Baseline(window.t0) \in Int /\ window.t1 \in Int
    BY <2>3, BaselineFacts
  <2>5. k \in Nat
    BY <1>3, <2>2, <2>4, ReachFacts
  <2>6. PICK t1 \in Int : t1 = window.t1
    BY <2>4
  <2>7. PICK tr : tr = trace[scan.sid] /\ Ordered(tr)
    BY <2>2
  <2>8. m \in 0..Len(tr) /\ Len(tr) \in Nat
    <3>1. Reach(tr, t1) \in 0..Len(tr) /\ Len(tr) \in Nat
      BY <2>7, ReachFacts
    <3>. QED
      BY <1>4, <2>6, <2>7, <3>1
  <2>9. \A i \in 1..Len(tr) : tr[i].tick \in Nat
    BY <2>7, OrderedFacts
  <2>10. m \in Nat /\ \A i \in 1..m : i \in 1..Len(tr)
    BY <2>8
  <2>. QED
    BY <2>5, <2>7, <2>9, <2>10
<1>7. PICK tick : tick = trace[scan.sid][scan.next].tick
  OBVIOUS
<1>8. /\ DOMAIN scan' = DOMAIN scan
      /\ scan'.sid = scan.sid /\ scan'.base = scan.base /\ scan'.upper = scan.upper
      /\ scan'.next = scan.next + 1 /\ scan'.changes = scan.changes + 1
      /\ scan'.first_at = IF scan.first_at = -1 THEN tick ELSE scan.first_at
  BY <1>5, <1>7 DEF ScanChange
<1>9. scan'.next \in (k + 1)..(m + 1) /\ scan'.changes = scan'.next - (k + 1) /\ scan'.changes # 0
  BY <1>1, <1>5, <1>6, <1>8
<1>10. scan'.first_at = trace[scan.sid][k + 1].tick
  <2>1. CASE scan.changes = 0
    <3>1. scan.next = k + 1
      BY <1>5, <1>6, <2>1
    <3>. QED
      BY <1>5, <1>7, <1>8, <2>1, <3>1
  <2>2. CASE scan.changes # 0
    <3>1. scan.first_at = trace[scan.sid][k + 1].tick
      BY <1>5, <2>2
    <3>2. scan.first_at # -1
      <4>1. k + 1 \in 1..m
        BY <1>1, <1>5, <1>6
      <4>. QED
        BY <1>6, <3>1, <4>1
    <3>. QED
      BY <1>8, <3>1, <3>2
  <2>. QED
    BY <2>1, <2>2
<1>11. ScanOK(trace', window', scan')
  <2>1. Reach(trace'[scan'.sid], Baseline(window'.t0)) = k /\ Reach(trace'[scan'.sid], window'.t1) = m
    BY <1>1, <1>3, <1>4, <1>8
  <2>. QED
    BY <1>1, <1>5, <1>8, <1>9, <1>10, <2>1 DEF ScanOK
<1>12. TypePart' /\ SummaryPart' /\ PointPart'
  BY <1>1 DEF StatInv, TypePart, SummaryPart, PointPart
<1>13. ScanPart'
  BY <1>1, <1>2, <1>8, <1>11 DEF ScanPart
<1>. QED
  BY <1>12, <1>13 DEF StatInv


(* What the scan of a signal has found when it ends.                       *)
LEMMA EndFacts ==
  ASSUME StatInv, scan # NoScan, scan.next > scan.upper,
         NEW s, s = scan.sid, NEW row, row = SummaryRow(s)
  PROVE  /\ scan.base # 0 \/ scan.changes > 0 => Promised(trace, window, s, row)
         /\ ~(scan.base # 0 \/ scan.changes > 0) => SnapOf(trace, s, window.t1).form = "undef"
<1>1. /\ phase = "visit" /\ command.cmd = "summary" /\ s \in todo
      /\ ScanOK(trace, window, scan)
  BY DEF StatInv, ScanPart
<1>2. s \in command.sel
  BY <1>1 DEF StatInv, SummaryPart
<1>3. PICK tr : tr = trace[s] /\ Ordered(tr)
  BY <1>2, SignalFacts DEF StatInv
<1>4. PICK t0 \in Nat, t1 \in Nat : t0 = window.t0 /\ t1 = window.t1 /\ t0 <= t1
  BY <1>1 DEF StatInv, TypePart, WindowOK
<1>5. PICK counted : counted = {i \in DOMAIN tr : tr[i].tick \in t0..t1 /\ tr[i].tick > 0}
  OBVIOUS
<1>6. PICK k : k = Reach(tr, Baseline(t0))
  OBVIOUS
<1>7. PICK m : m = Reach(tr, t1)
  OBVIOUS
<1>8. /\ counted = (k + 1)..m /\ k \in Nat /\ m \in Nat /\ k <= m
      /\ Cardinality(counted) = m - k
  <2>1. Ordered(tr) /\ t1 \in Int /\ t0 <= t1
    BY <1>3, <1>4
  <2>2. /\ counted = (Reach(tr, Baseline(t0)) + 1)..Reach(tr, t1)
        /\ Reach(tr, Baseline(t0)) \in Nat /\ Reach(tr, t1) \in Nat
        /\ Reach(tr, Baseline(t0)) <= Reach(tr, t1)
        /\ Cardinality(counted) = Reach(tr, t1) - Reach(tr, Baseline(t0))
    BY <1>5, <2>1, CountedFacts
  <2>. QED
    BY <1>6, <1>7, <2>2
<1>9. /\ scan.base = k /\ scan.upper = m /\ scan.next \in (k + 1)..(m + 1)
      /\ scan.changes = scan.next - (k + 1)
      /\ scan.first_at = IF scan.changes = 0 THEN -1 ELSE tr[k + 1].tick
  BY <1>1, <1>3, <1>4, <1>6, <1>7 DEF ScanOK
<1>10. scan.changes = m - k
  <2>1. PICK x \in Int : x = scan.next
    BY <1>8, <1>9
  <2>2. x > m /\ x <= m + 1
    BY <1>8, <1>9, <2>1
  <2>. QED
    BY <1>8, <1>9, <2>1, <2>2
<1>11. /\ SnapOf(trace, s, window.t1) = TextOf(trace, s, m)
       /\ SnapOf(trace, s, Baseline(window.t0)) = TextOf(trace, s, k)
       /\ CountedOf(trace, window, s) = counted
  BY <1>3, <1>4, <1>5, <1>6, <1>7 DEF SnapOf, CountedOf
<1>12. ASSUME scan.base # 0 \/ scan.changes > 0 PROVE Promised(trace, window, s, row)
  <2>. DEFINE active == scan.changes > 0
  <2>1. /\ row.active = active /\ row.changes = m - k
        /\ row.init = Text(s, k) /\ row.last = Text(s, IF active THEN m ELSE k)
        /\ row.first_at = scan.first_at
    <3>1. PICK last : last = Text(s, IF active THEN m ELSE k)
      OBVIOUS
    <3>2. row = [active |-> active, changes |-> m - k,
                 rise |-> IF Width[s] = 1 THEN scan.rise ELSE 0,
                 fall |-> IF Width[s] = 1 THEN scan.fall ELSE 0,
                 init |-> Text(s, k), last |-> last,
                 first_at |-> scan.first_at, last_at |-> scan.last_at,
                 unique |-> Cardinality(scan.uniq), unknown |-> scan.unknown]
      BY <1>9, <1>10, <3>1 DEF SummaryRow
    <3>. HIDE DEF active
    <3>. QED
      BY <3>1, <3>2
  <2>2. Text(s, k) = TextOf(trace, s, k) /\ Text(s, m) = TextOf(trace, s, m)
    BY DEF Text, TextOf
  <2>3. active <=> k < m
    BY <1>8, <1>10
  <2>. HIDE DEF active
  <2>4. row.last = TextOf(trace, s, m) /\ row.init = TextOf(trace, s, k)
    <3>1. CASE active
      BY <2>1, <2>2, <3>1
    <3>2. CASE ~active
      <4>1. k = m
        BY <1>8, <2>3, <3>2
      <4>. QED
        BY <2>1, <2>2, <3>2, <4>1
    <3>. QED
      BY <3>1, <3>2
  <2>5. row.init # row.last => row.active
    <3>1. k # m => k < m
      BY <1>8
    <3>. QED
      BY <2>1, <2>3, <2>4, <3>1
  <2>6. active => row.first_at = tr[CHOOSE i \in counted : \A j \in counted : i <= j].tick
    <3>1. SUFFICES ASSUME active
                   PROVE  row.first_at = tr[CHOOSE i \in counted : \A j \in counted : i <= j].tick
      OBVIOUS
    <3>2. k < m
      BY <2>3, <3>1
    <3>3. k + 1 \in counted /\ \A j \in counted : k + 1 <= j
      BY <1>8, <3>2
    <3>4. \A i \in counted : i \in Int
      BY <1>8
    <3>5. ASSUME NEW i \in counted, \A j \in counted : i <= j PROVE i = k + 1
      <4>1. i <= k + 1
        BY <3>3, <3>5
      <4>2. k + 1 <= i
        BY <3>3
      <4>. QED
        BY <1>8, <3>4, <4>1, <4>2
    <3>6. (CHOOSE i \in counted : \A j \in counted : i <= j) = k + 1
      BY <3>3, <3>5
    <3>7. scan.first_at = tr[k + 1].tick
      <4>1. scan.changes # 0
        BY <1>8, <1>10, <3>2
      <4>. QED
        BY <1>9, <4>1
    <3>. QED
      BY <2>1, <3>6, <3>7
  <2>. QED
    BY <1>3, <1>8, <1>11, <2>1, <2>4, <2>5, <2>6 DEF Promised
<1>13. ASSUME ~(scan.base # 0 \/ scan.changes > 0)
       PROVE  SnapOf(trace, s, window.t1).form = "undef"
  <2>1. m = 0
    BY <1>8, <1>9, <1>10, <1>13
  <2>. QED
    BY <1>11, <2>1 DEF TextOf, Shown
<1>. QED
  BY <1>12, <1>13

LEMMA EndPreserves ==
  ASSUME StatInv, EndScan
  PROVE  StatInv'
<1>1. PICK s : s = scan.sid
  OBVIOUS
<1>2. PICK row : row = SummaryRow(s)
  OBVIOUS
<1>3. /\ scan # NoScan /\ scan.next > scan.upper
      /\ trace' = trace /\ command' = command /\ phase' = phase /\ window' = window
      /\ todo' = todo \ {s} /\ scan' = NoScan
  BY <1>1 DEF EndScan
<1>4. /\ phase = "visit" /\ command.cmd = "summary" /\ s \in todo
  BY <1>1, <1>3 DEF StatInv, ScanPart
<1>5. /\ todo \subseteq command.sel /\ command.sel \subseteq todo \cup undefined \cup DOMAIN rows
      /\ \A x \in undefined : SnapOf(trace, x, window.t1).form = "undef"
      /\ \A x \in DOMAIN rows : x \in command.sel /\ Promised(trace, window, x, rows[x])
  BY <1>4 DEF StatInv, SummaryPart
<1>6. TypePart' /\ ScanPart' /\ PointPart'
  BY <1>3, <1>4 DEF StatInv, TypePart, ScanPart, PointPart
<1>7. SummaryPart'
  <2>1. CASE scan.base # 0 \/ scan.changes > 0
    <3>1. rows' = [x \in DOMAIN rows \cup {s} |-> IF x = s THEN row ELSE rows[x]]
          /\ undefined' = undefined
      BY <1>1, <1>2, <2>1 DEF EndScan
    <3>2. DOMAIN rows' = DOMAIN rows \cup {s}
      BY <3>1
    <3>3. Promised(trace, window, s, row)
      BY <1>1, <1>2, <1>3, <2>1, EndFacts
    <3>4. ASSUME NEW x \in DOMAIN rows'
          PROVE  x \in command.sel /\ Promised(trace, window, x, rows'[x])
      <4>1. CASE x = s
        <5>1. rows'[x] = row
          BY <3>1, <3>2, <4>1
        <5>. QED
          BY <1>4, <1>5, <3>3, <4>1, <5>1
      <4>2. CASE x # s
        <5>1. rows'[x] = rows[x] /\ x \in DOMAIN rows
          BY <3>1, <3>2, <4>2
        <5>. QED
          BY <1>5, <5>1
      <4>. QED
        BY <4>1, <4>2
    <3>5. command.sel \subseteq (todo \ {s}) \cup undefined \cup DOMAIN rows'
      BY <1>5, <3>2
    <3>. QED
      BY <1>3, <1>4, <1>5, <3>1, <3>4, <3>5 DEF SummaryPart
  <2>2. CASE ~(scan.base # 0 \/ scan.changes > 0)
    <3>1. rows' = rows /\ undefined' = undefined \cup {s}
      BY <1>1, <2>2 DEF EndScan
    <3>2. SnapOf(trace, s, window.t1).form = "undef"
      BY <1>1, <1>2, <1>3, <2>2, EndFacts
    <3>. QED
      BY <1>3, <1>4, <1>5, <3>1, <3>2 DEF SummaryPart
  <2>. QED
    BY <2>1, <2>2
<1>. QED
  BY <1>6, <1>7 DEF StatInv

(***************************************************************************)
(* What a decode delivers at an instant is what the file holds there.      *)
(***************************************************************************)
LEMMA DecodedFacts ==
  ASSUME StatInv, phase = "visit", NEW s \in command.sel, NEW t \in Nat, seeking \in BOOLEAN,
         NEW raw, raw = ValueIn(Decoded(s, t, t), t)
  PROVE  /\ Format(s, raw) = SnapOf(trace, s, t)
         /\ raw = Undef <=> Reach(trace[s], t) = 0
<1>1. PICK tr : tr = trace[s] /\ Ordered(tr)
  BY SignalFacts DEF StatInv
<1>2. PICK n \in Nat : n = Len(tr) /\ DOMAIN tr = 1..n
  BY <1>1, OrderedFacts
<1>3. /\ \A i \in 1..n : tr[i].tick \in Nat /\ tr[i].raw \in Seq(STRING) /\ tr[i].raw # Undef
      /\ \A i, j \in 1..n : i < j => tr[i].tick <= tr[j].tick
  BY <1>1, <1>2, OrderedFacts
<1>4. PICK k \in 0..n : k = Reach(tr, t) /\ upper_bound(tr, t) = k
                        /\ \A i \in 1..n : tr[i].tick <= t <=> i <= k
  <2>1. t \in Int
    OBVIOUS
  <2>. QED
    BY <1>1, <1>2, <2>1, ReachFacts
<1>5. raw = IF k = 0 THEN Undef ELSE tr[k].raw
  <2>1. CASE ~seeking
    <3>1. Decoded(s, t, t) = tr
      BY <1>1, <2>1 DEF Decoded
    <3>. QED
      BY <1>4, <3>1 DEF ValueIn, Reach
  <2>2. CASE seeking
    <3>1. PICK d : d = Decoded(s, t, t)
      OBVIOUS
    <3>2. d = SubSeq(tr, IF k = 0 THEN 1 ELSE k, k)
      BY <1>1, <1>4, <2>2, <3>1 DEF Decoded, Reach
    <3>3. raw = IF last_at_or_before(d, t) = 0 THEN Undef ELSE d[last_at_or_before(d, t)].raw
      BY <3>1 DEF ValueIn
    <3>4. CASE k = 0
      <4>1. tr \in Seq([tick : Nat, raw : Seq(STRING)])
        BY <1>1 DEF Ordered
      <4>2. d = SubSeq(tr, 1, 0)
        BY <3>2, <3>4
      <4>3. DOMAIN d = {}
        BY <4>1, <4>2
      <4>4. last_at_or_before(d, t) = 0
        BY <4>3 DEF last_at_or_before
      <4>. QED
        BY <3>3, <3>4, <4>4
    <3>5. CASE k # 0
      <4>1. tr \in Seq([tick : Nat, raw : Seq(STRING)])
        BY <1>1 DEF Ordered
      <4>2. d = SubSeq(tr, k, k) /\ k \in 1..n
        BY <3>2, <3>5
      <4>3. Len(d) = 1 /\ d[1] = tr[k] /\ DOMAIN d = {1}
        <5>1. PICK S : S = [tick : Nat, raw : Seq(STRING)]
          OBVIOUS
        <5>2. tr \in Seq(S)
          BY <4>1, <5>1
        <5>. QED
          BY <1>2, <4>2, <5>2
      <4>4. d[1].tick <= t
        <5>1. k <= k
          OBVIOUS
        <5>2. tr[k].tick <= t
          BY <1>4, <4>2, <5>1
        <5>. QED
          BY <4>3, <5>2
      <4>5. {i \in DOMAIN d : d[i].tick <= t} = {1}
        BY <4>3, <4>4
      <4>6. LastOf({1}) = 1
        BY DEF LastOf
      <4>7. last_at_or_before(d, t) = 1
        BY <4>5, <4>6 DEF last_at_or_before
      <4>. QED
        BY <3>3, <3>5, <4>3, <4>7
    <3>. QED
      BY <3>4, <3>5
  <2>. QED
    BY <2>1, <2>2
<1>6. SnapOf(trace, s, t) = TextOf(trace, s, k)
  BY <1>1, <1>4 DEF SnapOf
<1>7. CASE k = 0
  BY <1>1, <1>4, <1>5, <1>6, <1>7 DEF Format, TextOf
<1>8. CASE k # 0
  <2>1. k \in 1..n /\ tr[k].raw # Undef
    BY <1>3, <1>8
  <2>. QED
    BY <1>1, <1>4, <1>5, <1>6, <1>8, <2>1 DEF Format, TextOf
<1>. QED
  BY <1>7, <1>8

LEMMA SnapshotPreserves ==
  ASSUME StatInv, Snapshot, seeking \in BOOLEAN
  PROVE  StatInv'
<1>1. /\ phase = "visit" /\ command.cmd = "snapshot" /\ phase' = "done"
      /\ trace' = trace /\ command' = command /\ window' = window /\ scan' = scan
  BY DEF Snapshot
<1>2. PICK t1 \in Nat : t1 = window.t1
  BY <1>1 DEF StatInv, TypePart, WindowOK
<1>3. scan = NoScan
  BY <1>1 DEF StatInv, ScanPart
<1>4. TypePart' /\ ScanPart' /\ SummaryPart'
  BY <1>1, <1>3 DEF StatInv, TypePart, ScanPart, SummaryPart
<1>. DEFINE value(s) == ValueIn(Decoded(s, t1, t1), t1)
            format(s) == Format(s, value(s))
<1>5. rows' = [s \in {x \in command.sel : value(x) # Undef} |-> format(s)]
  BY <1>2 DEF Snapshot
<1>6. ASSUME NEW s \in command.sel
      PROVE  /\ format(s) = SnapOf(trace, s, t1)
             /\ value(s) = Undef => SnapOf(trace, s, t1).form = "undef"
  <2>1. PICK raw : raw = ValueIn(Decoded(s, t1, t1), t1)
    OBVIOUS
  <2>2. /\ Format(s, raw) = SnapOf(trace, s, t1)
        /\ raw = Undef <=> Reach(trace[s], t1) = 0
    BY <1>1, <2>1, DecodedFacts
  <2>3. Reach(trace[s], t1) = 0 => SnapOf(trace, s, t1).form = "undef"
    BY DEF SnapOf, TextOf, Shown
  <2>. QED
    BY <2>1, <2>2, <2>3
<1>7. PointOK(trace, window, command, rows')
  <2>. HIDE DEF value, format
  <2>1. ASSUME NEW s \in command.sel
        PROVE  IF s \in DOMAIN rows' THEN rows'[s] = SnapOf(trace, s, t1)
               ELSE SnapOf(trace, s, t1).form = "undef"
    <3>1. CASE value(s) = Undef
      BY <1>5, <1>6, <3>1
    <3>2. CASE value(s) # Undef
      BY <1>5, <1>6, <3>2
    <3>. QED
      BY <3>1, <3>2
  <2>. QED
    BY <1>1, <1>2, <2>1 DEF PointOK
<1>8. PointPart'
  BY <1>1, <1>7 DEF PointPart
<1>. QED
  BY <1>4, <1>8 DEF StatInv

LEMMA ComparePreserves ==
  ASSUME StatInv, Compare, seeking \in BOOLEAN
  PROVE  StatInv'
<1>1. /\ phase = "visit" /\ command.cmd = "compare" /\ phase' = "done"
      /\ trace' = trace /\ command' = command /\ window' = window /\ scan' = scan
  BY DEF Compare
<1>2. PICK t0 \in Nat, t1 \in Nat : t0 = window.t0 /\ t1 = window.t1
  BY <1>1 DEF StatInv, TypePart, WindowOK
<1>3. scan = NoScan
  BY <1>1 DEF StatInv, ScanPart
<1>4. TypePart' /\ ScanPart' /\ SummaryPart'
  BY <1>1, <1>3 DEF StatInv, TypePart, ScanPart, SummaryPart
<1>. DEFINE a(s) == ValueIn(Decoded(s, t0, t0), t0)
            b(s) == ValueIn(Decoded(s, t1, t1), t1)
            pair(s) == <<Format(s, a(s)), Format(s, b(s))>>
<1>5. rows' = [s \in {x \in command.sel : a(x) # b(x)} |-> pair(s)]
  BY <1>2 DEF Compare
<1>6. ASSUME NEW s \in command.sel
      PROVE  /\ pair(s) = <<SnapOf(trace, s, t0), SnapOf(trace, s, t1)>>
             /\ a(s) = b(s) => SnapOf(trace, s, t0) = SnapOf(trace, s, t1)
  <2>1. Format(s, a(s)) = SnapOf(trace, s, t0)
    <3>1. PICK raw : raw = ValueIn(Decoded(s, t0, t0), t0)
      OBVIOUS
    <3>2. Format(s, raw) = SnapOf(trace, s, t0)
      BY <1>1, <3>1, DecodedFacts
    <3>. QED
      BY <3>1, <3>2
  <2>2. Format(s, b(s)) = SnapOf(trace, s, t1)
    <3>1. PICK raw : raw = ValueIn(Decoded(s, t1, t1), t1)
      OBVIOUS
    <3>2. Format(s, raw) = SnapOf(trace, s, t1)
      BY <1>1, <3>1, DecodedFacts
    <3>. QED
      BY <3>1, <3>2
  <2>. HIDE DEF a, b
  <2>. QED
    BY <2>1, <2>2
<1>7. PointOK(trace, window, command, rows')
  <2>. HIDE DEF a, b, pair
  <2>1. ASSUME NEW s \in command.sel
        PROVE  IF s \in DOMAIN rows'
               THEN rows'[s] = <<SnapOf(trace, s, t0), SnapOf(trace, s, t1)>>
               ELSE SnapOf(trace, s, t0) = SnapOf(trace, s, t1)
    <3>1. CASE a(s) = b(s)
      BY <1>5, <1>6, <3>1
    <3>2. CASE a(s) # b(s)
      BY <1>5, <1>6, <3>2
    <3>. QED
      BY <3>1, <3>2
  <2>. QED
    BY <1>1, <1>2, <2>1 DEF PointOK
<1>8. PointPart'
  BY <1>1, <1>7 DEF PointPart
<1>. QED
  BY <1>4, <1>8 DEF StatInv

LEMMA FinishPreserves ==
  ASSUME StatInv, Finish
  PROVE  StatInv'
<1>1. /\ phase = "visit" /\ command.cmd = "summary" /\ todo = {} /\ scan = NoScan
      /\ phase' = "done" /\ trace' = trace /\ command' = command /\ window' = window
      /\ todo' = todo /\ scan' = scan /\ rows' = rows /\ undefined' = undefined
  BY DEF Finish
<1>2. TypePart' /\ ScanPart' /\ SummaryPart'
  BY <1>1 DEF StatInv, TypePart, ScanPart, SummaryPart
<1>3. PointOK(trace, window, command, rows)
  BY <1>1 DEF PointOK
<1>4. PointPart'
  BY <1>1, <1>3 DEF PointPart
<1>. QED
  BY <1>2, <1>4 DEF StatInv

(* Whether the backend seeks is settled when it opens.                     *)
SeekInv == seeking \in BOOLEAN

THEOREM StatInvariance == Spec => [](StatInv /\ SeekInv)
<1>1. Init => StatInv /\ SeekInv
  BY StatStarts DEF Init, SeekInv
<1>2. StatInv /\ SeekInv /\ [Next]_vars => (StatInv /\ SeekInv)'
  <2>1. SUFFICES ASSUME StatInv, SeekInv, [Next]_vars PROVE StatInv' /\ SeekInv'
    OBVIOUS
  <2>2. CASE ParseTimes
    BY <2>1, <2>2, ParsePreserves DEF ParseTimes, SeekInv
  <2>3. CASE BeginScan
    BY <2>1, <2>3, BeginPreserves DEF BeginScan, SeekInv
  <2>4. CASE ScanChange
    BY <2>1, <2>4, ChangePreserves DEF ScanChange, SeekInv
  <2>5. CASE EndScan
    BY <2>1, <2>5, EndPreserves DEF EndScan, SeekInv
  <2>6. CASE Snapshot
    BY <2>1, <2>6, SnapshotPreserves DEF Snapshot, SeekInv
  <2>7. CASE Compare
    BY <2>1, <2>7, ComparePreserves DEF Compare, SeekInv
  <2>8. CASE Finish
    BY <2>1, <2>8, FinishPreserves DEF Finish, SeekInv
  <2>9. CASE UNCHANGED vars
    BY <2>1, <2>9 DEF vars, SeekInv, StatInv, TypePart, ScanPart, SummaryPart, PointPart
  <2>. QED
    BY <2>1, <2>2, <2>3, <2>4, <2>5, <2>6, <2>7, <2>8, <2>9 DEF Next
<1>. QED
  BY <1>1, <1>2, PTL DEF Spec

-----------------------------------------------------------------------------

(***************************************************************************)
(* What the commands promise.                                              *)
(***************************************************************************)

(* In every execution, whatever the recordings, the window and the signals *)
(* selected, a finished summary shows of each signal the values that       *)
(* snapshots show just before and at the end of its window, counts exactly *)
(* the changes a dump of the window lists, and leaves out only signals     *)
(* without a value (summary.rs summary_rows, format.rs).                   *)
THEOREM SummaryAlwaysAgrees == Spec => []SummaryAgrees
<1>1. StatInv /\ SeekInv => SummaryAgrees
  <2>1. SUFFICES ASSUME StatInv, Summarised, NEW s \in command.sel
                 PROVE  LET counted == {i \in Dumped(s) : trace[s][i].tick > 0}
                        IN  IF s \in undefined
                            THEN Snap(s, window.t1).form = "undef"
                            ELSE /\ rows[s].last = Snap(s, window.t1)
                                 /\ rows[s].init = Snap(s, IF window.t0 = 0 THEN 0 ELSE window.t0 - 1)
                                 /\ rows[s].changes = Cardinality(counted)
                                 /\ rows[s].init # rows[s].last => rows[s].active
                                 /\ rows[s].active => rows[s].first_at = trace[s][CHOOSE i \in counted :
                                                        \A j \in counted : i <= j].tick
    BY DEF SummaryAgrees
  <2>2. /\ command.sel \subseteq undefined \cup DOMAIN rows
        /\ \A x \in undefined : SnapOf(trace, x, window.t1).form = "undef"
        /\ \A x \in DOMAIN rows : Promised(trace, window, x, rows[x])
    BY <2>1 DEF StatInv, SummaryPart, Summarised
  <2>3. PICK counted : counted = {i \in Dumped(s) : trace[s][i].tick > 0}
    OBVIOUS
  <2>4. counted = CountedOf(trace, window, s)
    BY <2>3 DEF CountedOf, Dumped
  <2>5. \A t : Snap(s, t) = SnapOf(trace, s, t)
    BY DEF Snap, SnapOf, Text, TextOf, Reach
  <2>6. Baseline(window.t0) = IF window.t0 = 0 THEN 0 ELSE window.t0 - 1
    BY DEF Baseline, init_boundary
  <2>7. CASE s \in undefined
    BY <2>2, <2>5, <2>7
  <2>8. CASE s \notin undefined
    <3>1. Promised(trace, window, s, rows[s])
      BY <2>1, <2>2, <2>8
    <3>. QED
      BY <2>3, <2>4, <2>5, <2>6, <2>8, <3>1 DEF Promised
  <2>. QED
    BY <2>7, <2>8
<1>. QED
  BY <1>1, StatInvariance, PTL

(* In every execution, with a backend that seeks and with one that decodes *)
(* everything, snapshot shows a signal's value at its instant and leaves   *)
(* out only signals without one, and compare shows the two values that     *)
(* snapshots would and leaves out only signals that read the same at both  *)
(* (snapshot.rs, compare.rs, model.rs).                                    *)
THEOREM PointsAlwaysAgree == Spec => []PointsAgree
<1>1. StatInv /\ SeekInv => PointsAgree
  <2>1. SUFFICES ASSUME StatInv, phase = "done", NEW s \in command.sel
                 PROVE  /\ command.cmd = "snapshot" =>
                             IF s \in DOMAIN rows THEN rows[s] = Snap(s, window.t1)
                             ELSE Snap(s, window.t1).form = "undef"
                        /\ command.cmd = "compare" =>
                             IF s \in DOMAIN rows
                             THEN rows[s] = <<Snap(s, window.t0), Snap(s, window.t1)>>
                             ELSE Snap(s, window.t0) = Snap(s, window.t1)
    BY DEF PointsAgree
  <2>2. PointOK(trace, window, command, rows)
    BY <2>1 DEF StatInv, PointPart
  <2>3. \A t : Snap(s, t) = SnapOf(trace, s, t)
    BY DEF Snap, SnapOf, Text, TextOf, Reach
  <2>. QED
    BY <2>2, <2>3 DEF PointOK
<1>. QED
  BY <1>1, StatInvariance, PTL

(* = and != of one value and one target.                                   *)
Decided(raw, width, t) ==
  LET eq == condition_match(raw, "Bits", "=", t, width)
      ne == condition_match(raw, "Bits", "!=", t, width)
  IN  /\ ~(eq /\ ne)
      /\ ~bits_have_unknown(raw) /\ (t.int \/ Len(raw) <= width) => eq \/ ne
      /\ bits_have_unknown(raw) /\ t.int => ~eq /\ ~ne
      /\ ~t.int /\ ~(Len(raw) <= width) =>
           /\ eq <=> condition_match(AllUnknown(width), "Bits", "=", t, width)
           /\ ne <=> condition_match(AllUnknown(width), "Bits", "!=", t, width)

(* A recorded value is written in letters.                                 *)
LEMMA Lettered == ASSUME NEW raw, raw \in Seq(STRING) PROVE raw \in Seq(Letter)
BY DEF Letter

(* In every execution, for a signal of any width and a value of any length *)
(* but 0, the text that a row shows of a logic value is, as a condition, a *)
(* pattern or a number that holds of the values shown so and of no others, *)
(* save a number of values with more bits than the signal; = and != never  *)
(* hold both, one of them holds of each value counted as known, neither    *)
(* with a number of one counted as unknown, and to a pattern a value with  *)
(* too many bits is all x (format.rs fmt_bits, condition.rs                *)
(* parse_target_value, condition_match, pattern_compare).                  *)
THEOREM ValuesAlwaysReadAlike == Spec => []ValuesReadAlike
<1>1. StatInv => ValuesReadAlike
  <2>1. SUFFICES ASSUME StatInv, NEW b \in Current
                 PROVE  /\ parse_target_value(Text(scan.sid, b)).ok
                        /\ \A j \in DOMAIN trace[scan.sid] :
                             trace[scan.sid][j].raw # << >>
                             /\ (Fits(scan.sid, j)
                                 \/ ~parse_target_value(Text(scan.sid, b)).int) =>
                               (Holds("=", scan.sid, j, parse_target_value(Text(scan.sid, b)))
                                  <=> Text(scan.sid, j) = Text(scan.sid, b))
                        /\ \A t \in Targets(Width[scan.sid]) :
                             Decided(trace[scan.sid][b].raw, Width[scan.sid], t)
    BY Zenon DEF ValuesReadAlike, ShownValueMatches, KnownValuesAreDecided, Decided, Holds,
                 HoldsOfUnknown, Fits
  <2>2. PICK s : s = scan.sid
    OBVIOUS
  <2>3. /\ scan # NoScan /\ b = scan.base /\ scan.base # 0 /\ Kind[s] = "Bits"
        /\ trace[s][b].raw # << >>
    BY <2>2 DEF Current
  <2>4. phase = "visit" /\ command.cmd = "summary" /\ s \in todo /\ ScanOK(trace, window, scan)
    BY <2>1, <2>2, <2>3 DEF StatInv, ScanPart
  <2>5. s \in command.sel
    BY <2>1, <2>4 DEF StatInv, SummaryPart
  <2>6. PICK tr : tr = trace[s] /\ Ordered(tr)
    BY <2>1, <2>5, SignalFacts DEF StatInv
  <2>7. PICK width : width = Width[s] /\ width \in Nat \ {0}
    BY <2>1, <2>5, SignalFacts DEF StatInv
  <2>8. b \in 1..Len(tr) /\ DOMAIN tr = 1..Len(tr)
    <3>1. PICK t0 \in Nat : t0 = window.t0
      BY <2>1, <2>4 DEF StatInv, TypePart, WindowOK
    <3>2. Baseline(t0) \in Int
      BY BaselineFacts
    <3>3. b = Reach(tr, Baseline(t0))
      BY <2>2, <2>3, <2>4, <2>6, <3>1 DEF ScanOK
    <3>4. b \in 0..Len(tr) /\ Len(tr) \in Nat
      BY <2>6, <3>2, <3>3, ReachFacts
    <3>5. DOMAIN tr = 1..Len(tr)
      BY <2>6, OrderedFacts
    <3>. QED
      BY <2>3, <3>4, <3>5
  <2>9. \A j \in 1..Len(tr) : tr[j].raw \in Seq(STRING)
    BY <2>6, OrderedFacts
  <2>11. \A j \in 1..Len(tr) : Text(s, j) = fmt_bits(tr[j].raw, width)
    <3>1. SUFFICES ASSUME NEW j \in 1..Len(tr) PROVE Text(s, j) = fmt_bits(tr[j].raw, width)
      OBVIOUS
    <3>2. j # 0
      OBVIOUS
    <3>3. Text(s, j) = fmt_val(tr[j].raw, "Bits", width)
      BY <2>3, <2>6, <2>7, <3>2 DEF Text
    <3>. QED
      BY <3>3 DEF fmt_val
  <2>12. PICK raw : raw = tr[b].raw
    OBVIOUS
  <2>13. PICK target : target = parse_target_value(fmt_bits(raw, width))
    OBVIOUS
  <2>14. raw \in Seq(Letter) /\ raw # << >>
    BY <2>2, <2>3, <2>6, <2>8, <2>9, <2>12, Lettered
  <2>15. target.ok
    BY <2>7, <2>13, <2>14, ShownHolds
  <2>16. ASSUME NEW j \in 1..Len(tr), tr[j].raw # << >>, Len(tr[j].raw) <= width \/ ~target.int
         PROVE  condition_match(tr[j].raw, "Bits", "=", target, width)
                  <=> fmt_bits(tr[j].raw, width) = fmt_bits(raw, width)
    <3>1. PICK other : other = tr[j].raw /\ other \in Seq(Letter)
      BY <2>9, <2>16, Lettered
    <3>. QED
      BY <2>7, <2>13, <2>14, <2>16, <3>1, ShownHolds
  <2>17. ASSUME NEW t \in Targets(width)
         PROVE  Decided(raw, width, t)
    BY <2>7, <2>14, <2>17, DecidedFacts DEF Decided
  <2>18. parse_target_value(Text(scan.sid, b)) = target
    BY <2>2, <2>8, <2>11, <2>12, <2>13
  <2>19. ASSUME NEW j \in DOMAIN trace[scan.sid], trace[scan.sid][j].raw # << >>,
                Fits(scan.sid, j) \/ ~target.int
         PROVE  Holds("=", scan.sid, j, target) <=> Text(scan.sid, j) = Text(scan.sid, b)
    <3>1. j \in 1..Len(tr) /\ trace[scan.sid][j].raw = tr[j].raw /\ Width[scan.sid] = width
      BY <2>2, <2>6, <2>7, <2>8, <2>19
    <3>2. Text(scan.sid, j) = fmt_bits(tr[j].raw, width)
          /\ Text(scan.sid, b) = fmt_bits(raw, width)
      BY <2>2, <2>8, <2>11, <2>12, <3>1
    <3>3. Holds("=", scan.sid, j, target)
            <=> condition_match(tr[j].raw, "Bits", "=", target, width)
      BY <3>1 DEF Holds
    <3>4. tr[j].raw # << >> /\ (Len(tr[j].raw) <= width \/ ~target.int)
      BY <2>19, <3>1 DEF Fits
    <3>. QED
      BY <2>16, <3>1, <3>2, <3>3, <3>4
  <2>20. ASSUME NEW t \in Targets(Width[scan.sid])
         PROVE  Decided(trace[scan.sid][b].raw, Width[scan.sid], t)
    <3>1. t \in Targets(width) /\ trace[scan.sid][b].raw = raw /\ Width[scan.sid] = width
      BY <2>2, <2>6, <2>7, <2>12
    <3>. QED
      BY <2>17, <3>1
  <2>. QED
    BY <2>15, <2>18, <2>19, <2>20
<1>. QED
  BY <1>1, StatInvariance, PTL
=============================================================================
