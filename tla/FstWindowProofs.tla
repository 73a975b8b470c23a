--------------------------- MODULE FstWindowProofs ---------------------------
(***************************************************************************)
(* The seeking decode gives the full decode's values at every tick of the  *)
(* window and its changes past the left edge, for every well-formed file,  *)
(* window and selection, whatever frames the reader echoes.                *)
(*                                                                         *)
(* Phase 1 goes over the file with the full decode: what a collector holds *)
(* past `from` is what the full decode has there, but for a first change   *)
(* that repeats a seed not known yet (Matches).  Positions the reader      *)
(* skips are before everything it delivers or beyond the window.  Phase 2  *)
(* finds the seeds phase 1 could not trust, with which Finish drops the    *)
(* repeated change.                                                        *)
(***************************************************************************)
EXTENDS FstWindow, SequenceTheorems, WellFoundedInduction, TLAPS

LEMMA UpTo ==
  ASSUME NEW n \in Nat, NEW S, 0 \in S, \A i \in 1..n : i - 1 \in S => i \in S
  PROVE  \A i \in 0..n : i \in S
<1>. DEFINE Missing == {i \in Nat : i \in 0..n /\ i \notin S}
<1>1. SUFFICES ASSUME NEW j \in 0..n, j \notin S PROVE FALSE
  OBVIOUS
<1>2. j \in Missing
  BY <1>1
<1>3. PICK k \in Missing : \A r \in Missing : ~(<<r, k>> \in OpToRel(<, Nat))
  BY <1>2, NatLessThanWellFounded, WFMin
<1>4. k \in Nat /\ k \in 0..n /\ k \notin S
  OBVIOUS
<1>5. k # 0
  BY <1>4
<1>6. k \in 1..n /\ k - 1 \in 0..n /\ k - 1 \in Nat /\ k - 1 < k
  BY <1>4, <1>5
<1>7. k - 1 \notin S
  BY <1>4, <1>6
<1>8. k - 1 \in Missing
  BY <1>6, <1>7
<1>9. <<k - 1, k>> \in OpToRel(<, Nat)
  BY <1>4, <1>6 DEF OpToRel
<1>. QED
  BY <1>3, <1>8, <1>9

(* A set of positions has a last one, and a first one.                     *)
LEMMA LastExists ==
  ASSUME NEW n \in Nat, NEW S \in SUBSET (1..n), S # {}
  PROVE  \E k \in S : \A j \in S : j <= k
<1>. DEFINE Away == {i \in Nat : i <= n /\ n - i \in S}
<1>1. PICK x : x \in S
  OBVIOUS
<1>2. n - x \in Away
  <2>1. x \in 1..n
    BY <1>1
  <2>2. n - x \in Nat /\ n - x <= n /\ n - (n - x) = x
    BY <2>1
  <2>. QED
    BY <1>1, <2>2
<1>3. PICK k \in Away : \A r \in Away : ~(<<r, k>> \in OpToRel(<, Nat))
  BY <1>2, NatLessThanWellFounded, WFMin
<1>4. k \in Nat /\ k <= n /\ n - k \in S
  OBVIOUS
<1>5. ASSUME NEW j \in S PROVE j <= n - k
  <2>1. j \in 1..n
    OBVIOUS
  <2>2. n - j \in Nat /\ n - j <= n /\ n - (n - j) = j
    BY <2>1
  <2>3. n - j \in Away
    BY <2>2
  <2>4. ~(n - j < k)
    <3>1. ~(<<n - j, k>> \in OpToRel(<, Nat))
      BY <1>3, <2>3
    <3>. QED
      BY <1>4, <2>2, <3>1 DEF OpToRel
  <2>. QED
    BY <1>4, <2>1, <2>2, <2>4
<1>. QED
  BY <1>4, <1>5

LEMMA FirstExists ==
  ASSUME NEW S \in SUBSET Nat, S # {}
  PROVE  \E k \in S : \A j \in S : k <= j
<1>1. PICK k \in S : \A r \in S : ~(<<r, k>> \in OpToRel(<, Nat))
  BY NatLessThanWellFounded, WFMin
<1>2. ASSUME NEW j \in S PROVE k <= j
  <2>1. j \in Nat /\ k \in Nat
    OBVIOUS
  <2>2. ~(j < k)
    <3>1. ~(<<j, k>> \in OpToRel(<, Nat))
      BY <1>1
    <3>. QED
      BY <2>1, <3>1 DEF OpToRel
  <2>. QED
    BY <2>1, <2>2
<1>. QED
  BY <1>2

-----------------------------------------------------------------------------

(***************************************************************************)
(* The full decode, position by position.                                  *)
(***************************************************************************)

(* Before the first change it is empty; each change extends it.            *)
LEMMA DecodeFacts ==
  ASSUME NEW ch, NEW s, Len(ch) \in Nat
  PROVE  /\ Decoded(ch, s)[0] = << >>
         /\ \A i \in 1..Len(ch) : Decoded(ch, s)[i] = Extended(Decoded(ch, s)[i - 1], ch[i], s)
<1>. DEFINE n == Len(ch)
            Run(g, m) == g = [i \in 0..m |-> IF i = 0 THEN << >> ELSE Extended(g[i - 1], ch[i], s)]
            S == {m \in 0..n : \E g : Run(g, m)}
<1>1. 0 \in S
  <2>1. Run([i \in 0..0 |-> << >>], 0)
    OBVIOUS
  <2>. HIDE DEF Run
  <2>2. \E g : Run(g, 0)
    BY <2>1
  <2>. QED
    BY <2>2
<1>2. ASSUME NEW m \in 1..n, m - 1 \in S PROVE m \in S
  <2>1. PICK g : Run(g, m - 1)
    BY <1>2
  <2>. DEFINE h == [i \in 0..m |-> IF i < m THEN g[i] ELSE Extended(g[m - 1], ch[m], s)]
  <2>2. ASSUME NEW i \in 0..m
        PROVE  h[i] = IF i = 0 THEN << >> ELSE Extended(h[i - 1], ch[i], s)
    <3>1. CASE i = 0
      <4>1. h[0] = g[0]
        OBVIOUS
      <4>2. g[0] = << >>
        BY <2>1
      <4>. QED
        BY <3>1, <4>1, <4>2
    <3>2. CASE i \in 1..(m - 1)
      <4>1. i \in 0..(m - 1) /\ i # 0 /\ i - 1 \in 0..m /\ i - 1 < m /\ i < m
        BY <3>2
      <4>2. h[i] = g[i] /\ h[i - 1] = g[i - 1]
        BY <4>1
      <4>3. g[i] = Extended(g[i - 1], ch[i], s)
        BY <2>1, <4>1
      <4>. QED
        BY <4>1, <4>2, <4>3
    <3>3. CASE i = m
      <4>1. h[m] = Extended(g[m - 1], ch[m], s)
        OBVIOUS
      <4>2. h[m - 1] = g[m - 1]
        OBVIOUS
      <4>. QED
        BY <3>3, <4>1, <4>2
    <3>. QED
      BY <3>1, <3>2, <3>3
  <2>3. h = [i \in 0..m |-> h[i]]
    OBVIOUS
  <2>. HIDE DEF h
  <2>4. h = [i \in 0..m |-> IF i = 0 THEN << >> ELSE Extended(h[i - 1], ch[i], s)]
    BY <2>2, <2>3
  <2>5. Run(h, m)
    BY <2>4
  <2>. HIDE DEF Run
  <2>6. \E f : Run(f, m)
    BY <2>5
  <2>. QED
    BY <2>6
<1>3. n \in S
  <2>. HIDE DEF S
  <2>1. \A i \in 0..n : i \in S
    BY <1>1, <1>2, UpTo
  <2>. QED
    BY <2>1
<1>4. \E f : Run(f, n)
  BY <1>3
<1>. DEFINE g == CHOOSE f : Run(f, n)
<1>5. Run(g, n)
  BY <1>4
<1>6. Decoded(ch, s) = g
  BY DEF Decoded, Extended
<1>. HIDE DEF g
<1>7. \A i \in 0..n : g[i] = IF i = 0 THEN << >> ELSE Extended(g[i - 1], ch[i], s)
  BY <1>5, Zenon
<1>8. g[0] = << >>
  BY <1>7
<1>9. \A i \in 1..n : i \in 0..n /\ i # 0
  OBVIOUS
<1>10. \A i \in 1..n : g[i] = Extended(g[i - 1], ch[i], s)
  BY <1>7, <1>9, Zenon
<1>. QED
  BY <1>6, <1>8, <1>10

(* Changes recorded in order of tick.                                      *)
Chronicle(ch) ==
  /\ ch \in Seq(Recorded)
  /\ \A i, j \in 1..Len(ch) : i <= j => ch[i].tick <= ch[j].tick

LEMMA ChronicleFacts ==
  ASSUME NEW ch, Chronicle(ch)
  PROVE  /\ Len(ch) \in Nat
         /\ \A i \in 1..Len(ch) :
              /\ ch[i] \in Recorded /\ ch[i].tick \in Nat /\ ch[i].sid \in Sid
              /\ ch[i].val \in Value
              /\ Entry(ch[i]) \in Changes
              /\ Entry(ch[i]).tick = ch[i].tick /\ Entry(ch[i]).val = ch[i].val
<1>1. ch \in Seq(Recorded)
  BY DEF Chronicle
<1>2. Len(ch) \in Nat /\ \A i \in 1..Len(ch) : ch[i] \in Recorded
  BY <1>1
<1>3. ASSUME NEW e \in Recorded
      PROVE  /\ e.tick \in Nat /\ e.sid \in Sid /\ e.val \in Value
             /\ Entry(e) \in Changes
             /\ Entry(e).tick = e.tick /\ Entry(e).val = e.val
  BY DEF Recorded, Entry, Changes
<1>. QED
  BY <1>2, <1>3

(* Another signal's change leaves a trace, its own makes its value last.   *)
LEMMA ExtendedFacts ==
  ASSUME NEW D \in Seq(Changes), NEW e \in Recorded, NEW s
  PROVE  /\ Extended(D, e, s) \in Seq(Changes)
         /\ \/ Extended(D, e, s) = D
            \/ e.sid = s /\ Extended(D, e, s) = Append(D, Entry(e))
         /\ e.sid = s => /\ Len(Extended(D, e, s)) \in Nat \ {0}
                         /\ Extended(D, e, s)[Len(Extended(D, e, s))].val = e.val
<1>1. Entry(e) \in Changes /\ Entry(e).val = e.val
  BY DEF Recorded, Entry, Changes
<1>2. CASE Extended(D, e, s) = D
  <2>1. e.sid = s => D # << >> /\ D[Len(D)].val = e.val
    <3>1. ASSUME e.sid = s, ~(s \notin EventSid /\ D # << >> /\ D[Len(D)].val = e.val)  PROVE FALSE
      <4>1. Extended(D, e, s) = Append(D, Entry(e))
        BY <3>1 DEF Extended
      <4>2. Len(Append(D, Entry(e))) = Len(D) + 1 /\ Len(D) \in Nat
        BY <1>1
      <4>. QED
        BY <1>2, <4>1, <4>2
    <3>. QED
      BY <3>1
  <2>2. D # << >> => Len(D) \in Nat \ {0}
    BY EmptySeq
  <2>. QED
    BY <1>2, <2>1, <2>2
<1>3. CASE e.sid = s /\ Extended(D, e, s) = Append(D, Entry(e))
  <2>1. /\ Append(D, Entry(e)) \in Seq(Changes)
        /\ Len(Append(D, Entry(e))) = Len(D) + 1 /\ Len(D) \in Nat
        /\ Append(D, Entry(e))[Len(D) + 1] = Entry(e)
    BY <1>1
  <2>. QED
    BY <1>1, <1>3, <2>1
<1>4. \/ Extended(D, e, s) = D
      \/ e.sid = s /\ Extended(D, e, s) = Append(D, Entry(e))
  BY DEF Extended
<1>. QED
  BY <1>2, <1>3, <1>4

(* What an appended sequence holds.                                        *)
LEMMA Appended ==
  ASSUME NEW D \in Seq(Changes), NEW e \in Changes
  PROVE  /\ Append(D, e) \in Seq(Changes)
         /\ Len(D) \in Nat /\ Len(Append(D, e)) = Len(D) + 1
         /\ \A n \in 1..Len(D) : Append(D, e)[n] = D[n]
         /\ Append(D, e)[Len(D) + 1] = e
OBVIOUS

(* The decode up to a position holds changes up to that position.          *)
Told(ch, s, i) ==
  /\ Decoded(ch, s)[i] \in Seq(Changes)
  /\ \A n \in 1..Len(Decoded(ch, s)[i]) :
       \E j \in 1..i : ch[j].sid = s /\ Decoded(ch, s)[i][n] = Entry(ch[j])

LEMMA DecodeTold ==
  ASSUME NEW ch, Chronicle(ch), NEW s
  PROVE  \A i \in 0..Len(ch) : Told(ch, s, i)
<1>. DEFINE S == {i \in 0..Len(ch) : Told(ch, s, i)}
<1>1. Len(ch) \in Nat
  BY ChronicleFacts
<1>2. 0 \in S
  <2>1. Decoded(ch, s)[0] = << >>
    BY <1>1, DecodeFacts
  <2>2. Told(ch, s, 0)
    BY <2>1 DEF Told
  <2>. QED
    BY <1>1, <2>2
<1>3. ASSUME NEW i \in 1..Len(ch), i - 1 \in S PROVE i \in S
  <2>. DEFINE D == Decoded(ch, s)[i - 1]
              E == Decoded(ch, s)[i]
  <2>1. D \in Seq(Changes) /\ \A n \in 1..Len(D) : \E j \in 1..(i - 1) : ch[j].sid = s /\ D[n] = Entry(ch[j])
    BY <1>3 DEF Told
  <2>2. E = Extended(D, ch[i], s) /\ ch[i] \in Recorded /\ Entry(ch[i]) \in Changes
    BY <1>1, DecodeFacts, ChronicleFacts
  <2>. HIDE DEF D, E
  <2>3. /\ E \in Seq(Changes)
        /\ E = D \/ (ch[i].sid = s /\ E = Append(D, Entry(ch[i])))
    BY <2>1, <2>2, ExtendedFacts
  <2>4. ASSUME NEW n \in 1..Len(E) PROVE \E j \in 1..i : ch[j].sid = s /\ E[n] = Entry(ch[j])
    <3>1. CASE n \in 1..Len(D) /\ E[n] = D[n]
      <4>1. PICK j \in 1..(i - 1) : ch[j].sid = s /\ D[n] = Entry(ch[j])
        BY <2>1, <3>1
      <4>2. j \in 1..i
        BY <1>1
      <4>. QED
        BY <3>1, <4>1, <4>2
    <3>2. CASE ch[i].sid = s /\ E[n] = Entry(ch[i])
      <4>1. i \in 1..i
        BY <1>1
      <4>. QED
        BY <3>2, <4>1
    <3>3. CASE E = D
      BY <3>1, <3>3
    <3>4. CASE ch[i].sid = s /\ E = Append(D, Entry(ch[i]))
      <4>1. /\ Len(D) \in Nat /\ Len(E) = Len(D) + 1
            /\ \A m \in 1..Len(D) : E[m] = D[m]
            /\ E[Len(D) + 1] = Entry(ch[i])
        BY <2>1, <2>2, <3>4, Appended
      <4>2. n \in 1..Len(D) \/ n = Len(D) + 1
        BY <4>1
      <4>. QED
        BY <3>1, <3>2, <3>4, <4>1, <4>2
    <3>. QED
      BY <2>3, <3>3, <3>4
  <2>5. Told(ch, s, i)
    BY <2>3, <2>4 DEF Told, E
  <2>. QED
    BY <1>1, <2>5
<1>. HIDE DEF S
<1>4. \A i \in 0..Len(ch) : i \in S
  BY <1>1, <1>2, <1>3, UpTo
<1>. QED
  BY <1>4 DEF S

(* The first k entries of a trace are those at or before t.                *)
Splits(D, k, t) ==
  /\ k \in 0..Len(D)
  /\ \A n \in 1..Len(D) : n <= k <=> D[n].tick <= t

(* Position m of the file is a change of s at or before t.                 *)
Before(ch, s, t, m) == ch[m].sid = s /\ ch[m].tick <= t

(* The last entry at or before t has the value of the last change there.   *)
SeedTold(ch, s, i, t) ==
  \A k \in 0..Len(Decoded(ch, s)[i]) :
    Splits(Decoded(ch, s)[i], k, t) =>
      \/ k = 0 /\ \A m \in 1..i : ~Before(ch, s, t, m)
      \/ /\ k > 0
         /\ \E j \in 1..i : /\ Before(ch, s, t, j)
                            /\ \A m \in 1..i : Before(ch, s, t, m) => m <= j
                            /\ ch[j].val = Decoded(ch, s)[i][k].val

LEMMA DecodeSeeds ==
  ASSUME NEW ch, Chronicle(ch), NEW s, NEW t \in Nat
  PROVE  \A i \in 0..Len(ch) : SeedTold(ch, s, i, t)
<1>. DEFINE S == {i \in 0..Len(ch) : SeedTold(ch, s, i, t)}
<1>1. Len(ch) \in Nat
  BY ChronicleFacts
<1>2. 0 \in S
  <2>1. Decoded(ch, s)[0] = << >>
    BY <1>1, DecodeFacts
  <2>2. SeedTold(ch, s, 0, t)
    BY <2>1 DEF SeedTold
  <2>. QED
    BY <1>1, <2>2
<1>3. ASSUME NEW i \in 1..Len(ch), i - 1 \in S PROVE i \in S
  <2>. DEFINE D == Decoded(ch, s)[i - 1]
              E == Decoded(ch, s)[i]
  <2>1. /\ i - 1 \in 0..Len(ch) /\ i \in 0..Len(ch)
        /\ E = Extended(D, ch[i], s) /\ ch[i] \in Recorded /\ Entry(ch[i]) \in Changes
        /\ Entry(ch[i]).tick = ch[i].tick /\ ch[i].tick \in Nat
    BY <1>1, DecodeFacts, ChronicleFacts
  <2>2. Told(ch, s, i - 1) /\ Told(ch, s, i)
    BY <2>1, DecodeTold
  <2>3. /\ D \in Seq(Changes) /\ E \in Seq(Changes)
        /\ \A n \in 1..Len(E) : \E j \in 1..i : E[n] = Entry(ch[j])
    BY <2>2 DEF Told
  <2>4. \A k \in 0..Len(D) : Splits(D, k, t) =>
          \/ k = 0 /\ \A m \in 1..(i - 1) : ~Before(ch, s, t, m)
          \/ /\ k > 0
             /\ \E j \in 1..(i - 1) : /\ Before(ch, s, t, j)
                                      /\ \A m \in 1..(i - 1) : Before(ch, s, t, m) => m <= j
                                      /\ ch[j].val = D[k].val
    BY <1>3 DEF SeedTold
  <2>. HIDE DEF D, E
  <2>5. /\ E = D \/ (ch[i].sid = s /\ E = Append(D, Entry(ch[i])))
        /\ ch[i].sid = s => Len(E) \in Nat \ {0} /\ E[Len(E)].val = ch[i].val
    BY <2>1, <2>3, ExtendedFacts
  <2>. DEFINE Goal(k) == \/ k = 0 /\ \A m \in 1..i : ~Before(ch, s, t, m)
                         \/ /\ k > 0
                            /\ \E j \in 1..i : /\ Before(ch, s, t, j)
                                               /\ \A m \in 1..i : Before(ch, s, t, m) => m <= j
                                               /\ ch[j].val = E[k].val
  <2>6. ASSUME NEW k \in 0..Len(E), Splits(E, k, t) PROVE Goal(k)
    <3>1. CASE Before(ch, s, t, i)
      <4>1. ASSUME NEW n \in 1..Len(E) PROVE E[n].tick <= t
        <5>1. PICK j \in 1..i : E[n] = Entry(ch[j])
          BY <2>3
        <5>2. j \in 1..Len(ch) /\ j <= i
          BY <1>1
        <5>3. ch[j].tick <= ch[i].tick
          BY <5>2 DEF Chronicle
        <5>4. E[n].tick = ch[j].tick /\ ch[j].tick \in Nat
          BY <5>1, <5>2, ChronicleFacts
        <5>. QED
          BY <2>1, <3>1, <5>3, <5>4 DEF Before
      <4>2. ch[i].sid = s /\ Len(E) \in Nat \ {0} /\ E[Len(E)].val = ch[i].val
        BY <2>5, <3>1 DEF Before
      <4>3. Len(E) \in 1..Len(E) /\ k \in 0..Len(E)
        BY <4>2
      <4>4. Len(E) <= k
        BY <2>6, <4>1, <4>3 DEF Splits
      <4>5. k = Len(E) /\ k > 0
        BY <4>2, <4>3, <4>4
      <4>6. i \in 1..i /\ \A m \in 1..i : m <= i
        BY <1>1
      <4>. QED
        BY <3>1, <4>2, <4>5, <4>6
    <3>2. CASE ~Before(ch, s, t, i)
      <4>1. k \in 0..Len(D) /\ Splits(D, k, t) /\ (k > 0 => E[k] = D[k])
        <5>1. CASE E = D
          BY <2>6, <5>1
        <5>2. CASE ch[i].sid = s /\ E = Append(D, Entry(ch[i]))
          <6>1. /\ Len(D) \in Nat /\ Len(E) = Len(D) + 1
                /\ \A m \in 1..Len(D) : E[m] = D[m]
                /\ E[Len(D) + 1] = Entry(ch[i])
            BY <2>1, <2>3, <5>2, Appended
          <6>2. ~(ch[i].tick <= t)
            BY <3>2, <5>2 DEF Before
          <6>3. ~(Len(D) + 1 <= k)
            <7>1. Len(D) + 1 \in 1..Len(E) /\ E[Len(D) + 1].tick = ch[i].tick
              BY <2>1, <6>1
            <7>. QED
              BY <2>6, <6>2, <7>1 DEF Splits
          <6>4. k \in 0..Len(D)
            BY <6>1, <6>3
          <6>5. \A n \in 1..Len(D) : n \in 1..Len(E) /\ E[n].tick = D[n].tick
            BY <6>1
          <6>6. Splits(D, k, t)
            BY <2>6, <6>4, <6>5 DEF Splits
          <6>. QED
            BY <6>1, <6>4, <6>6
        <5>. QED
          BY <2>5, <5>1, <5>2
      <4>2. \A m \in 1..i : Before(ch, s, t, m) => m \in 1..(i - 1)
        <5>1. \A m \in 1..i : m = i \/ m \in 1..(i - 1)
          BY <1>1
        <5>. QED
          BY <3>2, <5>1
      <4>3. \A m \in 1..(i - 1) : m \in 1..i
        BY <1>1
      <4>. QED
        BY <2>4, <4>1, <4>2, <4>3
    <3>. QED
      BY <3>1, <3>2
  <2>7. SeedTold(ch, s, i, t)
    BY <2>6 DEF SeedTold, E
  <2>. QED
    BY <2>1, <2>7
<1>. HIDE DEF S
<1>4. \A i \in 0..Len(ch) : i \in S
  BY <1>1, <1>2, <1>3, UpTo
<1>. QED
  BY <1>4 DEF S

-----------------------------------------------------------------------------

(***************************************************************************)
(* A collector beside the full decode of its signal.                       *)
(***************************************************************************)

(* A request in range, and one whose window is not empty.                  *)
WellAsked(a) == a.from \in Nat /\ a.to \in Nat \cup {Unbounded} /\ a.slots \subseteq Sid
Proper(a) == a.to = Unbounded \/ a.from <= a.to

(* The window begins by repeating a seed that phase 1 does not know.       *)
Redundant(s, D, k, c) ==
  /\ s \notin EventSid /\ NeedsPhase2(c)
  /\ k > 0 /\ c.win # << >> /\ c.win[1].val = D[k].val

(* The window is the full decode's entries k+1 to d, after at most one     *)
(* redundant entry; a seed to be trusted has the value of entry k.         *)
Matches(s, D, k, d, c) ==
  /\ \E off \in {0, 1} :
       /\ off = 1 <=> Redundant(s, D, k, c)
       /\ Len(c.win) = d - k + off
       /\ \A j \in 1..(d - k) : D[k + j] = c.win[j + off]
  /\ ~NeedsPhase2(c) => k > 0 /\ c.seed.val = D[k].val

LEMMA CollectorFacts ==
  ASSUME NEW c \in Collector
  PROVE  /\ c.win \in Seq(Changes) /\ Len(c.win) \in Nat
         /\ \A n \in 1..Len(c.win) : c.win[n] \in Changes /\ c.win[n].val # None
         /\ c.seed \in Changes \cup {None} /\ c.seed2 \in Changes \cup {None}
         /\ c.seed # None => c.seed \in Changes /\ c.seed.val # None
         /\ c.seed_suspect \in BOOLEAN /\ c.demoted \in BOOLEAN
<1>1. /\ c.win \in Seq(Changes) /\ c.seed \in Changes \cup {None} /\ c.seed2 \in Changes \cup {None}
      /\ c.seed_suspect \in BOOLEAN /\ c.demoted \in BOOLEAN
  BY DEF Collector
<1>2. \A e \in Changes : e.val # None
  BY NoneAssumption DEF Changes
<1>. QED
  BY <1>1, <1>2

(* The baseline of an in-window change is the full decode's last value,    *)
(* unless there is none yet.                                               *)
LEMMA BaselineTells ==
  ASSUME NEW s, NEW D \in Seq(Changes), NEW k \in 0..Len(D), NEW c \in Collector,
         Matches(s, D, k, Len(D), c)
  PROVE  /\ c.win = << >> => Len(D) = k
         /\ Baseline(c) = None => c.win = << >> /\ NeedsPhase2(c)
         /\ Baseline(c) # None => Len(D) > 0 /\ Baseline(c) = D[Len(D)].val
<1>1. /\ Len(D) \in Nat /\ k \in Nat /\ k <= Len(D)
      /\ c.win \in Seq(Changes) /\ Len(c.win) \in Nat
      /\ \A n \in 1..Len(c.win) : c.win[n].val # None
  BY CollectorFacts
<1>2. PICK off \in {0, 1} :
        /\ off = 1 <=> Redundant(s, D, k, c)
        /\ Len(c.win) = Len(D) - k + off
        /\ \A j \in 1..(Len(D) - k) : D[k + j] = c.win[j + off]
  BY DEF Matches
<1>3. c.win = << >> => Len(D) = k
  <2>1. ASSUME c.win = << >> PROVE off = 0 /\ Len(c.win) = 0
    BY <1>2, <2>1 DEF Redundant
  <2>. QED
    BY <1>1, <1>2, <2>1
<1>4. CASE c.win # << >>
  <2>1. Len(c.win) \in Nat \ {0}
    BY <1>1, <1>4, EmptySeq
  <2>2. Baseline(c) = c.win[Len(c.win)].val /\ Baseline(c) # None
    <3>1. Len(c.win) \in 1..Len(c.win)
      BY <2>1
    <3>. QED
      BY <1>1, <1>4, <3>1 DEF Baseline
  <2>3. CASE Len(D) = k
    <3>1. off = 1 /\ Len(c.win) = 1
      BY <1>1, <1>2, <2>1, <2>3
    <3>2. k > 0 /\ c.win[1].val = D[k].val
      BY <1>2, <3>1 DEF Redundant
    <3>. QED
      BY <1>4, <2>2, <2>3, <3>1, <3>2
  <2>4. CASE Len(D) # k
    <3>. DEFINE j == Len(D) - k
    <3>1. j \in 1..(Len(D) - k) /\ k + j = Len(D) /\ Len(D) > 0 /\ j + off = Len(c.win)
      BY <1>1, <1>2, <2>4
    <3>2. D[k + j] = c.win[j + off]
      BY <1>2, <3>1
    <3>. HIDE DEF j
    <3>. QED
      BY <1>4, <2>2, <3>1, <3>2
  <2>. QED
    BY <2>3, <2>4
<1>5. CASE c.win = << >> /\ ~NeedsPhase2(c)
  <2>1. c.seed # None /\ ~c.seed_suspect
    BY <1>5 DEF NeedsPhase2
  <2>2. Baseline(c) = c.seed.val /\ c.seed.val # None
    BY <1>5, <2>1, CollectorFacts DEF Baseline
  <2>3. k > 0 /\ c.seed.val = D[k].val
    BY <1>5 DEF Matches
  <2>. QED
    BY <1>3, <1>5, <2>2, <2>3
<1>6. CASE c.win = << >> /\ NeedsPhase2(c)
  BY <1>3, <1>6 DEF Baseline, NeedsPhase2
<1>. QED
  BY <1>4, <1>5, <1>6

(* An in-window change goes into the window as into the full decode.       *)
LEMMA TakeMatches ==
  ASSUME NEW s, NEW D \in Seq(Changes), NEW k \in 0..Len(D), NEW c \in Collector,
         NEW e \in Recorded, e.sid = s, ~(e.tick <= ask.from),
         ~(ask.to # Unbounded /\ e.tick > ask.to),
         Matches(s, D, k, Len(D), c)
  PROVE  Matches(s, Extended(D, e, s), k, Len(Extended(D, e, s)), OnPhase1(c, e, FALSE))
<1>. DEFINE E == Extended(D, e, s)
            w == c.win
            x == OnPhase1(c, e, FALSE)
            y == [c EXCEPT !.win = Append(@, Entry(e))]
            drops == s \notin EventSid /\ D # << >> /\ D[Len(D)].val = e.val
            skips == s \notin EventSid /\ Baseline(c) = e.val
<1>1. Entry(e) \in Changes /\ Entry(e).val = e.val /\ e.val # None
  BY NoneAssumption DEF Recorded, Entry, Changes
<1>2. /\ Len(D) \in Nat /\ k \in Nat /\ k <= Len(D)
      /\ w \in Seq(Changes) /\ Len(w) \in Nat
  BY CollectorFacts
<1>3. (drops => E = D) /\ (~drops => E = Append(D, Entry(e)))
  BY DEF Extended
<1>4. (skips => x = c) /\ (~skips => x = y)
  BY DEF OnPhase1
<1>5. /\ y.win = Append(w, Entry(e)) /\ y.seed = c.seed
      /\ NeedsPhase2(y) <=> NeedsPhase2(c)
  BY DEF Collector, NeedsPhase2
<1>6. /\ Append(D, Entry(e)) \in Seq(Changes) /\ Len(Append(D, Entry(e))) = Len(D) + 1
      /\ \A n \in 1..Len(D) : Append(D, Entry(e))[n] = D[n]
      /\ Append(D, Entry(e))[Len(D) + 1] = Entry(e)
  BY <1>1, Appended
<1>7. /\ Append(w, Entry(e)) \in Seq(Changes) /\ Len(Append(w, Entry(e))) = Len(w) + 1
      /\ \A n \in 1..Len(w) : Append(w, Entry(e))[n] = w[n]
      /\ Append(w, Entry(e))[Len(w) + 1] = Entry(e)
  BY <1>1, <1>2, Appended
<1>8. /\ w = << >> => Len(D) = k
      /\ Baseline(c) = None => w = << >> /\ NeedsPhase2(c)
      /\ Baseline(c) # None => Len(D) > 0 /\ Baseline(c) = D[Len(D)].val
  BY BaselineTells
<1>9. PICK off \in {0, 1} :
        /\ off = 1 <=> Redundant(s, D, k, c)
        /\ Len(w) = Len(D) - k + off
        /\ \A j \in 1..(Len(D) - k) : D[k + j] = w[j + off]
  BY DEF Matches
<1>10. ~NeedsPhase2(c) => k > 0 /\ c.seed.val = D[k].val
  BY DEF Matches
<1>11. D # << >> <=> Len(D) > 0
  BY <1>2, EmptySeq
<1>12. w # << >> <=> Len(w) > 0
  BY <1>2, EmptySeq
<1>. HIDE DEF E, w, x, y
<1>13. CASE drops /\ skips
  BY <1>3, <1>4, <1>13 DEF E, x
<1>14. CASE drops /\ ~skips
  <2>1. w = << >> /\ NeedsPhase2(c) /\ Len(D) = k /\ k > 0
    BY <1>2, <1>8, <1>11, <1>14
  <2>2. E = D /\ x = y
    BY <1>3, <1>4, <1>14
  <2>3. off = 0 /\ Len(w) = 0
    BY <1>9, <1>12, <2>1, <1>2 DEF Redundant, w
  <2>4. Len(y.win) = 1 /\ y.win[1] = Entry(e) /\ y.win # << >>
    <3>1. Len(Append(w, Entry(e))) = 1 /\ Append(w, Entry(e))[1] = Entry(e)
      BY <1>7, <2>3
    <3>2. Append(w, Entry(e)) # << >>
      BY <1>7, <3>1, EmptySeq
    <3>. QED
      BY <1>5, <3>1, <3>2
  <2>5. Redundant(s, D, k, y)
    BY <1>1, <1>5, <1>14, <2>1, <2>4 DEF Redundant
  <2>6. Len(y.win) = Len(D) - k + 1 /\ 1..(Len(D) - k) = {}
    BY <1>2, <2>1, <2>4
  <2>7. Matches(s, D, k, Len(D), y)
    BY <1>5, <2>1, <2>5, <2>6 DEF Matches
  <2>. QED
    BY <2>2, <2>7 DEF E, x
<1>15. CASE ~drops /\ skips
  <2>1. Baseline(c) # None
    BY <1>1, <1>15
  <2>2. Len(D) > 0 /\ D[Len(D)].val = e.val
    BY <1>8, <1>15, <2>1
  <2>. QED
    BY <1>11, <1>15, <2>2
<1>16. CASE ~drops /\ ~skips
  <2>1. E = Append(D, Entry(e)) /\ x = y /\ Len(E) = Len(D) + 1 /\ Len(y.win) = Len(w) + 1
    BY <1>3, <1>4, <1>5, <1>6, <1>7, <1>16
  <2>2. k > 0 => E[k] = D[k]
    <3>1. k > 0 => k \in 1..Len(D)
      BY <1>2
    <3>. QED
      BY <1>6, <2>1, <3>1
  <2>3. Redundant(s, E, k, y) <=> Redundant(s, D, k, c)
    <3>1. CASE w # << >>
      <4>1. 1 \in 1..Len(w) /\ y.win # << >> /\ y.win[1] = w[1]
        BY <1>2, <1>5, <1>7, <1>12, <3>1, EmptySeq
      <4>. QED
        BY <1>5, <2>2, <3>1, <4>1 DEF Redundant, w
    <3>2. CASE w = << >>
      <4>1. Len(D) = k /\ ~Redundant(s, D, k, c)
        BY <1>8, <3>2 DEF Redundant, w
      <4>2. Len(w) = 0 /\ y.win[1] = Entry(e)
        BY <1>2, <1>5, <1>7, <1>12, <3>2
      <4>3. ~Redundant(s, E, k, y)
        BY <1>1, <1>11, <1>16, <2>2, <4>1, <4>2 DEF Redundant
      <4>. QED
        BY <4>1, <4>3
    <3>. QED
      BY <3>1, <3>2
  <2>4. Len(y.win) = Len(E) - k + off
    BY <1>2, <1>9, <2>1
  <2>5. ASSUME NEW j \in 1..(Len(E) - k) PROVE E[k + j] = y.win[j + off]
    <3>1. CASE j \in 1..(Len(D) - k)
      <4>1. k + j \in 1..Len(D) /\ j + off \in 1..Len(w)
        BY <1>2, <1>9, <3>1
      <4>2. E[k + j] = D[k + j] /\ y.win[j + off] = w[j + off]
        BY <1>5, <1>6, <1>7, <2>1, <4>1
      <4>. QED
        BY <1>9, <3>1, <4>2
    <3>2. CASE j = Len(D) - k + 1
      <4>1. k + j = Len(D) + 1 /\ j + off = Len(w) + 1
        BY <1>2, <1>9, <3>2
      <4>. QED
        BY <1>5, <1>6, <1>7, <2>1, <4>1
    <3>. QED
      BY <1>2, <2>1, <3>1, <3>2
  <2>6. ~NeedsPhase2(y) => k > 0 /\ y.seed.val = E[k].val
    BY <1>5, <1>10, <2>2
  <2>7. Matches(s, E, k, Len(E), y)
    <3>1. off = 1 <=> Redundant(s, E, k, y)
      BY <1>9, <2>3
    <3>. QED
      BY <2>4, <2>5, <2>6, <3>1 DEF Matches
  <2>. QED
    BY <2>1, <2>7 DEF E, x
<1>. QED
  BY <1>13, <1>14, <1>15, <1>16

(* The positions phase 1 delivers: those it leaves out before the window's *)
(* left edge are before all it delivers, the others beyond the window.     *)
Selection(ch, a, S) ==
  /\ S \subseteq {i \in 1..Len(ch) : ch[i].sid \in a.slots}
  /\ \A i \in 1..Len(ch) : ch[i].sid \in a.slots /\ i \notin S =>
       /\ ch[i].tick <= a.from => \A j \in S : ~(j < i)
       /\ Proper(a) /\ ch[i].tick > a.from =>
            /\ a.to # Unbounded /\ ch[i].tick > a.to
  /\ Proper(a) => \A i \in S : ~(a.to # Unbounded /\ ch[i].tick > a.to)

(* Position j is of a change inside the window.                            *)
InWindow(ch, a, j) ==
  a.from < ch[j].tick /\ (a.to # Unbounded => ch[j].tick <= a.to)

(* A window's entries are changes of the file's first p positions, in      *)
(* order and alternating.                                                  *)
WindowIs(ch, a, s, p, c) ==
  /\ c.seed # None => c.seed.tick <= a.from
  /\ \A n \in 1..Len(c.win) : \E j \in 1..p : c.win[n] = Entry(ch[j]) /\ InWindow(ch, a, j)
  /\ \A n \in 1..(Len(c.win) - 1) :
       /\ c.win[n].tick <= c.win[n + 1].tick
       /\ s \notin EventSid => c.win[n].val # c.win[n + 1].val

Follows(ch, a, s, p, c) ==
  \E k \in 0..Len(Decoded(ch, s)[p]) :
    /\ Splits(Decoded(ch, s)[p], k, a.from)
    /\ Matches(s, Decoded(ch, s)[p], k, Len(Decoded(ch, s)[p]), c)

Collecting(ch, a, s, S, p, c) ==
  /\ c \in Collector /\ ~c.demoted /\ c.seed2 = None
  /\ WindowIs(ch, a, s, p, c)
  /\ ~NeedsPhase2(c) => \E j \in S : j <= p
  /\ Proper(a) => Follows(ch, a, s, p, c)

(* Before the first position nothing is decoded and nothing collected.     *)
LEMMA EmptyMatches ==
  ASSUME NEW s, NEW c, c.win = << >>, NeedsPhase2(c)
  PROVE  \A D \in Seq(Changes) : Matches(s, D, Len(D), Len(D), c)
<1>1. ~Redundant(s, << >>, 0, c) /\ \A D : \A k : ~Redundant(s, D, k, c)
  BY DEF Redundant
<1>2. ASSUME NEW D \in Seq(Changes) PROVE Matches(s, D, Len(D), Len(D), c)
  <2>1. Len(D) \in Nat /\ Len(c.win) = 0 /\ Len(D) - Len(D) = 0 /\ 1..(Len(D) - Len(D)) = {}
    OBVIOUS
  <2>2. Len(c.win) = Len(D) - Len(D) + 0
    BY <2>1
  <2>. QED
    BY <1>1, <2>1, <2>2 DEF Matches
<1>. QED
  BY <1>2

LEMMA CollectingStarts ==
  ASSUME NEW ch, Chronicle(ch), NEW a, WellAsked(a), NEW s, NEW S, NEW c \in Collector,
         ~c.demoted, c.seed2 = None, c.win = << >>, NeedsPhase2(c),
         c.seed # None => c.seed.tick <= a.from
  PROVE  Collecting(ch, a, s, S, 0, c)
<1>1. Len(ch) \in Nat /\ Decoded(ch, s)[0] = << >>
  BY ChronicleFacts, DecodeFacts
<1>2. << >> \in Seq(Changes) /\ Len(<< >>) = 0
  BY EmptySeq
<1>3. Matches(s, << >>, 0, 0, c)
  BY <1>2, EmptyMatches
<1>4. Splits(<< >>, 0, a.from) /\ 0 \in 0..0
  BY <1>2 DEF Splits
<1>5. Follows(ch, a, s, 0, c)
  BY <1>1, <1>2, <1>3, <1>4 DEF Follows
<1>6. WindowIs(ch, a, s, 0, c)
  BY DEF WindowIs
<1>. QED
  BY <1>5, <1>6 DEF Collecting

(* With a change at or before the left edge still to come there is nothing *)
(* in a window, and nothing past the edge in the full decode.              *)
LEMMA EarlyStill ==
  ASSUME NEW ch, Chronicle(ch), NEW a, WellAsked(a), NEW s, NEW i \in 1..Len(ch),
         ch[i].tick <= a.from
  PROVE  /\ \A c \in Collector : WindowIs(ch, a, s, i - 1, c) => c.win = << >>
         /\ Splits(Decoded(ch, s)[i], Len(Decoded(ch, s)[i]), a.from)
<1>1. /\ Len(ch) \in Nat /\ i \in 0..Len(ch) /\ a.from \in Nat
      /\ \A j \in 1..i : j \in 1..Len(ch) /\ ch[j].tick \in Nat /\ Entry(ch[j]).tick = ch[j].tick
  <2>1. Len(ch) \in Nat
    BY ChronicleFacts
  <2>2. \A j \in 1..i : j \in 1..Len(ch)
    BY <2>1
  <2>. QED
    BY <2>1, <2>2, ChronicleFacts DEF WellAsked
<1>2. \A j \in 1..i : ch[j].tick <= a.from
  <2>1. \A j \in 1..i : j <= i /\ ch[j].tick <= ch[i].tick
    BY <1>1 DEF Chronicle
  <2>2. ch[i].tick \in Nat
    BY ChronicleFacts
  <2>. QED
    BY <1>1, <2>1, <2>2
<1>3. ASSUME NEW c \in Collector, WindowIs(ch, a, s, i - 1, c), c.win # << >>  PROVE FALSE
  <2>1. 1 \in 1..Len(c.win)
    BY <1>3, CollectorFacts, EmptySeq
  <2>2. PICK j \in 1..(i - 1) : InWindow(ch, a, j)
    BY <1>3, <2>1 DEF WindowIs
  <2>3. j \in 1..i
    BY <1>1
  <2>. QED
    BY <1>1, <1>2, <2>2, <2>3 DEF InWindow
<1>4. Splits(Decoded(ch, s)[i], Len(Decoded(ch, s)[i]), a.from)
  <2>. DEFINE D == Decoded(ch, s)[i]
  <2>1. D \in Seq(Changes) /\ \A n \in 1..Len(D) : \E j \in 1..i : D[n] = Entry(ch[j])
    BY <1>1, DecodeTold DEF Told
  <2>2. Len(D) \in Nat
    BY <2>1
  <2>. HIDE DEF D
  <2>3. \A n \in 1..Len(D) : D[n].tick <= a.from /\ n <= Len(D)
    BY <1>1, <1>2, <2>1, <2>2
  <2>4. Splits(D, Len(D), a.from)
    BY <2>2, <2>3 DEF Splits
  <2>. QED
    BY <2>4 DEF D
<1>. QED
  BY <1>3, <1>4

(* What is known up to a position is known up to the next.                 *)
LEMMA WindowGrows ==
  ASSUME NEW ch, NEW a, NEW s, NEW S, NEW p \in Nat, NEW q \in Nat, p <= q, NEW c
  PROVE  /\ WindowIs(ch, a, s, p, c) => WindowIs(ch, a, s, q, c)
         /\ (\E j \in S : j \in Nat /\ j <= p) => \E j \in S : j <= q
<1>1. \A j \in 1..p : j \in 1..q
  OBVIOUS
<1>2. ASSUME WindowIs(ch, a, s, p, c) PROVE WindowIs(ch, a, s, q, c)
  BY <1>1, <1>2, Zenon DEF WindowIs
<1>. QED
  BY <1>2

(* Phase 1 skips a position: another signal's, or one before all it        *)
(* delivers.                                                               *)
LEMMA SkipCollects ==
  ASSUME NEW ch, Chronicle(ch), NEW a, WellAsked(a), NEW S, Selection(ch, a, S),
         NEW s \in a.slots, NEW c, NEW i \in 1..Len(ch),
         Collecting(ch, a, s, S, i - 1, c), 
         ch[i].sid # s \/ i \notin S,
         Proper(a) /\ ch[i].sid = s => ch[i].tick <= a.from
  PROVE  Collecting(ch, a, s, S, i, c)
<1>. DEFINE D == Decoded(ch, s)[i - 1]
            E == Decoded(ch, s)[i]
<1>1. /\ Len(ch) \in Nat /\ i - 1 \in 0..Len(ch) /\ i - 1 \in Nat /\ i \in 0..Len(ch)
      /\ i \in Nat /\ i - 1 <= i
      /\ ch[i] \in Recorded /\ E = Extended(D, ch[i], s)
  BY ChronicleFacts, DecodeFacts
<1>2. D \in Seq(Changes) /\ E \in Seq(Changes)
  BY <1>1, DecodeTold DEF Told
<1>3. c \in Collector /\ WindowIs(ch, a, s, i - 1, c)
  BY DEF Collecting
<1>4. WindowIs(ch, a, s, i, c)
  BY <1>1, <1>3, WindowGrows
<1>5. ~NeedsPhase2(c) => \E j \in S : j <= i
  <2>1. S \subseteq 1..Len(ch)
    BY DEF Selection
  <2>2. \A j \in S : j \in Nat
    BY <1>1, <2>1
  <2>. QED
    BY <1>1, <2>2 DEF Collecting
<1>. HIDE DEF D, E
<1>6. ASSUME Proper(a) PROVE Follows(ch, a, s, i, c)
  <2>1. CASE ch[i].sid # s
    <3>1. E = D
      BY <1>1, <2>1 DEF Extended
    <3>. QED
      BY <1>6, <3>1 DEF Collecting, Follows, D, E
  <2>2. CASE ch[i].sid = s
    <3>1. ch[i].tick <= a.from /\ i \notin S
      BY <1>6, <2>2
    <3>2. c.win = << >> /\ Splits(E, Len(E), a.from)
      BY <1>3, <3>1, EarlyStill DEF E
    <3>3. \A j \in S : ~(j < i)
      BY <2>2, <3>1 DEF Selection
    <3>4. NeedsPhase2(c)
      <4>1. ASSUME ~NeedsPhase2(c) PROVE FALSE
        <5>1. PICK j \in S : j <= i - 1
          BY <4>1 DEF Collecting
        <5>2. j \in 1..Len(ch)
          BY DEF Selection
        <5>3. j < i
          BY <1>1, <5>1, <5>2
        <5>. QED
          BY <3>3, <5>3
      <4>. QED
        BY <4>1
    <3>5. Matches(s, E, Len(E), Len(E), c)
      BY <1>2, <3>2, <3>4, EmptyMatches
    <3>6. Len(E) \in 0..Len(E)
      BY <1>2
    <3>. QED
      BY <3>2, <3>5, <3>6 DEF Follows, E
  <2>. QED
    BY <2>1, <2>2
<1>. QED
  BY <1>4, <1>5, <1>6 DEF Collecting
(* A frame echo, which comes before every change, leaves nothing behind    *)
(* but a seed not to be trusted.                                           *)
LEMMA EchoCollects ==
  ASSUME NEW ch, Chronicle(ch), WellAsked(ask), NEW S,
         NEW s \in ask.slots, NEW c, Collecting(ch, ask, s, S, 0, c),
         NEW e, e.tick \in Nat, e.val \in Value \cup {Unknown}
  PROVE  Collecting(ch, ask, s, S, 0, OnPhase1(c, e, TRUE))
<1>1. c \in Collector /\ WindowIs(ch, ask, s, 0, c) /\ ~c.demoted /\ c.seed2 = None
  BY DEF Collecting
<1>2. c.win = << >>
  <2>1. ASSUME c.win # << >> PROVE FALSE
    <3>1. 1 \in 1..Len(c.win)
      BY <1>1, <2>1, CollectorFacts, EmptySeq
    <3>2. \E j \in 1..0 : InWindow(ch, ask, j)
      BY <1>1, <3>1 DEF WindowIs
    <3>. QED
      BY <3>2
  <2>. QED
    BY <2>1
<1>3. CASE e.tick <= ask.from
  <2>. DEFINE x == [c EXCEPT !.seed = Entry(e), !.seed_suspect = TRUE]
  <2>1. OnPhase1(c, e, TRUE) = x
    BY <1>3 DEF OnPhase1
  <2>2. Entry(e) \in Changes /\ Entry(e).tick = e.tick
    BY DEF Entry, Changes
  <2>3. /\ x \in Collector /\ x.win = << >> /\ ~x.demoted /\ x.seed2 = None
        /\ x.seed = Entry(e) /\ x.seed_suspect = TRUE
    BY <1>1, <1>2, <2>2 DEF Collector
  <2>. HIDE DEF x
  <2>4. NeedsPhase2(x)
    BY <2>3 DEF NeedsPhase2
  <2>5. Collecting(ch, ask, s, S, 0, x)
    BY <1>3, <2>2, <2>3, <2>4, CollectingStarts
  <2>. QED
    BY <2>1, <2>5
<1>4. CASE ~(e.tick <= ask.from)
  BY <1>4 DEF OnPhase1
<1>. QED
  BY <1>3, <1>4

(* Phase 1 delivers a change of the signal.                                *)
LEMMA TakeCollects ==
  ASSUME NEW ch, Chronicle(ch), WellAsked(ask), NEW S, Selection(ch, ask, S),
         NEW s \in ask.slots, NEW c, NEW i \in S, ch[i].sid = s,
         Collecting(ch, ask, s, S, i - 1, c)
  PROVE  Collecting(ch, ask, s, S, i, OnPhase1(c, ch[i], FALSE))
<1>. DEFINE D == Decoded(ch, s)[i - 1]
            E == Decoded(ch, s)[i]
            e == ch[i]
            x == OnPhase1(c, e, FALSE)
<1>1. i \in 1..Len(ch) /\ Len(ch) \in Nat
  BY ChronicleFacts DEF Selection
<1>2. /\ i - 1 \in 0..Len(ch) /\ i \in 0..Len(ch) /\ i \in Nat /\ i - 1 \in Nat /\ i - 1 <= i
      /\ e \in Recorded /\ e.tick \in Nat /\ ask.from \in Nat
      /\ Entry(e) \in Changes /\ Entry(e).tick = e.tick /\ Entry(e).val = e.val
      /\ E = Extended(D, e, s)
  BY <1>1, ChronicleFacts, DecodeFacts DEF WellAsked
<1>3. D \in Seq(Changes) /\ E \in Seq(Changes) /\ Len(D) \in Nat /\ Len(E) \in Nat
  BY <1>2, DecodeTold DEF Told
<1>4. /\ c \in Collector /\ WindowIs(ch, ask, s, i - 1, c) /\ ~c.demoted /\ c.seed2 = None
      /\ WindowIs(ch, ask, s, i, c)
  BY <1>2, WindowGrows DEF Collecting
<1>5. \E j \in S : j <= i
  BY <1>2
<1>6. /\ E = D \/ (e.sid = s /\ E = Append(D, Entry(e)))
      /\ Len(E) \in Nat \ {0} /\ E[Len(E)].val = e.val
  BY <1>2, <1>3, ExtendedFacts
<1>. HIDE DEF D, E, x
<1>7. CASE e.tick <= ask.from
  <2>. DEFINE y == [c EXCEPT !.seed = Entry(e), !.seed_suspect = FALSE]
  <2>1. x = y
    BY <1>7 DEF OnPhase1, x
  <2>2. c.win = << >> /\ Splits(E, Len(E), ask.from)
    BY <1>1, <1>4, <1>7, EarlyStill DEF E
  <2>3. /\ y \in Collector /\ y.win = << >> /\ ~y.demoted /\ y.seed2 = None
        /\ y.seed = Entry(e) /\ y.seed_suspect = FALSE
    BY <1>2, <1>4, <2>2 DEF Collector
  <2>. HIDE DEF y
  <2>4. Matches(s, E, Len(E), Len(E), y)
    <3>1. /\ ~Redundant(s, E, Len(E), y) /\ Len(y.win) = 0 /\ Len(E) - Len(E) = 0
          /\ 1..(Len(E) - Len(E)) = {}
      BY <1>3, <2>3 DEF Redundant
    <3>2. Len(y.win) = Len(E) - Len(E) + 0
      BY <3>1
    <3>3. Len(E) > 0 /\ y.seed.val = E[Len(E)].val
      BY <1>2, <1>6, <2>3
    <3>. QED
      BY <3>1, <3>2, <3>3 DEF Matches
  <2>5. Follows(ch, ask, s, i, y)
    <3>1. Len(E) \in 0..Len(E)
      BY <1>3
    <3>. QED
      BY <2>2, <2>4, <3>1 DEF Follows, E
  <2>6. WindowIs(ch, ask, s, i, y)
    <3>1. 1..Len(y.win) = {} /\ 1..(Len(y.win) - 1) = {}
      BY <2>3
    <3>. QED
      BY <1>2, <1>7, <2>3, <3>1 DEF WindowIs
  <2>. QED
    BY <1>5, <2>1, <2>3, <2>5, <2>6 DEF Collecting, x
<1>8. CASE ~(e.tick <= ask.from) /\ ~(ask.to # Unbounded /\ e.tick > ask.to)
  <2>. DEFINE y == [c EXCEPT !.win = Append(@, Entry(e))]
  <2>1. x = c \/ (x = y /\ (s \notin EventSid => Baseline(c) # e.val))
    BY <1>8 DEF OnPhase1, x
  <2>2. /\ y \in Collector /\ y.win = Append(c.win, Entry(e)) /\ y.seed = c.seed
        /\ y.seed_suspect = c.seed_suspect /\ ~y.demoted /\ y.seed2 = None
    <3>1. Append(c.win, Entry(e)) \in Seq(Changes)
      BY <1>2, <1>4, CollectorFacts
    <3>. QED
      BY <1>4, <3>1 DEF Collector
  <2>. HIDE DEF y
  <2>3. NeedsPhase2(x) <=> NeedsPhase2(c)
    BY <2>1, <2>2 DEF NeedsPhase2
  <2>4. InWindow(ch, ask, i)
    <3>1. ask.to # Unbounded => ask.to \in Nat
      BY DEF WellAsked
    <3>. QED
      BY <1>2, <1>8, <3>1 DEF InWindow
  <2>5. ASSUME x = y PROVE WindowIs(ch, ask, s, i, y)
    <3>. DEFINE w == c.win
                v == y.win
    <3>1. /\ w \in Seq(Changes) /\ Len(w) \in Nat /\ v = Append(w, Entry(e))
      BY <1>4, <2>2, CollectorFacts
    <3>2. /\ Len(v) = Len(w) + 1 /\ v[Len(w) + 1] = Entry(e)
          /\ \A n \in 1..Len(w) : v[n] = w[n]
      BY <1>2, <3>1, Appended
    <3>3. \A n \in 1..Len(w) : \E j \in 1..i : w[n] = Entry(ch[j]) /\ InWindow(ch, ask, j)
      BY <1>4 DEF WindowIs
    <3>4. \A n \in 1..(Len(w) - 1) :
            /\ w[n].tick <= w[n + 1].tick
            /\ s \notin EventSid => w[n].val # w[n + 1].val
      BY <1>4 DEF WindowIs
    <3>5. s \notin EventSid /\ w # << >> => w[Len(w)].val # e.val
      <4>1. CASE x = y /\ (s \notin EventSid => Baseline(c) # e.val)
        BY <2>1, <4>1 DEF Baseline
      <4>2. ASSUME x = c, x = y PROVE FALSE
        <5>1. w = v
          BY <4>2
        <5>. QED
          BY <3>1, <3>2, <5>1
      <4>. QED
        BY <2>1, <2>5, <4>1, <4>2
    <3>. HIDE DEF w, v
    <3>6. ASSUME NEW n \in 1..Len(v)
          PROVE  \E j \in 1..i : v[n] = Entry(ch[j]) /\ InWindow(ch, ask, j)
      <4>1. CASE n \in 1..Len(w)
        BY <3>2, <3>3, <4>1
      <4>2. CASE n = Len(w) + 1
        <5>1. i \in 1..i
          BY <1>1
        <5>. QED
          BY <2>4, <3>2, <4>2, <5>1
      <4>. QED
        BY <3>1, <3>2, <4>1, <4>2
    <3>7. ASSUME NEW n \in 1..(Len(v) - 1)
          PROVE  /\ v[n].tick <= v[n + 1].tick
                 /\ s \notin EventSid => v[n].val # v[n + 1].val
      <4>1. CASE n \in 1..(Len(w) - 1)
        <5>1. n \in 1..Len(w) /\ n + 1 \in 1..Len(w)
          BY <3>1, <4>1
        <5>. QED
          BY <3>2, <3>4, <4>1, <5>1
      <4>2. CASE n = Len(w)
        <5>1. n \in 1..Len(w) /\ v[n] = w[n] /\ v[n + 1] = Entry(e)
          BY <3>1, <3>2, <4>2
        <5>2. PICK j \in 1..i : w[n] = Entry(ch[j])
          BY <3>3, <5>1
        <5>3. j \in 1..Len(ch) /\ j <= i
          BY <1>1
        <5>4. w[n].tick <= e.tick
          BY <1>1, <5>2, <5>3, ChronicleFacts DEF Chronicle
        <5>5. w # << >>
          BY <4>2, <5>1
        <5>. QED
          BY <1>2, <3>5, <4>2, <5>1, <5>4, <5>5
      <4>. QED
        BY <3>1, <3>2, <4>1, <4>2
    <3>8. y.seed # None => y.seed.tick <= ask.from
      BY <1>4, <2>2 DEF WindowIs
    <3>. QED
      BY <3>6, <3>7, <3>8 DEF WindowIs, v
  <2>6. ASSUME Proper(ask) PROVE Follows(ch, ask, s, i, x)
    <3>1. PICK k \in 0..Len(D) : Splits(D, k, ask.from) /\ Matches(s, D, k, Len(D), c)
      BY <2>6 DEF Collecting, Follows, D
    <3>2. Matches(s, E, k, Len(E), x)
      BY <1>2, <1>3, <1>4, <1>8, <3>1, TakeMatches DEF x
    <3>3. k \in 0..Len(E) /\ Splits(E, k, ask.from)
      <4>1. CASE E = D
        BY <3>1, <4>1
      <4>2. CASE E = Append(D, Entry(e))
        <5>1. /\ Len(E) = Len(D) + 1 /\ E[Len(D) + 1] = Entry(e)
              /\ \A n \in 1..Len(D) : E[n] = D[n]
          BY <1>2, <1>3, <4>2, Appended
        <5>2. k \in 0..Len(E)
          BY <1>3, <5>1
        <5>3. ASSUME NEW n \in 1..Len(E) PROVE n <= k <=> E[n].tick <= ask.from
          <6>1. CASE n \in 1..Len(D)
            BY <3>1, <5>1, <6>1 DEF Splits
          <6>2. CASE n = Len(D) + 1
            <7>1. ~(n <= k)
              BY <1>3, <6>2
            <7>. QED
              BY <1>2, <1>8, <5>1, <6>2, <7>1
          <6>. QED
            BY <1>3, <5>1, <6>1, <6>2
        <5>. QED
          BY <5>2, <5>3 DEF Splits
      <4>. QED
        BY <1>6, <4>1, <4>2
    <3>. QED
      BY <3>2, <3>3 DEF Follows, E
  <2>7. x \in Collector /\ ~x.demoted /\ x.seed2 = None /\ WindowIs(ch, ask, s, i, x)
    BY <1>4, <2>1, <2>2, <2>5
  <2>. QED
    BY <1>5, <2>6, <2>7 DEF Collecting, x
<1>9. CASE ask.to # Unbounded /\ e.tick > ask.to /\ ~(e.tick <= ask.from)
  <2>1. ~Proper(ask)
    BY <1>9 DEF Selection
  <2>2. x = c
    BY <1>9 DEF OnPhase1, x
  <2>. QED
    BY <1>4, <1>5, <2>1, <2>2 DEF Collecting, x
<1>. QED
  BY <1>7, <1>8, <1>9

(* Phase 1 goes on to the next position it delivers.                       *)
LEMMA NextCollects ==
  ASSUME NEW ch, Chronicle(ch), NEW a, WellAsked(a), NEW S, Selection(ch, a, S),
         NEW s \in a.slots, NEW c, NEW p \in 0..Len(ch), NEW i \in S, p < i,
         \A j \in S : p < j => i <= j,
         Collecting(ch, a, s, S, p, c)
  PROVE  /\ Collecting(ch, a, s, S, i - 1, c)
         /\ ch[i].sid # s => Collecting(ch, a, s, S, i, c)
<1>1. Len(ch) \in Nat /\ i \in 1..Len(ch) /\ i - 1 \in Nat /\ i - 1 <= Len(ch) /\ p <= i - 1
  BY ChronicleFacts DEF Selection
<1>. DEFINE T == {q \in 0..(i - 1) : p <= q => Collecting(ch, a, s, S, q, c)}
<1>2. 0 \in T
  <2>1. p <= 0 => p = 0
    OBVIOUS
  <2>. QED
    BY <1>1, <2>1
<1>3. ASSUME NEW q \in 1..(i - 1), q - 1 \in T PROVE q \in T
  <2>1. CASE p <= q - 1
    <3>1. Collecting(ch, a, s, S, q - 1, c)
      BY <1>3, <2>1
    <3>2. q \in 1..Len(ch) /\ p < q /\ ~(i <= q) /\ q <= i
      BY <1>1, <2>1
    <3>3. q \notin S
      BY <3>2
    <3>4. Proper(a) /\ ch[q].sid = s => ch[q].tick <= a.from
      <4>1. ASSUME Proper(a), ch[q].sid = s, ~(ch[q].tick <= a.from)  PROVE FALSE
        <5>1. ch[q].tick \in Nat /\ ch[i].tick \in Nat /\ a.from \in Nat
          BY <1>1, <3>2, ChronicleFacts DEF WellAsked
        <5>2. a.to # Unbounded /\ ch[q].tick > a.to
          BY <3>2, <3>3, <4>1, <5>1 DEF Selection
        <5>3. ch[q].tick <= ch[i].tick
          BY <1>1, <3>2 DEF Chronicle
        <5>4. ch[i].tick > a.to
          BY <5>1, <5>2, <5>3 DEF WellAsked
        <5>. QED
          BY <4>1, <5>2, <5>4 DEF Selection
      <4>. QED
        BY <4>1
    <3>5. Collecting(ch, a, s, S, q, c)
      BY <3>1, <3>2, <3>3, <3>4, SkipCollects
    <3>. QED
      BY <3>5
  <2>2. CASE ~(p <= q - 1)
    <3>1. p <= q => p = q
      BY <2>2
    <3>. QED
      BY <1>1, <3>1
  <2>. QED
    BY <2>1, <2>2
<1>. HIDE DEF T
<1>4. \A q \in 0..(i - 1) : q \in T
  BY <1>1, <1>2, <1>3, UpTo
<1>5. Collecting(ch, a, s, S, i - 1, c)
  <2>1. i - 1 \in T
    BY <1>1, <1>4
  <2>. QED
    BY <1>1, <2>1 DEF T
<1>6. ASSUME ch[i].sid # s PROVE Collecting(ch, a, s, S, i, c)
  BY <1>1, <1>5, <1>6, SkipCollects
<1>. QED
  BY <1>5, <1>6

-----------------------------------------------------------------------------

(***************************************************************************)
(* The end of phase 1.                                                     *)
(***************************************************************************)

(* The right edge of a window that is not empty, in terms of a request.    *)
Past(a, t) == a.to # Unbounded /\ t > a.to

(* The window is what the full decode D has after the left edge, and the   *)
(* rest of D is past the right one.                                        *)
Reached(a, s, D, c) ==
  \E k \in 0..Len(D) : \E d \in k..Len(D) :
    /\ Splits(D, k, a.from)
    /\ \A n \in 1..Len(D) : d < n <=> Past(a, D[n].tick)
    /\ Matches(s, D, k, d, c)

LEMMA FollowsReached ==
  ASSUME NEW ch, Chronicle(ch), NEW a, WellAsked(a), Proper(a), NEW s,
         NEW p \in 0..Len(ch), NEW c \in Collector, WindowIs(ch, a, s, p, c), Follows(ch, a, s, p, c)
  PROVE  Reached(a, s, Decoded(ch, s)[p], c)
<1>. DEFINE D == Decoded(ch, s)[p]
<1>1. D \in Seq(Changes) /\ Len(D) \in Nat /\ Len(D) \in 0..Len(D)
  BY DecodeTold DEF Told
<1>2. PICK k \in 0..Len(D) : Splits(D, k, a.from) /\ Matches(s, D, k, Len(D), c)
  BY DEF Follows
<1>3. PICK off \in {0, 1} :
        /\ Len(c.win) = Len(D) - k + off
        /\ \A j \in 1..(Len(D) - k) : D[k + j] = c.win[j + off]
  BY <1>2 DEF Matches
<1>4. Len(ch) \in Nat
  BY ChronicleFacts
<1>. HIDE DEF D
<1>5. ASSUME NEW n \in 1..Len(D) PROVE ~Past(a, D[n].tick) /\ ~(Len(D) < n)
  <2>1. CASE n <= k
    <3>1. D[n].tick <= a.from /\ D[n] \in Changes /\ D[n].tick \in Nat
      <4>1. D[n] \in Changes
        BY <1>1
      <4>2. D[n].tick \in Nat
        BY <4>1 DEF Changes
      <4>. QED
        BY <1>2, <2>1, <4>1, <4>2 DEF Splits
    <3>2. a.to # Unbounded => ~(D[n].tick > a.to)
      BY <3>1 DEF WellAsked, Proper
    <3>. QED
      BY <1>1, <3>2 DEF Past
  <2>2. CASE ~(n <= k)
    <3>. DEFINE j == n - k
    <3>1. j \in 1..(Len(D) - k) /\ k + j = n /\ j + off \in 1..Len(c.win)
      BY <1>1, <1>3, <2>2
    <3>2. D[n] = c.win[j + off]
      BY <1>3, <3>1
    <3>. HIDE DEF j
    <3>3. PICK m \in 1..p : D[n] = Entry(ch[m]) /\ InWindow(ch, a, m)
      BY <3>1, <3>2 DEF WindowIs
    <3>4. m \in 1..Len(ch)
      BY <1>4
    <3>5. D[n].tick = ch[m].tick /\ ch[m].tick \in Nat
      BY <3>3, <3>4, ChronicleFacts
    <3>6. a.to # Unbounded => ~(D[n].tick > a.to)
      BY <3>3, <3>5 DEF InWindow, WellAsked
    <3>. QED
      BY <1>1, <3>6 DEF Past
  <2>. QED
    BY <2>1, <2>2
<1>6. Len(D) \in k..Len(D)
  BY <1>1
<1>7. Reached(a, s, D, c)
  BY <1>2, <1>5, <1>6 DEF Reached
<1>. QED
  BY <1>7 DEF D

(* A change past the right edge changes nothing of that.                   *)
LEMMA ReachedStays ==
  ASSUME NEW a, WellAsked(a), Proper(a), NEW s, NEW D \in Seq(Changes), NEW c,
         Reached(a, s, D, c), NEW e \in Recorded, Past(a, e.tick)
  PROVE  Reached(a, s, Extended(D, e, s), c)
<1>1. CASE Extended(D, e, s) = D
  BY <1>1
<1>2. CASE Extended(D, e, s) = Append(D, Entry(e))
  <2>. DEFINE E == Append(D, Entry(e))
  <2>0. PICK k \in 0..Len(D) : \E d \in k..Len(D) :
          /\ Splits(D, k, a.from)
          /\ \A n \in 1..Len(D) : d < n <=> Past(a, D[n].tick)
          /\ Matches(s, D, k, d, c)
    BY DEF Reached
  <2>1. PICK d \in k..Len(D) :
          /\ Splits(D, k, a.from)
          /\ \A n \in 1..Len(D) : d < n <=> Past(a, D[n].tick)
          /\ Matches(s, D, k, d, c)
    BY <2>0
  <2>2. /\ Entry(e) \in Changes /\ Entry(e).tick = e.tick /\ e.tick \in Nat
        /\ a.from \in Nat /\ a.to \in Nat /\ e.tick > a.to /\ a.from <= a.to
    BY DEF Entry, Changes, Recorded, WellAsked, Past, Proper
  <2>3. /\ Len(D) \in Nat /\ Len(E) = Len(D) + 1 /\ E[Len(D) + 1] = Entry(e)
        /\ \A n \in 1..Len(D) : E[n] = D[n]
    BY <2>2, Appended
  <2>. HIDE DEF E
  <2>4. k \in 0..Len(E) /\ d \in k..Len(E)
    BY <2>3
  <2>5. Splits(E, k, a.from)
    <3>1. ASSUME NEW n \in 1..Len(E) PROVE n <= k <=> E[n].tick <= a.from
      <4>1. CASE n \in 1..Len(D)
        BY <2>1, <2>3, <4>1 DEF Splits
      <4>2. CASE n = Len(D) + 1
        <5>1. ~(n <= k) /\ ~(E[n].tick <= a.from)
          BY <2>2, <2>3, <4>2
        <5>. QED
          BY <5>1
      <4>. QED
        BY <2>3, <4>1, <4>2
    <3>. QED
      BY <2>4, <3>1 DEF Splits
  <2>6. ASSUME NEW n \in 1..Len(E) PROVE d < n <=> Past(a, E[n].tick)
    <3>1. CASE n \in 1..Len(D)
      BY <2>1, <2>3, <3>1
    <3>2. CASE n = Len(D) + 1
      <4>1. d < n
        BY <2>3, <3>2
      <4>2. E[n].tick = e.tick
        BY <2>2, <2>3, <3>2
      <4>. QED
        BY <4>1, <4>2
    <3>. QED
      BY <2>3, <3>1, <3>2
  <2>7. Matches(s, E, k, d, c)
    <3>1. k > 0 => E[k] = D[k]
      BY <2>3
    <3>2. Redundant(s, E, k, c) <=> Redundant(s, D, k, c)
      BY <3>1 DEF Redundant
    <3>3. \A j \in 1..(d - k) : k + j \in 1..Len(D)
      BY <2>3
    <3>4. \A j \in 1..(d - k) : E[k + j] = D[k + j]
      BY <2>3, <3>3
    <3>5. PICK off \in {0, 1} :
            /\ off = 1 <=> Redundant(s, D, k, c)
            /\ Len(c.win) = d - k + off
            /\ \A j \in 1..(d - k) : D[k + j] = c.win[j + off]
      BY <2>1 DEF Matches
    <3>6. ~NeedsPhase2(c) => k > 0 /\ c.seed.val = E[k].val
      BY <2>1, <3>1 DEF Matches
    <3>7. \A j \in 1..(d - k) : E[k + j] = c.win[j + off]
      BY <3>4, <3>5
    <3>. QED
      BY <3>2, <3>5, <3>6, <3>7 DEF Matches
  <2>8. Reached(a, s, E, c)
    BY <2>4, <2>5, <2>6, <2>7 DEF Reached
  <2>. QED
    BY <1>2, <2>8 DEF E
<1>. QED
  BY <1>1, <1>2 DEF Extended

(* When phase 1 has delivered its last position, what a collector holds    *)
(* is measured by the whole of the full decode.                            *)
LEMMA LastCollects ==
  ASSUME NEW ch, Chronicle(ch), NEW a, WellAsked(a), NEW S, Selection(ch, a, S),
         NEW s \in a.slots, NEW c, NEW p \in 0..Len(ch), \A j \in S : ~(p < j),
         Collecting(ch, a, s, S, p, c)
  PROVE  /\ WindowIs(ch, a, s, Len(ch), c)
         /\ Proper(a) => Reached(a, s, Decoded(ch, s)[Len(ch)], c)
<1>. DEFINE n == Len(ch)
<1>1. n \in Nat /\ a.from \in Nat /\ \A q \in 1..n : ch[q].tick \in Nat
  BY ChronicleFacts DEF WellAsked
<1>2. c \in Collector /\ WindowIs(ch, a, s, p, c) /\ WindowIs(ch, a, s, n, c)
  <2>1. p \in Nat /\ p <= n
    BY <1>1
  <2>. QED
    BY <1>1, <2>1, WindowGrows DEF Collecting
<1>3. ASSUME Proper(a) PROVE Reached(a, s, Decoded(ch, s)[n], c)
  <2>. DEFINE Beyond(q) == q > 0 /\ a.from < ch[q].tick /\ Reached(a, s, Decoded(ch, s)[q], c)
              T == {q \in 0..n : p <= q => Collecting(ch, a, s, S, q, c) \/ Beyond(q)}
  <2>1. 0 \in T
    <3>1. p <= 0 => p = 0
      OBVIOUS
    <3>. QED
      BY <1>1, <3>1
  <2>2. ASSUME NEW q \in 1..n, q - 1 \in T, p <= q - 1
        PROVE  Collecting(ch, a, s, S, q, c) \/ Beyond(q)
    <3>1. /\ q \notin S /\ q - 1 \in 0..n /\ ch[q] \in Recorded /\ q \in 1..Len(ch)
          /\ Decoded(ch, s)[q] = Extended(Decoded(ch, s)[q - 1], ch[q], s)
          /\ Decoded(ch, s)[q - 1] \in Seq(Changes)
      <4>1. p < q /\ q - 1 \in 0..n
        BY <1>1, <2>2
      <4>. QED
        BY <4>1, ChronicleFacts, DecodeFacts, DecodeTold DEF Told
    <3>2. Collecting(ch, a, s, S, q - 1, c) \/ Beyond(q - 1)
      BY <2>2
    <3>3. CASE Collecting(ch, a, s, S, q - 1, c) /\ (ch[q].sid = s => ch[q].tick <= a.from)
      <4>1. Collecting(ch, a, s, S, q, c)
        BY <3>1, <3>3, SkipCollects
      <4>. QED
        BY <4>1
    <3>4. ASSUME Reached(a, s, Decoded(ch, s)[q - 1], c), a.from < ch[q].tick
          PROVE  Beyond(q)
      <4>1. CASE ch[q].sid = s
        <5>1. Past(a, ch[q].tick)
          <6>1. ch[q].tick > a.from
            BY <1>1, <3>4
          <6>. QED
            BY <1>3, <3>1, <4>1, <6>1 DEF Selection, Past
        <5>2. Reached(a, s, Decoded(ch, s)[q], c)
          BY <1>3, <3>1, <3>4, <5>1, ReachedStays
        <5>. QED
          BY <3>4, <5>2
      <4>2. CASE ch[q].sid # s
        <5>1. Decoded(ch, s)[q] = Decoded(ch, s)[q - 1]
          BY <3>1, <4>2 DEF Extended
        <5>. QED
          BY <3>4, <5>1
      <4>. QED
        BY <4>1, <4>2
    <3>5. CASE Beyond(q - 1)
      <4>1. q - 1 \in 1..n /\ q - 1 <= q
        BY <1>1, <3>5
      <4>2. ch[q - 1].tick <= ch[q].tick
        BY <3>1, <4>1 DEF Chronicle
      <4>3. a.from < ch[q].tick
        BY <1>1, <3>5, <4>1, <4>2
      <4>. QED
        BY <3>4, <3>5, <4>3
    <3>6. CASE Collecting(ch, a, s, S, q - 1, c) /\ ~(ch[q].sid = s => ch[q].tick <= a.from)
      <4>1. Follows(ch, a, s, q - 1, c) /\ WindowIs(ch, a, s, q - 1, c)
        BY <1>3, <3>6 DEF Collecting
      <4>2. Reached(a, s, Decoded(ch, s)[q - 1], c)
        BY <1>2, <1>3, <3>1, <4>1, FollowsReached
      <4>3. a.from < ch[q].tick
        BY <1>1, <3>6
      <4>. QED
        BY <3>4, <4>2, <4>3
    <3>. QED
      BY <3>2, <3>3, <3>5, <3>6
  <2>3. ASSUME NEW q \in 1..n, q - 1 \in T PROVE q \in T
    <3>1. CASE p <= q - 1
      BY <2>2, <2>3, <3>1
    <3>2. CASE ~(p <= q - 1)
      <4>1. p <= q => p = q
        BY <3>2
      <4>. QED
        BY <1>1, <4>1
    <3>. QED
      BY <3>1, <3>2
  <2>. HIDE DEF T
  <2>4. n \in T
    <3>1. \A q \in 0..n : q \in T
      BY <1>1, <2>1, <2>3, UpTo
    <3>. QED
      BY <1>1, <3>1
  <2>5. Collecting(ch, a, s, S, n, c) \/ Beyond(n)
    BY <1>1, <2>4 DEF T
  <2>6. CASE Collecting(ch, a, s, S, n, c)
    <3>1. Follows(ch, a, s, n, c) /\ n \in 0..Len(ch)
      BY <1>1, <1>3, <2>6 DEF Collecting
    <3>. QED
      BY <1>2, <1>3, <3>1, FollowsReached
  <2>. QED
    BY <2>5, <2>6
<1>. QED
  BY <1>2, <1>3

-----------------------------------------------------------------------------

(***************************************************************************)
(* Traces that agree inside a window.                                      *)
(***************************************************************************)

(* T has what F has inside the window, and in place of F's beginning one   *)
(* entry with its last value there.                                        *)
Shortens(a, F, T) ==
  \E k \in 0..Len(F) : \E d \in k..Len(F) : \E b \in {0, 1} :
    /\ Splits(F, k, a.from)
    /\ \A n \in 1..Len(F) : d < n <=> Past(a, F[n].tick)
    /\ b = 1 <=> k > 0
    /\ Len(T) = b + (d - k)
    /\ b = 1 => T[1].tick <= a.from /\ T[1].val = F[k].val
    /\ \A j \in 1..(d - k) : T[b + j] = F[k + j]

ShortensBy(a, F, T, k, d, b) ==
  /\ k \in Nat /\ d \in Nat /\ b \in {0, 1}
  /\ k <= d /\ d <= Len(F) /\ Len(F) \in Nat
  /\ \A n \in 1..Len(F) : n <= k <=> F[n].tick <= a.from
  /\ \A n \in 1..Len(F) : d < n <=> Past(a, F[n].tick)
  /\ b = 1 <=> k > 0
  /\ Len(T) = b + (d - k)
  /\ b = 1 => T[1].tick <= a.from /\ T[1].val = F[k].val
  /\ \A j \in 1..(d - k) : T[b + j] = F[k + j]

LEMMA ShortensParts ==
  ASSUME NEW a, NEW F \in Seq(Changes), NEW T
  PROVE  Shortens(a, F, T) <=> \E k, d, b : ShortensBy(a, F, T, k, d, b)
<1>1. Len(F) \in Nat
  OBVIOUS
<1>2. \A k, d, b : (k \in 0..Len(F) /\ d \in k..Len(F) /\ b \in {0, 1}
                   <=> k \in Nat /\ d \in Nat /\ b \in {0, 1} /\ k <= d /\ d <= Len(F))
  BY <1>1
<1>3. ASSUME NEW k, NEW d, NEW b, ShortensBy(a, F, T, k, d, b) PROVE Shortens(a, F, T)
  <2>1. /\ k \in 0..Len(F) /\ d \in k..Len(F) /\ b \in {0, 1}
        /\ Splits(F, k, a.from)
        /\ \A n \in 1..Len(F) : d < n <=> Past(a, F[n].tick)
        /\ b = 1 <=> k > 0
        /\ Len(T) = b + (d - k)
        /\ b = 1 => T[1].tick <= a.from /\ T[1].val = F[k].val
        /\ \A j \in 1..(d - k) : T[b + j] = F[k + j]
    BY <1>2, <1>3, Zenon DEF ShortensBy, Splits
  <2>. QED
    BY <2>1 DEF Shortens
<1>4. ASSUME Shortens(a, F, T) PROVE \E k, d, b : ShortensBy(a, F, T, k, d, b)
  <2>1. PICK k \in 0..Len(F) : \E d \in k..Len(F) : \E b \in {0, 1} :
          /\ Splits(F, k, a.from)
          /\ \A n \in 1..Len(F) : d < n <=> Past(a, F[n].tick)
          /\ b = 1 <=> k > 0
          /\ Len(T) = b + (d - k)
          /\ b = 1 => T[1].tick <= a.from /\ T[1].val = F[k].val
          /\ \A j \in 1..(d - k) : T[b + j] = F[k + j]
    BY <1>4 DEF Shortens
  <2>2. PICK d \in k..Len(F) : \E b \in {0, 1} :
          /\ Splits(F, k, a.from)
          /\ \A n \in 1..Len(F) : d < n <=> Past(a, F[n].tick)
          /\ b = 1 <=> k > 0
          /\ Len(T) = b + (d - k)
          /\ b = 1 => T[1].tick <= a.from /\ T[1].val = F[k].val
          /\ \A j \in 1..(d - k) : T[b + j] = F[k + j]
    BY <2>1
  <2>3. PICK b \in {0, 1} : ShortensBy(a, F, T, k, d, b)
    BY <1>1, <1>2, <2>2, Zenon DEF ShortensBy, Splits
  <2>. QED
    BY <2>3
<1>. QED
  BY <1>3, <1>4

LEMMA LastIs ==
  ASSUME NEW S \in SUBSET Nat, NEW m \in S, \A j \in S : j <= m
  PROVE  LastOf(S) = m
<1>1. LastOf(S) \in S /\ \A j \in S : j <= LastOf(S)
  BY DEF LastOf
<1>2. LastOf(S) \in Nat /\ m \in Nat
  BY <1>1
<1>. QED
  BY <1>1, <1>2

LEMMA FirstIs ==
  ASSUME NEW S \in SUBSET Nat, NEW m \in S, \A j \in S : m <= j
  PROVE  First(S) = m
<1>1. First(S) \in S /\ \A j \in S : First(S) <= j
  BY DEF First
<1>2. First(S) \in Nat /\ m \in Nat
  BY <1>1
<1>. QED
  BY <1>1, <1>2

(* Such traces give the same value at every tick of the window.            *)
LEMMA ShortensTells ==
  ASSUME NEW a, WellAsked(a), NEW F \in Seq(Changes), NEW T \in Seq(Changes),
         Shortens(a, F, T), NEW t \in Nat, a.from <= t, a.to # Unbounded => t <= a.to
  PROVE  ValueIn(T, t) = ValueIn(F, t)
<1>. DEFINE U == {i \in 1..Len(F) : F[i].tick <= t}
            V == {i \in 1..Len(T) : T[i].tick <= t}
<1>0. PICK k, d, b : ShortensBy(a, F, T, k, d, b)
  BY ShortensParts
<1>1. /\ k \in Nat /\ d \in Nat /\ b \in {0, 1}
      /\ k <= d /\ d <= Len(F) /\ Len(F) \in Nat
      /\ \A n \in 1..Len(F) : n <= k <=> F[n].tick <= a.from
      /\ \A n \in 1..Len(F) : d < n <=> Past(a, F[n].tick)
      /\ b = 1 <=> k > 0
      /\ Len(T) = b + (d - k)
      /\ b = 1 => T[1].tick <= a.from /\ T[1].val = F[k].val
      /\ \A j \in 1..(d - k) : T[b + j] = F[k + j]
  BY <1>0 DEF ShortensBy
<1>2. /\ a.from \in Nat
      /\ \A n \in 1..Len(F) : F[n].tick \in Nat
      /\ \A n \in 1..Len(T) : T[n].tick \in Nat
  <2>1. \A e \in Changes : e.tick \in Nat
    BY DEF Changes
  <2>2. (\A n \in 1..Len(F) : F[n] \in Changes) /\ (\A n \in 1..Len(T) : T[n] \in Changes)
    OBVIOUS
  <2>. QED
    BY <2>1, <2>2 DEF WellAsked
<1>3. DOMAIN F = 1..Len(F) /\ DOMAIN T = 1..Len(T)
  OBVIOUS
<1>4. U \in SUBSET (1..Len(F)) /\ U \in SUBSET Nat /\ V \in SUBSET Nat
  OBVIOUS
<1>5. /\ ValueIn(F, t) = IF U = {} THEN None ELSE F[LastOf(U)].val
      /\ ValueIn(T, t) = IF V = {} THEN None ELSE T[LastOf(V)].val
  BY <1>3 DEF ValueIn
<1>6. \A n \in 1..k : n \in U
  BY <1>1, <1>2
<1>7. \A n \in U : n <= d
  <2>1. ASSUME NEW n \in U, d < n PROVE FALSE
    <3>1. a.to # Unbounded /\ F[n].tick > a.to
      BY <1>1, <2>1 DEF Past
    <3>2. a.to \in Nat /\ F[n].tick <= t /\ t <= a.to
      BY <3>1 DEF WellAsked
    <3>. QED
      BY <1>2, <3>1, <3>2
  <2>. QED
    BY <1>1, <2>1
(* An entry of T past its first is one of F past its first k.              *)
<1>8. ASSUME NEW i \in V, b < i
      PROVE  k + (i - b) \in U
  <2>. DEFINE j == i - b
  <2>1. j \in 1..(d - k) /\ b + j = i /\ k + j \in 1..Len(F)
    BY <1>1, <1>8
  <2>2. T[i] = F[k + j]
    BY <1>1, <2>1
  <2>3. T[i].tick <= t
    OBVIOUS
  <2>. QED
    BY <2>1, <2>2, <2>3
<1>9. CASE \E n \in U : k < n
  <2>1. PICK m \in U : \A i \in U : i <= m
    <3>1. U # {} /\ Len(F) \in Nat
      BY <1>1, <1>9
    <3>. HIDE DEF U
    <3>. QED
      BY <1>4, <3>1, LastExists
  <2>. DEFINE j == m - k
              v == b + j
  <2>2. m \in Nat /\ k < m /\ m <= d
    BY <1>1, <1>4, <1>7, <1>9, <2>1
  <2>3. j \in 1..(d - k) /\ k + j = m /\ v \in 1..Len(T) /\ v \in Nat
    BY <1>1, <2>2
  <2>4. T[v] = F[m]
    BY <1>1, <2>3
  <2>5. v \in V
    BY <2>3, <2>4
  <2>6. ASSUME NEW i \in V PROVE i <= v
    <3>1. CASE b < i
      <4>1. k + (i - b) <= m
        BY <1>8, <2>1, <3>1
      <4>. QED
        BY <1>1, <1>4, <2>2, <3>1, <4>1
    <3>2. CASE ~(b < i)
      BY <1>1, <1>4, <2>3, <3>2
    <3>. QED
      BY <3>1, <3>2
  <2>. HIDE DEF U, V, v, j
  <2>7. LastOf(U) = m /\ LastOf(V) = v
    BY <1>4, <2>1, <2>5, <2>6, LastIs
  <2>. QED
    BY <1>5, <2>1, <2>4, <2>5, <2>7
<1>10. CASE \A n \in U : n <= k
  <2>1. \A i \in V : i <= b
    <3>1. ASSUME NEW i \in V, b < i PROVE FALSE
      <4>1. k + (i - b) <= k
        BY <1>8, <1>10, <3>1
      <4>. QED
        BY <1>1, <1>4, <3>1, <4>1
    <3>. QED
      BY <1>1, <1>4, <3>1
  <2>2. CASE k = 0
    <3>1. b = 0
      BY <1>1, <2>2
    <3>2. U = {} /\ V = {}
      BY <1>10, <2>1, <2>2, <3>1
    <3>. QED
      BY <1>5, <3>2
  <2>3. CASE k > 0
    <3>1. b = 1 /\ k \in U /\ k \in 1..Len(F)
      BY <1>1, <1>6, <2>3
    <3>2. 1 \in 1..Len(T) /\ T[1].tick <= a.from /\ T[1].val = F[k].val
      BY <1>1, <3>1
    <3>3. 1 \in V
      <4>1. T[1].tick <= t
        BY <1>2, <3>2
      <4>. QED
        BY <3>2, <4>1
    <3>. HIDE DEF U, V
    <3>4. LastOf(U) = k
      BY <1>4, <1>10, <3>1, LastIs
    <3>5. LastOf(V) = 1
      BY <1>4, <2>1, <3>1, <3>3, LastIs
    <3>. QED
      BY <1>5, <3>1, <3>2, <3>3, <3>4, <3>5
  <2>. QED
    BY <1>1, <2>2, <2>3
<1>11. (\E n \in U : k < n) \/ (\A n \in U : n <= k)
  BY <1>1, <1>4
<1>. QED
  BY <1>9, <1>10, <1>11

(* The w elements after the first k.                                       *)
LEMMA Slice ==
  ASSUME NEW X, NEW k \in Nat, NEW w \in Nat, NEW m, m = k + 1, NEW n, n = k + w,
         \A i \in m..n : X[i] \in Changes
  PROVE  /\ SubSeq(X, m, n) \in Seq(Changes) /\ Len(SubSeq(X, m, n)) = w
         /\ \A j \in 1..w : SubSeq(X, m, n)[j] = X[k + j]
<1>1. m \in Int /\ n \in Int
  OBVIOUS
<1>2. /\ SubSeq(X, m, n) \in Seq(Changes)
      /\ Len(SubSeq(X, m, n)) = IF m <= n THEN n - m + 1 ELSE 0
      /\ \A i \in 1 .. n - m + 1 : SubSeq(X, m, n)[i] = X[m + i - 1]
  BY <1>1, SubSeqProperties
<1>3. n - m + 1 = w /\ (IF m <= n THEN n - m + 1 ELSE 0) = w /\ \A j \in 1..w : m + j - 1 = k + j
  OBVIOUS
<1>. QED
  BY <1>2, <1>3

(* Such traces list the same changes past the left edge.                   *)
LEMMA ShortensLists ==
  ASSUME WellAsked(ask), NEW F \in Seq(Changes), NEW T \in Seq(Changes),
         Shortens(ask, F, T),
         \A n \in 1..Len(F) : F[n].tick <= Upper <=> ~Past(ask, F[n].tick)
  PROVE  Inside(T) = Inside(F)
<1>0. PICK k, d, b : ShortensBy(ask, F, T, k, d, b)
  BY ShortensParts
<1>1. /\ k \in Nat /\ d \in Nat /\ b \in {0, 1}
      /\ k <= d /\ d <= Len(F) /\ Len(F) \in Nat
      /\ \A n \in 1..Len(F) : n <= k <=> F[n].tick <= ask.from
      /\ \A n \in 1..Len(F) : d < n <=> Past(ask, F[n].tick)
      /\ b = 1 <=> k > 0
      /\ Len(T) = b + (d - k)
      /\ b = 1 => T[1].tick <= ask.from /\ T[1].val = F[k].val
      /\ \A j \in 1..(d - k) : T[b + j] = F[k + j]
  BY <1>0 DEF ShortensBy
<1>2. /\ ask.from \in Nat
      /\ \A n \in 1..Len(F) : F[n] \in Changes /\ F[n].tick \in Nat
      /\ \A n \in 1..Len(T) : T[n] \in Changes /\ T[n].tick \in Nat
  <2>1. \A e \in Changes : e.tick \in Nat
    BY DEF Changes
  <2>2. (\A n \in 1..Len(F) : F[n] \in Changes) /\ (\A n \in 1..Len(T) : T[n] \in Changes)
    OBVIOUS
  <2>. QED
    BY <2>1, <2>2 DEF WellAsked
<1>. DEFINE In(X) == {i \in DOMAIN X : ask.from < X[i].tick /\ X[i].tick <= Upper}
<1>3. DOMAIN F = 1..Len(F) /\ DOMAIN T = 1..Len(T)
  OBVIOUS
<1>4. In(F) = (k + 1)..d
  <2>1. ASSUME NEW n \in 1..Len(F)
        PROVE  (ask.from < F[n].tick /\ F[n].tick <= Upper) <=> (k < n /\ n <= d)
    <3>1. ask.from < F[n].tick <=> k < n
      BY <1>1, <1>2
    <3>2. F[n].tick <= Upper <=> n <= d
      BY <1>1
    <3>. QED
      BY <3>1, <3>2
  <2>2. \A n \in (k + 1)..d : n \in 1..Len(F) /\ k < n /\ n <= d
    BY <1>1
  <2>3. \A n \in 1..Len(F) : k < n /\ n <= d => n \in (k + 1)..d
    BY <1>1
  <2>. QED
    BY <1>3, <2>1, <2>2, <2>3
<1>5. In(T) = (b + 1)..(b + (d - k))
  <2>1. ASSUME NEW n \in 1..Len(T)
        PROVE  (ask.from < T[n].tick /\ T[n].tick <= Upper) <=> b < n
    <3>1. CASE b < n
      <4>. DEFINE j == n - b
      <4>1. j \in 1..(d - k) /\ b + j = n /\ k + j \in 1..Len(F) /\ k < k + j /\ k + j <= d
        BY <1>1, <3>1
      <4>2. T[n] = F[k + j]
        BY <1>1, <4>1
      <4>3. k + j \in (k + 1)..d
        BY <1>1, <4>1
      <4>. HIDE DEF j
      <4>. QED
        BY <1>3, <1>4, <3>1, <4>2, <4>3
    <3>2. CASE ~(b < n)
      <4>1. n = 1 /\ b = 1
        BY <1>1, <3>2
      <4>2. ~(ask.from < T[n].tick)
        BY <1>1, <1>2, <4>1
      <4>. QED
        BY <3>2, <4>2
    <3>. QED
      BY <3>1, <3>2
  <2>2. \A n \in (b + 1)..(b + (d - k)) : n \in 1..Len(T) /\ b < n
    BY <1>1
  <2>3. \A n \in 1..Len(T) : b < n => n \in (b + 1)..(b + (d - k))
    BY <1>1
  <2>. QED
    BY <1>3, <2>1, <2>2, <2>3
<1>6. /\ Inside(F) = IF In(F) = {} THEN << >> ELSE SubSeq(F, First(In(F)), LastOf(In(F)))
      /\ Inside(T) = IF In(T) = {} THEN << >> ELSE SubSeq(T, First(In(T)), LastOf(In(T)))
  BY DEF Inside
<1>. HIDE DEF In
<1>7. CASE k = d
  <2>1. In(F) = {} /\ In(T) = {}
    BY <1>1, <1>4, <1>5, <1>7
  <2>. QED
    BY <1>6, <2>1
<1>8. CASE k # d
  <2>. DEFINE w == d - k
              x == SubSeq(F, k + 1, d)
              y == SubSeq(T, b + 1, b + w)
  <2>1. /\ w \in Nat /\ w > 0 /\ k + 1 \in In(F) /\ d \in In(F) /\ b + 1 \in In(T) /\ b + w \in In(T)
        /\ In(F) \in SUBSET Nat /\ In(T) \in SUBSET Nat
        /\ \A i \in In(F) : k + 1 <= i /\ i <= d
        /\ \A i \in In(T) : b + 1 <= i /\ i <= b + w
    BY <1>1, <1>4, <1>5, <1>8
  <2>. HIDE DEF w
  <2>2. /\ First(In(F)) = k + 1 /\ LastOf(In(F)) = d
        /\ First(In(T)) = b + 1 /\ LastOf(In(T)) = b + w
    BY <2>1, FirstIs, LastIs
  <2>3. /\ \A i \in (k + 1)..d : F[i] \in Changes
        /\ \A i \in (b + 1)..(b + w) : T[i] \in Changes
        /\ k + 1 \in Int /\ d \in Int /\ b + 1 \in Int /\ b + w \in Int
    BY <1>1, <1>2 DEF w
  <2>4. /\ x \in Seq(Changes) /\ Len(x) = w
        /\ \A j \in 1..w : x[j] = F[k + j]
    <3>1. k + w = d /\ k \in Nat
      BY <1>1 DEF w
    <3>. QED
      BY <2>1, <2>3, <3>1, Slice
  <2>5. /\ y \in Seq(Changes) /\ Len(y) = w
        /\ \A j \in 1..w : y[j] = T[b + j]
    <3>1. b \in Nat
      BY <1>1
    <3>. QED
      BY <2>1, <2>3, <3>1, Slice
  <2>6. \A j \in 1..w : x[j] = y[j]
    <3>1. \A j \in 1..w : T[b + j] = F[k + j]
      BY <1>1 DEF w
    <3>. HIDE DEF x, y
    <3>. QED
      BY <2>4, <2>5, <3>1
  <2>7. x = y
    <3>. HIDE DEF x, y
    <3>. QED
      BY <2>4, <2>5, <2>6, SeqEqual
  <2>. QED
    BY <1>6, <2>1, <2>2, <2>7
<1>. QED
  BY <1>7, <1>8

-----------------------------------------------------------------------------

(***************************************************************************)
(* Phase 2 and the assembly of the traces.                                 *)
(***************************************************************************)

(* The seed phase 2 has found among the first p positions.                 *)
SeedIs(ch, s, t, p, seed) ==
  \/ seed = None /\ \A m \in 1..p : ~Before(ch, s, t, m)
  \/ \E j \in 1..p :
       /\ Before(ch, s, t, j) /\ seed = Entry(ch[j])
       /\ \A m \in 1..p : Before(ch, s, t, m) => m <= j

Reseeding(ch, a, s, p, c) ==
  /\ c \in Collector
  /\ c.demoted <=> NeedsPhase2(c)
  /\ ~c.demoted => c.seed2 = None
  /\ c.demoted => SeedIs(ch, s, a.from, p, c.seed2)
  /\ WindowIs(ch, a, s, Len(ch), c)
  /\ Proper(a) => Reached(a, s, Decoded(ch, s)[Len(ch)], c)

(* A seed of the whole file has the value the full decode has at the edge. *)
LEMMA SeedTells ==
  ASSUME NEW ch, Chronicle(ch), NEW s, NEW t \in Nat, NEW seed, SeedIs(ch, s, t, Len(ch), seed),
         NEW k, Splits(Decoded(ch, s)[Len(ch)], k, t)
  PROVE  /\ seed = None <=> k = 0
         /\ seed # None => /\ k > 0 /\ seed \in Changes /\ seed.tick <= t
                           /\ seed.val = Decoded(ch, s)[Len(ch)][k].val
<1>. DEFINE n == Len(ch)
            F == Decoded(ch, s)[n]
<1>1. n \in Nat /\ n \in 0..Len(ch)
  BY ChronicleFacts
<1>2. k \in 0..Len(F) /\ Len(F) \in Nat /\ k \in Nat
  <2>1. F \in Seq(Changes)
    BY <1>1, DecodeTold DEF Told
  <2>2. k \in 0..Len(F)
    BY DEF Splits
  <2>. HIDE DEF F
  <2>. QED
    BY <2>1, <2>2
<1>3. \/ k = 0 /\ \A m \in 1..n : ~Before(ch, s, t, m)
      \/ /\ k > 0
         /\ \E j \in 1..n : /\ Before(ch, s, t, j)
                            /\ \A m \in 1..n : Before(ch, s, t, m) => m <= j
                            /\ ch[j].val = F[k].val
  <2>1. SeedTold(ch, s, n, t)
    BY <1>1, DecodeSeeds
  <2>. QED
    BY <1>2, <2>1 DEF SeedTold
<1>. HIDE DEF F
<1>4. CASE seed = None /\ \A m \in 1..n : ~Before(ch, s, t, m)
  BY <1>3, <1>4
<1>5. CASE \E j \in 1..n :
             /\ Before(ch, s, t, j) /\ seed = Entry(ch[j])
             /\ \A m \in 1..n : Before(ch, s, t, m) => m <= j
  <2>1. PICK j \in 1..n :
             /\ Before(ch, s, t, j) /\ seed = Entry(ch[j])
             /\ \A m \in 1..n : Before(ch, s, t, m) => m <= j
    BY <1>5
  <2>2. seed \in Changes /\ seed.tick = ch[j].tick /\ seed.val = ch[j].val /\ seed # None
    BY <2>1, ChronicleFacts, NoneAssumption
  <2>3. k > 0
    BY <1>3, <2>1
  <2>4. PICK i \in 1..n : /\ Before(ch, s, t, i)
                          /\ \A m \in 1..n : Before(ch, s, t, m) => m <= i
                          /\ ch[i].val = F[k].val
    BY <1>3, <2>3
  <2>5. i = j
    BY <1>1, <2>1, <2>4
  <2>6. seed.tick <= t
    BY <2>1, <2>2 DEF Before
  <2>. QED
    BY <1>2, <2>2, <2>3, <2>4, <2>5, <2>6 DEF F
<1>. QED
  BY <1>4, <1>5 DEF SeedIs

(* Finish puts the seed where the full decode has its beginning, and drops *)
(* the window's first entry just if it repeats that seed.                  *)
LEMMA FinishShortens ==
  ASSUME NEW ch, Chronicle(ch), WellAsked(ask), NEW s,
         Reseeding(ch, ask, s, Len(ch), col[s])
  PROVE  /\ Finish(s) \in Seq(Changes)
         /\ Proper(ask) => Shortens(ask, Decoded(ch, s)[Len(ch)], Finish(s))
<1>. DEFINE c == col[s]
            w == c.win
            F == Decoded(ch, s)[Len(ch)]
            seed == IF c.demoted THEN c.seed2 ELSE c.seed
            head == IF seed = None THEN << >> ELSE <<seed>>
            redundant == /\ c.demoted /\ s \notin EventSid
                         /\ seed # None /\ w # << >> /\ Head(w).val = seed.val
            rest == IF redundant THEN Tail(w) ELSE w
<1>1. Finish(s) = head \o rest
  BY DEF Finish
<1>2. /\ c \in Collector /\ (c.demoted <=> NeedsPhase2(c)) /\ c.demoted \in BOOLEAN
      /\ w \in Seq(Changes) /\ Len(w) \in Nat
      /\ c.seed \in Changes \cup {None} /\ c.seed2 \in Changes \cup {None}
      /\ WindowIs(ch, ask, s, Len(ch), c)
  BY CollectorFacts DEF Reseeding
<1>3. /\ seed \in Changes \cup {None}
      /\ head \in Seq(Changes)
      /\ seed = None => Len(head) = 0
      /\ seed # None => Len(head) = 1 /\ head[1] = seed
  BY <1>2
<1>4. w # << >> => /\ Tail(w) \in Seq(Changes) /\ Len(Tail(w)) = Len(w) - 1
                  /\ \A j \in 1..(Len(w) - 1) : Tail(w)[j] = w[j + 1]
                  /\ Head(w) = w[1]
  BY <1>2, HeadTailProperties
<1>5. rest \in Seq(Changes)
  BY <1>2, <1>4
<1>6. /\ head \o rest \in Seq(Changes)
      /\ Len(head \o rest) = Len(head) + Len(rest)
      /\ \A i \in 1 .. Len(head) + Len(rest) :
           (head \o rest)[i] = IF i <= Len(head) THEN head[i] ELSE rest[i - Len(head)]
  <2>. HIDE DEF head, rest
  <2>. QED
    BY <1>3, <1>5, ConcatProperties
<1>7. ASSUME Proper(ask) PROVE Shortens(ask, F, head \o rest)
  <2>1. Reached(ask, s, F, c)
    BY <1>7 DEF Reseeding
  <2>. HIDE DEF F
  <2>2. PICK k \in 0..Len(F) : \E d \in k..Len(F) :
          /\ Splits(F, k, ask.from)
          /\ \A n \in 1..Len(F) : d < n <=> Past(ask, F[n].tick)
          /\ Matches(s, F, k, d, c)
    BY <2>1 DEF Reached
  <2>3. PICK d \in k..Len(F) :
          /\ Splits(F, k, ask.from)
          /\ \A n \in 1..Len(F) : d < n <=> Past(ask, F[n].tick)
          /\ Matches(s, F, k, d, c)
    BY <2>2
  <2>4. PICK off \in {0, 1} :
          /\ off = 1 <=> Redundant(s, F, k, c)
          /\ Len(w) = d - k + off
          /\ \A j \in 1..(d - k) : F[k + j] = w[j + off]
    BY <2>3 DEF Matches
  <2>5. k \in Nat /\ d \in Nat /\ k <= d
    OBVIOUS
  <2>6. /\ seed = None <=> k = 0
        /\ seed # None => /\ k > 0 /\ seed.tick <= ask.from /\ seed.val = F[k].val
    <3>1. CASE c.demoted
      <4>1. SeedIs(ch, s, ask.from, Len(ch), c.seed2) /\ seed = c.seed2
        BY <3>1 DEF Reseeding
      <4>2. ask.from \in Nat
        BY DEF WellAsked
      <4>. HIDE DEF seed
      <4>. QED
        BY <2>3, <4>1, <4>2, SeedTells DEF F
    <3>2. CASE ~c.demoted
      <4>1. seed = c.seed /\ seed # None /\ k > 0 /\ c.seed.val = F[k].val
        BY <1>2, <2>3, <3>2 DEF Matches, NeedsPhase2
      <4>2. c.seed # None => c.seed.tick <= ask.from
        BY <1>2 DEF WindowIs
      <4>. QED
        BY <2>5, <4>1, <4>2
    <3>. QED
      BY <3>1, <3>2
  <2>7. redundant <=> off = 1
    <3>1. w # << >> => Head(w) = w[1]
      BY <1>4
    <3>2. k > 0 <=> seed # None
      BY <2>5, <2>6
    <3>. HIDE DEF seed
    <3>. QED
      BY <1>2, <2>4, <2>6, <3>1, <3>2 DEF Redundant
  <2>8. Len(rest) = d - k /\ \A j \in 1..(d - k) : rest[j] = F[k + j]
    <3>1. CASE redundant
      <4>1. off = 1 /\ w # << >> /\ rest = Tail(w) /\ Len(w) = d - k + 1
        BY <2>4, <2>7, <3>1
      <4>2. Len(w) - 1 = d - k
        BY <2>5, <4>1
      <4>3. Len(Tail(w)) = d - k /\ \A j \in 1..(d - k) : Tail(w)[j] = w[j + 1]
        BY <1>4, <4>1, <4>2
      <4>4. \A j \in 1..(d - k) : F[k + j] = w[j + 1]
        BY <2>4, <4>1
      <4>. QED
        BY <4>1, <4>3, <4>4
    <3>2. CASE ~redundant
      <4>1. off = 0 /\ rest = w
        BY <2>4, <2>7, <3>2
      <4>2. \A j \in 1..(d - k) : j + off = j
        BY <4>1
      <4>3. d - k + off = d - k
        BY <2>5, <4>1
      <4>. QED
        BY <2>4, <4>1, <4>2, <4>3
    <3>. QED
      BY <3>1, <3>2
  <2>. DEFINE b == Len(head)
              T == head \o rest
  <2>9. b \in {0, 1} /\ (b = 1 <=> k > 0) /\ (b = 1 => head[1] = seed /\ seed # None)
    BY <1>3, <2>5, <2>6
  <2>. HIDE DEF seed, head, rest, redundant
  <2>10. Len(T) = b + (d - k)
    BY <1>6, <2>8
  <2>11. b = 1 => T[1].tick <= ask.from /\ T[1].val = F[k].val
    <3>1. b = 1 => 1 \in 1 .. Len(head) + Len(rest) /\ T[1] = head[1]
      <4>1. Len(rest) \in Nat
        BY <1>5
      <4>. QED
        BY <1>6, <4>1
    <3>. QED
      BY <2>6, <2>9, <3>1
  <2>12. ASSUME NEW j \in 1..(d - k) PROVE T[b + j] = F[k + j]
    <3>1. /\ b + j \in 1 .. Len(head) + Len(rest) /\ ~(b + j <= Len(head)) /\ b + j - Len(head) = j
      BY <2>5, <2>8, <2>9
    <3>2. T[b + j] = rest[b + j - Len(head)]
      BY <1>6, <3>1
    <3>. QED
      BY <2>8, <3>1, <3>2
  <2>13. ShortensBy(ask, F, T, k, d, b)
    <3>1. F \in Seq(Changes) /\ Len(F) \in Nat
      <4>1. Len(ch) \in 0..Len(ch)
        BY ChronicleFacts
      <4>. QED
        BY <4>1, DecodeTold DEF Told, F
    <3>2. d <= Len(F)
      BY <3>1
    <3>. HIDE DEF b, T
    <3>. QED
      BY <2>3, <2>5, <2>9, <2>10, <2>11, <2>12, <3>1, <3>2 DEF ShortensBy, Splits
  <2>14. F \in Seq(Changes)
    <3>1. Len(ch) \in 0..Len(ch)
      BY ChronicleFacts
    <3>. QED
      BY <3>1, DecodeTold DEF Told, F
  <2>. HIDE DEF b, T
  <2>15. Shortens(ask, F, T)
    BY <2>13, <2>14, ShortensParts
  <2>. QED
    BY <2>15 DEF T
<1>. QED
  BY <1>1, <1>6, <1>7

-----------------------------------------------------------------------------

(***************************************************************************)
(* What the reader emits.                                                  *)
(***************************************************************************)
Open == file \in Files /\ file.changes # << >> /\ ask \in Requests

LEMMA FileFacts ==
  ASSUME Open, NEW ch, ch = file.changes
  PROVE  /\ Chronicle(ch) /\ WellAsked(ask)
         /\ Len(ch) \in Nat /\ 1 \in 1..Len(ch) /\ Len(ch) \in 1..Len(ch) /\ DOMAIN ch = 1..Len(ch)
         /\ DOMAIN file.sections = 1..Len(file.sections) /\ Len(file.sections) \in Nat
         /\ file_end = ch[Len(ch)].tick /\ file_end \in Nat
         /\ \A i \in 1..Len(ch) : ch[i].tick \in Nat /\ ch[i].tick <= file_end
         /\ \A i, j \in 1..Len(ch) : i <= j => ch[i].tick <= ch[j].tick
<1>1. /\ ch \in Seq(Recorded) /\ file.sections \in Seq(Section)
      /\ \A i, j \in DOMAIN ch : i <= j => ch[i].tick <= ch[j].tick
  BY FilesAssumption DEF Open
<1>2. DOMAIN ch = 1..Len(ch) /\ Len(ch) \in Nat
      /\ DOMAIN file.sections = 1..Len(file.sections) /\ Len(file.sections) \in Nat
  BY <1>1
<1>3. Len(ch) > 0
  BY <1>1, EmptySeq DEF Open
<1>4. Chronicle(ch)
  BY <1>1, <1>2 DEF Chronicle
<1>5. WellAsked(ask)
  BY RequestsAssumption DEF Open, WellAsked
<1>6. 1 \in 1..Len(ch) /\ Len(ch) \in 1..Len(ch)
  BY <1>2, <1>3
<1>7. \A i \in 1..Len(ch) : ch[i].tick \in Nat /\ ch[i].tick <= ch[Len(ch)].tick
  <2>1. \A i \in 1..Len(ch) : i <= Len(ch)
    BY <1>2
  <2>. QED
    BY <1>4, <1>6, <2>1, ChronicleFacts DEF Chronicle
<1>8. file_end = ch[Len(ch)].tick
  BY DEF file_end
<1>. QED
  BY <1>2, <1>4, <1>5, <1>6, <1>7, <1>8 DEF Chronicle

(* Section k of the file, and where a section's changes lie.               *)
Starts(k) == file.sections[k].start
FirstOf(k) == file.sections[k].first
LastIn(k) == file.sections[k].last

LEMMA SectionFacts ==
  ASSUME Open, NEW ch, ch = file.changes
  PROVE  /\ \A i \in 1..Len(ch) : \E k \in 1..Len(file.sections) :
              FirstOf(k) <= i /\ i <= LastIn(k)
         /\ \A k \in 1..Len(file.sections) :
              /\ FirstOf(k) \in 1..Len(ch) /\ LastIn(k) \in 1..Len(ch) /\ FirstOf(k) <= LastIn(k)
              /\ Starts(k) \in Nat /\ Starts(k) <= ch[FirstOf(k)].tick
              /\ \A j \in 1..Len(file.sections) : j < k =>
                   LastIn(j) < FirstOf(k) /\ ch[LastIn(j)].tick < Starts(k)
         /\ 1 \in 1..Len(file.sections) /\ Starts(1) = ch[1].tick /\ FirstOf(1) = 1
<1>. DEFINE n == Len(file.sections)
<1>1. /\ Len(ch) \in Nat /\ 1 \in 1..Len(ch) /\ DOMAIN ch = 1..Len(ch)
      /\ DOMAIN file.sections = 1..n /\ n \in Nat
  BY FileFacts
<1>2. /\ \A i \in 1..Len(ch) : \E k \in 1..n : i \in FirstOf(k)..LastIn(k)
      /\ \A k \in 1..n :
           /\ FirstOf(k) \in 1..LastIn(k) /\ LastIn(k) \in 1..Len(ch)
           /\ Starts(k) <= ch[FirstOf(k)].tick
           /\ \A j \in 1..(k - 1) : LastIn(j) < FirstOf(k) /\ ch[LastIn(j)].tick < Starts(k)
      /\ file.sections # << >> => Starts(1) = ch[1].tick
      /\ file.sections \in Seq(Section)
  BY <1>1, FilesAssumption DEF Open, FirstOf, LastIn, Starts
<1>3. \A k \in 1..n : /\ FirstOf(k) \in Nat /\ LastIn(k) \in Nat /\ Starts(k) \in Nat
  <2>1. \A k \in 1..n : file.sections[k] \in Section
    BY <1>2
  <2>. QED
    BY <2>1 DEF Section, FirstOf, LastIn, Starts
<1>4. ASSUME NEW k \in 1..n
      PROVE  /\ FirstOf(k) \in 1..Len(ch) /\ FirstOf(k) <= LastIn(k)
             /\ \A j \in 1..n : j < k => LastIn(j) < FirstOf(k) /\ ch[LastIn(j)].tick < Starts(k)
  <2>1. \A j \in 1..n : j < k => j \in 1..(k - 1)
    BY <1>1
  <2>2. FirstOf(k) \in 1..LastIn(k) /\ LastIn(k) \in 1..Len(ch)
    BY <1>2
  <2>3. FirstOf(k) \in 1..Len(ch) /\ FirstOf(k) <= LastIn(k)
    BY <1>1, <1>3, <2>2
  <2>4. \A j \in 1..n : j < k => LastIn(j) < FirstOf(k) /\ ch[LastIn(j)].tick < Starts(k)
    BY <1>2, <2>1, Zenon
  <2>. QED
    BY <2>3, <2>4
<1>5. \A i \in 1..Len(ch) : \E k \in 1..n : FirstOf(k) <= i /\ i <= LastIn(k)
  BY <1>2, <1>3
<1>6. PICK k \in 1..n : FirstOf(k) <= 1 /\ 1 <= LastIn(k)
  BY <1>1, <1>5
<1>7. 1 \in 1..n
  BY <1>1
<1>8. k = 1
  <2>1. ASSUME 1 < k PROVE FALSE
    <3>1. LastIn(1) < FirstOf(k) /\ LastIn(1) \in 1..Len(ch)
      BY <1>2, <1>4, <1>7, <2>1
    <3>. QED
      BY <1>3, <1>6, <3>1
  <2>. QED
    BY <1>1, <2>1
<1>9. FirstOf(1) = 1
  BY <1>4, <1>6, <1>8
<1>10. file.sections # << >>
  BY <1>1, <1>7
<1>. QED
  BY <1>2, <1>3, <1>4, <1>5, <1>7, <1>9, <1>10

LEMMA EdgeFacts ==
  ASSUME Open
  PROVE  /\ p1_start \in Nat /\ p1_end \in Nat /\ p1_start <= p1_end
         /\ p1_start <= ask.from /\ p1_start <= file_end
         /\ ask.from <= file_end => p1_start = ask.from
         /\ ~(ask.from <= file_end) => p1_start = file_end
         /\ ask.to = Unbounded => p1_end = file_end
         /\ ask.to # Unbounded => ask.to <= p1_end
         /\ ask.to # Unbounded /\ Proper(ask) => p1_end = ask.to
<1>1. file_end \in Nat /\ ask.from \in Nat /\ (ask.to # Unbounded => ask.to \in Nat)
  BY FileFacts DEF WellAsked
<1>2. /\ p1_start \in Nat /\ p1_start <= ask.from /\ p1_start <= file_end
      /\ ask.from <= file_end => p1_start = ask.from
      /\ ~(ask.from <= file_end) => p1_start = file_end
  BY <1>1 DEF p1_start
<1>. QED
  BY <1>1, <1>2 DEF p1_end, Larger, Proper

(* read_signals delivers, of the sections it opens, what is not late.      *)
LEMMA OverlapFacts ==
  ASSUME Open, NEW ch, ch = file.changes, NEW start, NEW end, NEW include
  PROVE  /\ \A k : k \in Overlap(start, end) <=>
              k \in 1..Len(file.sections) /\ end >= Starts(k) /\ ch[LastIn(k)].tick >= start
         /\ \A i : i \in Emissions(start, end, include).changes <=>
              /\ i \in 1..Len(ch) /\ ch[i].tick <= end /\ ch[i].sid \in include
              /\ \E k \in Overlap(start, end) : FirstOf(k) <= i /\ i <= LastIn(k)
<1>1. DOMAIN ch = 1..Len(ch) /\ DOMAIN file.sections = 1..Len(file.sections)
  BY FileFacts
<1>2. \A k : k \in Overlap(start, end) <=>
        k \in 1..Len(file.sections) /\ end >= Starts(k) /\ ch[LastIn(k)].tick >= start
  BY <1>1 DEF Overlap, Starts, LastIn
<1>3. ASSUME NEW i \in 1..Len(ch), NEW k \in Overlap(start, end)
      PROVE  i \in FirstOf(k)..LastIn(k) <=> FirstOf(k) <= i /\ i <= LastIn(k)
  <2>1. k \in 1..Len(file.sections)
    BY <1>2
  <2>2. FirstOf(k) \in 1..Len(ch) /\ LastIn(k) \in 1..Len(ch)
    BY <2>1, SectionFacts
  <2>3. Len(ch) \in Nat
    BY FileFacts
  <2>. QED
    BY <2>2, <2>3
<1>4. Emissions(start, end, include).changes =
        {i \in 1..Len(ch) :
           /\ ch[i].tick <= end /\ ch[i].sid \in include
           /\ \E k \in Overlap(start, end) : i \in FirstOf(k)..LastIn(k)}
  BY <1>1 DEF Emissions, FirstOf, LastIn
<1>. QED
  BY <1>2, <1>3, <1>4

LEMMA SelectionHolds ==
  ASSUME Open, NEW ch, ch = file.changes
  PROVE  Selection(ch, ask, Emissions(p1_start, p1_end, ask.slots).changes)
<1>. DEFINE S == Emissions(p1_start, p1_end, ask.slots).changes
<1>1. /\ Len(ch) \in Nat /\ file_end \in Nat /\ ask.from \in Nat
      /\ ask.to # Unbounded => ask.to \in Nat
      /\ \A i \in 1..Len(ch) : ch[i].tick \in Nat /\ ch[i].tick <= file_end
      /\ \A i, j \in 1..Len(ch) : i <= j => ch[i].tick <= ch[j].tick
  BY FileFacts DEF WellAsked
<1>2. /\ p1_start \in Nat /\ p1_end \in Nat /\ p1_start <= p1_end
      /\ p1_start <= ask.from /\ p1_start <= file_end
      /\ ask.from <= file_end => p1_start = ask.from
      /\ ~(ask.from <= file_end) => p1_start = file_end
      /\ ask.to = Unbounded => p1_end = file_end
      /\ ask.to # Unbounded => ask.to <= p1_end
      /\ ask.to # Unbounded /\ Proper(ask) => p1_end = ask.to
  BY EdgeFacts
<1>3. /\ \A k : k \in Overlap(p1_start, p1_end) <=>
           k \in 1..Len(file.sections) /\ p1_end >= Starts(k) /\ ch[LastIn(k)].tick >= p1_start
      /\ \A i : i \in S <=>
           /\ i \in 1..Len(ch) /\ ch[i].tick <= p1_end /\ ch[i].sid \in ask.slots
           /\ \E k \in Overlap(p1_start, p1_end) : FirstOf(k) <= i /\ i <= LastIn(k)
  BY OverlapFacts
<1>4. /\ \A i \in 1..Len(ch) : \E k \in 1..Len(file.sections) :
           FirstOf(k) <= i /\ i <= LastIn(k)
      /\ \A k \in 1..Len(file.sections) :
           /\ FirstOf(k) \in 1..Len(ch) /\ LastIn(k) \in 1..Len(ch) /\ FirstOf(k) <= LastIn(k)
           /\ Starts(k) \in Nat /\ Starts(k) <= ch[FirstOf(k)].tick
           /\ \A j \in 1..Len(file.sections) : j < k => LastIn(j) < FirstOf(k)
  BY SectionFacts
<1>5. Len(file.sections) \in Nat
  BY FileFacts
<1>. HIDE DEF S
<1>6. ASSUME NEW i \in 1..Len(ch), ch[i].sid \in ask.slots, i \notin S, ch[i].tick <= p1_end
      PROVE  \E k \in 1..Len(file.sections) :
               FirstOf(k) <= i /\ i <= LastIn(k) /\ ch[LastIn(k)].tick < p1_start
  <2>1. PICK k \in 1..Len(file.sections) : FirstOf(k) <= i /\ i <= LastIn(k)
    BY <1>4
  <2>2. k \notin Overlap(p1_start, p1_end)
    BY <1>3, <1>6, <2>1
  <2>3. Starts(k) <= ch[FirstOf(k)].tick /\ ch[FirstOf(k)].tick <= ch[i].tick
    BY <1>1, <1>4, <2>1
  <2>4. /\ Starts(k) \in Nat /\ ch[FirstOf(k)].tick \in Nat /\ ch[i].tick \in Nat
        /\ ch[LastIn(k)].tick \in Nat
    BY <1>1, <1>4
  <2>5. p1_end >= Starts(k)
    BY <1>2, <1>6, <2>3, <2>4
  <2>. QED
    <3>1. ~(ch[LastIn(k)].tick >= p1_start)
      BY <1>3, <2>2, <2>5, Zenon
    <3>2. ch[LastIn(k)].tick < p1_start
      BY <1>2, <2>4, <3>1
    <3>. QED
      BY <2>1, <3>2
<1>7. ASSUME NEW i \in 1..Len(ch), ch[i].sid \in ask.slots, i \notin S,
             ch[i].tick <= ask.from, NEW j \in S, j < i
      PROVE  FALSE
  <2>1. ch[i].tick <= p1_end
    BY <1>1, <1>2, <1>7
  <2>2. PICK k \in 1..Len(file.sections) :
           FirstOf(k) <= i /\ i <= LastIn(k) /\ ch[LastIn(k)].tick < p1_start
    BY <1>6, <1>7, <2>1
  <2>3. PICK h \in Overlap(p1_start, p1_end) : FirstOf(h) <= j /\ j <= LastIn(h)
    BY <1>3
  <2>4. h \in 1..Len(file.sections) /\ ch[LastIn(h)].tick >= p1_start /\ j \in 1..Len(ch)
    BY <1>3
  <2>5. LastIn(h) \in 1..Len(ch) /\ LastIn(k) \in 1..Len(ch)
    BY <1>4, <2>4
  <2>6. LastIn(k) < LastIn(h)
    <3>1. ~(LastIn(h) <= LastIn(k))
      <4>1. LastIn(h) <= LastIn(k) => ch[LastIn(h)].tick <= ch[LastIn(k)].tick
        BY <1>1, <2>5
      <4>2. ch[LastIn(h)].tick \in Nat /\ ch[LastIn(k)].tick \in Nat
        BY <1>1, <2>5
      <4>3. ASSUME LastIn(h) <= LastIn(k) PROVE FALSE
        <5>1. ch[LastIn(h)].tick <= ch[LastIn(k)].tick /\ p1_start \in Nat
          BY <1>2, <4>1, <4>3
        <5>2. ch[LastIn(k)].tick < p1_start /\ ch[LastIn(h)].tick >= p1_start
          BY <2>2, <2>4
        <5>. QED
          BY <4>2, <5>1, <5>2
      <4>. QED
        BY <4>3
    <3>. QED
      BY <1>1, <2>5, <3>1
  <2>7. ~(h < k)
    <3>1. h < k => LastIn(h) < FirstOf(k) /\ FirstOf(k) <= LastIn(k) /\ FirstOf(k) \in 1..Len(ch)
      BY <1>4, <2>4
    <3>. QED
      BY <1>1, <2>5, <2>6, <3>1
  <2>8. k < h
    <3>1. k # h
      BY <1>1, <2>5, <2>6
    <3>. QED
      BY <1>5, <2>4, <2>7, <3>1
  <2>9. LastIn(k) < FirstOf(h) /\ FirstOf(h) \in 1..Len(ch)
    BY <1>4, <2>4, <2>8
  <2>. QED
    BY <1>1, <1>7, <2>2, <2>3, <2>4, <2>5, <2>9
<1>8. ASSUME NEW i \in 1..Len(ch), ch[i].sid \in ask.slots, i \notin S,
             Proper(ask), ch[i].tick > ask.from
      PROVE  ask.to # Unbounded /\ ch[i].tick > ask.to
  <2>1. p1_start = ask.from /\ ch[i].tick \in Nat
    BY <1>1, <1>2, <1>8
  <2>2. ch[i].tick > p1_end
    <3>1. ASSUME ch[i].tick <= p1_end PROVE FALSE
      <4>1. PICK k \in 1..Len(file.sections) :
               FirstOf(k) <= i /\ i <= LastIn(k) /\ ch[LastIn(k)].tick < p1_start
        BY <1>6, <1>8, <3>1
      <4>2. LastIn(k) \in 1..Len(ch)
        BY <1>4
      <4>3. ch[i].tick <= ch[LastIn(k)].tick /\ ch[LastIn(k)].tick \in Nat
        BY <1>1, <4>1, <4>2
      <4>. QED
        BY <1>1, <1>8, <2>1, <4>1, <4>3
    <3>. QED
      BY <1>2, <2>1, <3>1
  <2>. QED
    BY <1>1, <1>2, <2>1, <2>2
<1>9. Proper(ask) => \A i \in S : ~(ask.to # Unbounded /\ ch[i].tick > ask.to)
  <2>1. ASSUME Proper(ask), NEW i \in S, ask.to # Unbounded PROVE ~(ch[i].tick > ask.to)
    <3>1. ch[i].tick <= p1_end /\ ch[i].tick \in Nat
      BY <1>1, <1>3
    <3>. QED
      BY <1>1, <1>2, <2>1, <3>1
  <2>. QED
    BY <2>1
<1>10. S \subseteq {i \in 1..Len(ch) : ch[i].sid \in ask.slots}
  BY <1>3
<1>11. Selection(ch, ask, S)
  BY <1>7, <1>8, <1>9, <1>10 DEF Selection
<1>. QED
  BY <1>11 DEF S

(* A frame is echoed at a tick at which no change is recorded.             *)
LEMMA FrameHolds ==
  ASSUME Open, NEW start, NEW end, NEW include \in SUBSET Sid
  PROVE  LET frame == Emissions(start, end, include).frame
         IN  frame # {} =>
               \E t \in Nat :
                 /\ t \notin time_table
                 /\ \A e \in frame :
                      e.tick = t /\ e \in [tick : Nat, sid : include, val : Value \cup {Unknown}]
<1>. DEFINE ch == file.changes
            over == Overlap(start, end)
            h == First(over)
            frame == Emissions(start, end, include).frame
            n == Len(file.sections)
<1>1. /\ Len(ch) \in Nat /\ DOMAIN ch = 1..Len(ch) /\ n \in Nat
      /\ \A i \in 1..Len(ch) : ch[i].tick \in Nat /\ ch[i].val \in Value
      /\ \A i, j \in 1..Len(ch) : i <= j => ch[i].tick <= ch[j].tick
  BY FileFacts, ChronicleFacts
<1>2. /\ \A i \in 1..Len(ch) : \E k \in 1..n : FirstOf(k) <= i /\ i <= LastIn(k)
      /\ \A k \in 1..n :
           /\ FirstOf(k) \in 1..Len(ch) /\ LastIn(k) \in 1..Len(ch) /\ FirstOf(k) <= LastIn(k)
           /\ Starts(k) \in Nat /\ Starts(k) <= ch[FirstOf(k)].tick
           /\ \A j \in 1..n : j < k =>
                LastIn(j) < FirstOf(k) /\ ch[LastIn(j)].tick < Starts(k)
  BY SectionFacts
<1>3. /\ \A k \in over : k \in 1..n
      /\ frame # {} => /\ over # {} /\ ch[FirstOf(h)].tick > Starts(h)
                       /\ frame = {[tick |-> Starts(h), sid |-> s, val |-> Carried(h, s)] : s \in include}
  <2>1. \A k \in over : k \in 1..n
    BY OverlapFacts
  <2>2. frame = IF over # {} /\ ch[FirstOf(h)].tick > Starts(h)
                THEN {[tick |-> Starts(h), sid |-> s, val |-> Carried(h, s)] : s \in include}
                ELSE {}
    BY DEF Emissions, FirstOf, Starts
  <2>. HIDE DEF frame, over, h, ch
  <2>. QED
    BY <2>1, <2>2
<1>. HIDE DEF frame
<1>4. SUFFICES ASSUME frame # {}
      PROVE  \E t \in Nat :
               /\ t \notin time_table
               /\ \A e \in frame :
                    e.tick = t /\ e \in [tick : Nat, sid : include, val : Value \cup {Unknown}]
  BY DEF frame
<1>5. h \in over /\ h \in 1..n
  <2>1. over # {} /\ over \in SUBSET Nat
    BY <1>1, <1>3, <1>4
  <2>. HIDE DEF over
  <2>2. \E k \in over : \A j \in over : k <= j
    BY <2>1, FirstExists
  <2>3. First(over) \in over
    BY <2>2 DEF First
  <2>. QED
    BY <1>3, <2>3
<1>. HIDE DEF h, over
<1>6. Starts(h) \notin time_table
  <2>1. ASSUME NEW i \in 1..Len(ch) PROVE ch[i].tick # Starts(h)
    <3>1. PICK k \in 1..n : FirstOf(k) <= i /\ i <= LastIn(k)
      BY <1>2
    <3>2. /\ FirstOf(k) \in 1..Len(ch) /\ LastIn(k) \in 1..Len(ch)
          /\ FirstOf(h) \in 1..Len(ch) /\ LastIn(h) \in 1..Len(ch) /\ FirstOf(h) <= LastIn(h)
          /\ Starts(h) \in Nat
      BY <1>2, <1>5
    <3>3. ch[i].tick \in Nat /\ ch[FirstOf(h)].tick \in Nat /\ ch[LastIn(k)].tick \in Nat
      BY <1>1, <3>2
    <3>4. CASE k < h
      <4>1. ch[LastIn(k)].tick < Starts(h)
        BY <1>2, <1>5, <3>4
      <4>2. ch[i].tick <= ch[LastIn(k)].tick
        BY <1>1, <3>1, <3>2
      <4>. QED
        BY <3>2, <3>3, <4>1, <4>2
    <3>5. CASE ~(k < h)
      <4>1. FirstOf(h) <= i
        <5>1. CASE k = h
          BY <3>1, <5>1
        <5>2. CASE h < k
          <6>1. LastIn(h) < FirstOf(k)
            BY <1>2, <1>5, <5>2
          <6>. QED
            BY <1>1, <3>1, <3>2, <6>1
        <5>. QED
          BY <1>1, <1>5, <3>5, <5>1, <5>2
      <4>2. ch[FirstOf(h)].tick <= ch[i].tick
        BY <1>1, <3>2, <4>1
      <4>3. ch[FirstOf(h)].tick > Starts(h)
        BY <1>3, <1>4
      <4>. QED
        BY <3>2, <3>3, <4>2, <4>3
    <3>. QED
      BY <3>4, <3>5
  <2>. QED
    BY <1>1, <2>1 DEF time_table
<1>7. \A s : Carried(h, s) \in Value \cup {Unknown}
  <2>1. ASSUME NEW s PROVE Carried(h, s) \in Value \cup {Unknown}
    <3>. DEFINE before == {i \in 1..(FirstOf(h) - 1) : ch[i].sid = s}
    <3>1. Carried(h, s) = IF before = {} THEN Unknown ELSE ch[LastOf(before)].val
      BY DEF Carried, FirstOf
    <3>2. before # {} => LastOf(before) \in 1..Len(ch)
      <4>1. FirstOf(h) \in 1..Len(ch)
        BY <1>2, <1>5
      <4>2. before \in SUBSET (1..Len(ch))
        BY <1>1, <4>1
      <4>. HIDE DEF before
      <4>3. ASSUME before # {} PROVE LastOf(before) \in before
        <5>1. \E k \in before : \A j \in before : j <= k
          BY <1>1, <4>2, <4>3, LastExists
        <5>. QED
          BY <5>1 DEF LastOf
      <4>. QED
        BY <4>2, <4>3
    <3>. HIDE DEF before
    <3>. QED
      BY <1>1, <3>1, <3>2
  <2>. QED
    BY <2>1
<1>8. Starts(h) \in Nat
  BY <1>2, <1>5
<1>9. \A e \in frame :
        e.tick = Starts(h) /\ e \in [tick : Nat, sid : include, val : Value \cup {Unknown}]
  <2>1. ASSUME NEW s \in include
        PROVE  LET e == [tick |-> Starts(h), sid |-> s, val |-> Carried(h, s)]
               IN  e.tick = Starts(h) /\ e \in [tick : Nat, sid : include, val : Value \cup {Unknown}]
    BY <1>7, <1>8
  <2>. QED
    BY <1>3, <1>4, <2>1
<1>. QED
  BY <1>6, <1>8, <1>9

(* The second reading begins with the file, so no frame is echoed, and it  *)
(* delivers all that is recorded at or before the left edge.               *)
LEMMA Rereads ==
  ASSUME Open, NEW ch, ch = file.changes, NEW open
  PROVE  /\ Emissions(0, p1_start, open).frame = {}
         /\ Emissions(0, p1_start, open).changes =
              {i \in 1..Len(ch) : ch[i].tick <= ask.from /\ ch[i].sid \in open}
<1>. DEFINE over == Overlap(0, p1_start)
            S == Emissions(0, p1_start, open).changes
<1>1. /\ Len(ch) \in Nat /\ 1 \in 1..Len(ch) /\ Len(file.sections) \in Nat
      /\ file_end \in Nat /\ ask.from \in Nat
      /\ \A i \in 1..Len(ch) : ch[i].tick \in Nat /\ ch[i].tick <= file_end
      /\ \A i, j \in 1..Len(ch) : i <= j => ch[i].tick <= ch[j].tick
  BY FileFacts DEF WellAsked
<1>2. /\ p1_start \in Nat /\ p1_start <= ask.from
      /\ ask.from <= file_end => p1_start = ask.from
      /\ ~(ask.from <= file_end) => p1_start = file_end
  BY EdgeFacts
<1>3. /\ \A k : k \in over <=>
           k \in 1..Len(file.sections) /\ p1_start >= Starts(k) /\ ch[LastIn(k)].tick >= 0
      /\ \A i : i \in S <=>
           /\ i \in 1..Len(ch) /\ ch[i].tick <= p1_start /\ ch[i].sid \in open
           /\ \E k \in over : FirstOf(k) <= i /\ i <= LastIn(k)
  BY OverlapFacts
<1>4. /\ \A i \in 1..Len(ch) : \E k \in 1..Len(file.sections) :
           FirstOf(k) <= i /\ i <= LastIn(k)
      /\ \A k \in 1..Len(file.sections) :
           /\ FirstOf(k) \in 1..Len(ch) /\ LastIn(k) \in 1..Len(ch)
           /\ Starts(k) \in Nat /\ Starts(k) <= ch[FirstOf(k)].tick
           /\ \A j \in 1..Len(file.sections) : j < k => ch[LastIn(j)].tick < Starts(k)
      /\ 1 \in 1..Len(file.sections) /\ Starts(1) = ch[1].tick /\ FirstOf(1) = 1
  BY SectionFacts
<1>5. ASSUME over # {} PROVE First(over) = 1
  <2>1. PICK k : k \in over
    BY <1>5
  <2>2. k \in 1..Len(file.sections) /\ p1_start >= Starts(k) /\ Starts(k) \in Nat
    BY <1>3, <1>4, <2>1
  <2>3. Starts(1) <= Starts(k) /\ Starts(1) \in Nat
    <3>1. CASE k = 1
      BY <1>4, <3>1
    <3>2. CASE 1 < k
      <4>1. ch[LastIn(1)].tick < Starts(k) /\ LastIn(1) \in 1..Len(ch)
        BY <1>4, <2>2, <3>2
      <4>2. ch[1].tick <= ch[LastIn(1)].tick /\ ch[LastIn(1)].tick \in Nat /\ ch[1].tick \in Nat
        BY <1>1, <4>1
      <4>3. Starts(1) = ch[1].tick
        BY <1>4
      <4>. QED
        BY <2>2, <4>1, <4>2, <4>3
    <3>. QED
      BY <1>1, <2>2, <3>1, <3>2
  <2>4. p1_start >= Starts(1)
    BY <1>2, <2>2, <2>3
  <2>5. ch[LastIn(1)].tick >= 0
    <3>1. LastIn(1) \in 1..Len(ch)
      BY <1>4
    <3>2. ch[LastIn(1)].tick \in Nat
      BY <1>1, <3>1
    <3>. QED
      BY <3>2
  <2>6. 1 \in over
    BY <1>3, <1>4, <2>4, <2>5
  <2>7. over \in SUBSET Nat /\ \A j \in over : 1 <= j
    BY <1>1, <1>3
  <2>. HIDE DEF over
  <2>. QED
    BY <2>6, <2>7, FirstIs
<1>6. Emissions(0, p1_start, open).frame = {}
  <2>1. over # {} => ~(file.changes[file.sections[First(over)].first].tick
                         > file.sections[First(over)].start)
    <3>1. ASSUME over # {}
          PROVE  ~(ch[FirstOf(First(over))].tick > Starts(First(over)))
      <4>1. First(over) = 1
        BY <1>5, <3>1
      <4>2. ch[1].tick \in Nat
        BY <1>1
      <4>3. FirstOf(1) = 1 /\ Starts(1) = ch[1].tick
        BY <1>4
      <4>4. ~(ch[1].tick > ch[1].tick)
        BY <4>2
      <4>. HIDE DEF over
      <4>. QED
        BY <4>1, <4>3, <4>4, Zenon
    <3>. QED
      BY <3>1 DEF FirstOf, Starts
  <2>. QED
    BY <2>1 DEF Emissions
<1>7. ASSUME NEW i \in 1..Len(ch), ch[i].tick <= ask.from, ch[i].sid \in open
      PROVE  i \in S
  <2>1. PICK k \in 1..Len(file.sections) : FirstOf(k) <= i /\ i <= LastIn(k)
    BY <1>4
  <2>2. ch[i].tick <= p1_start /\ ch[i].tick \in Nat
    BY <1>1, <1>2, <1>7
  <2>3. /\ FirstOf(k) \in 1..Len(ch) /\ Starts(k) \in Nat /\ Starts(k) <= ch[FirstOf(k)].tick
        /\ LastIn(k) \in 1..Len(ch)
    BY <1>4
  <2>4. ch[FirstOf(k)].tick <= ch[i].tick /\ ch[FirstOf(k)].tick \in Nat /\ ch[LastIn(k)].tick >= 0
    BY <1>1, <2>1, <2>3
  <2>5. p1_start >= Starts(k)
    BY <1>2, <2>2, <2>3, <2>4
  <2>6. k \in over
    BY <1>3, <2>4, <2>5
  <2>. QED
    BY <1>3, <1>7, <2>1, <2>2, <2>6
<1>8. ASSUME NEW i \in S
      PROVE  i \in 1..Len(ch) /\ ch[i].tick <= ask.from /\ ch[i].sid \in open
  <2>1. i \in 1..Len(ch) /\ ch[i].tick <= p1_start /\ ch[i].sid \in open
    BY <1>3
  <2>. QED
    BY <1>1, <1>2, <2>1
<1>. HIDE DEF S
<1>9. S = {i \in 1..Len(ch) : ch[i].tick <= ask.from /\ ch[i].sid \in open}
  BY <1>7, <1>8
<1>. QED
  BY <1>6, <1>9 DEF S

-----------------------------------------------------------------------------

(***************************************************************************)
(* The invariant.                                                          *)
(***************************************************************************)
Echoes(slots) == [tick : Nat, sid : slots, val : Value \cup {Unknown}]

Typed ==
  /\ Open
  /\ phase \in {"phase1", "phase2", "done"}
  /\ feed \in [frame : SUBSET Echoes(ask.slots),
              changes : SUBSET {i \in 1..Len(file.changes) : file.changes[i].sid \in ask.slots}]
  /\ suspect \in Nat \cup {None}
  /\ col \in [ask.slots -> Collector]

(* At every moment a collector's window is made of changes of the file,    *)
(* and it is given to phase 2 only where phase 1 left no seed to trust.    *)
HeldIn(ch, a, s, c) ==
  /\ WindowIs(ch, a, s, Len(ch), c)
  /\ c.demoted => NeedsPhase2(c)
  /\ c.seed2 # None => c.demoted /\ c.seed2.tick <= a.from

Held == \A s \in ask.slots : HeldIn(file.changes, ask, s, col[s])

(* Phase 1 has gone over the positions up to p, the frame first.           *)
Phase1At(ch, a, fd, cl, S, p) ==
  /\ Selection(ch, a, S)
  /\ p \in 0..Len(ch)
  /\ fd.changes = {i \in S : p < i}
  /\ fd.frame # {} => p = 0
  /\ \A s \in a.slots : Collecting(ch, a, s, S, p, cl[s])

Phase1Inv ==
  phase = "phase1" =>
    /\ traces = None
    /\ \A i \in 1..Len(file.changes) : file.changes[i].tick # suspect
    /\ \A e \in feed.frame : e.tick = suspect
    /\ \E S, p : Phase1At(file.changes, ask, feed, col, S, p)

(* Phase 2 has gone over the positions up to p that it reads for the       *)
(* signals given to it.                                                    *)
Phase2At(ch, a, fd, cl, p) ==
  /\ p \in 0..Len(ch)
  /\ fd.changes = {i \in 1..Len(ch) : /\ ch[i].tick <= a.from /\ ch[i].sid \in a.slots
                                     /\ cl[ch[i].sid].demoted /\ p < i}
  /\ \A s \in a.slots : Reseeding(ch, a, s, p, cl[s])

Phase2Inv ==
  phase = "phase2" =>
    /\ traces = None
    /\ feed.frame = {}
    /\ \E p : Phase2At(file.changes, ask, feed, col, p)

Agrees(ch, a, s, T) ==
  T = Decoded(ch, s)[Len(ch)] \/ Shortens(a, Decoded(ch, s)[Len(ch)], T)

DoneInv ==
  phase = "done" =>
    /\ traces \in [ask.slots -> Seq(Changes)]
    /\ Proper(ask) => \A s \in ask.slots : Agrees(file.changes, ask, s, traces[s])

FstInv == Typed /\ Held /\ Phase1Inv /\ Phase2Inv /\ DoneInv

(* The reader starts with its invariant.                                   *)
LEMMA InitEstablishes == Init => FstInv
<1>. SUFFICES ASSUME Init PROVE FstInv
  OBVIOUS
<1>. DEFINE ch == file.changes
            S == Emissions(p1_start, p1_end, ask.slots).changes
            frame == Emissions(p1_start, p1_end, ask.slots).frame
<1>1. Open
  BY DEF Init, Open
<1>2. /\ Chronicle(ch) /\ WellAsked(ask) /\ Len(ch) \in Nat /\ DOMAIN ch = 1..Len(ch)
      /\ \A i \in 1..Len(ch) : ch[i].tick \in Nat
  BY <1>1, FileFacts
<1>3. Selection(ch, ask, S) /\ S \subseteq {i \in 1..Len(ch) : ch[i].sid \in ask.slots}
  BY <1>1, SelectionHolds DEF Selection
<1>4. ask.slots \in SUBSET Sid
  BY <1>2 DEF WellAsked
<1>5. frame # {} => \E t \in Nat : t \notin time_table /\ \A e \in frame : e.tick = t /\ e \in Echoes(ask.slots)
  BY <1>1, <1>4, FrameHolds DEF Echoes
<1>6. feed = [frame |-> frame, changes |-> S]
  BY DEF Init, Emissions
<1>. HIDE DEF S, frame
<1>7. suspect \in Nat \cup {None} /\ suspect \notin time_table /\ \A e \in frame : e.tick = suspect
  <2>1. suspect = IF NoMore \/ FirstTick \in time_table THEN None ELSE FirstTick
    BY DEF Init
  <2>2. None \notin time_table
    BY <1>2, NoneAssumption DEF time_table
  <2>3. CASE frame = {}
    <3>1. suspect = None
      <4>1. CASE S = {}
        BY <1>6, <2>1, <2>3, <4>1 DEF NoMore
      <4>2. CASE S # {}
        <5>1. S \in SUBSET Nat
          BY <1>2, <1>3
        <5>2. \E k \in S : \A j \in S : k <= j
          BY <4>2, <5>1, FirstExists
        <5>3. First(S) \in S
          BY <5>2 DEF First
        <5>4. FirstTick = ch[First(S)].tick
          BY <1>6, <2>3 DEF FirstTick
        <5>5. FirstTick \in time_table
          BY <1>2, <1>3, <5>3, <5>4 DEF time_table
        <5>. QED
          BY <2>1, <5>5
      <4>. QED
        BY <4>1, <4>2
    <3>. QED
      BY <2>2, <2>3, <3>1
  <2>4. CASE frame # {}
    <3>1. PICK t \in Nat : t \notin time_table /\ \A e \in frame : e.tick = t
      BY <1>5, <2>4
    <3>2. FirstTick = t
      BY <1>6, <2>4, <3>1 DEF FirstTick
    <3>3. ~NoMore
      BY <1>6, <2>4 DEF NoMore
    <3>4. suspect = t
      BY <2>1, <3>1, <3>2, <3>3
    <3>. QED
      BY <3>1, <3>4
  <2>. QED
    BY <2>3, <2>4
<1>8. \A i \in 1..Len(ch) : ch[i].tick # suspect
  BY <1>2, <1>7 DEF time_table
<1>9. /\ EmptyCollector \in Collector /\ ~EmptyCollector.demoted /\ EmptyCollector.seed2 = None
      /\ EmptyCollector.win = << >> /\ EmptyCollector.seed = None /\ NeedsPhase2(EmptyCollector)
  BY DEF EmptyCollector, Collector, NeedsPhase2
<1>10. /\ col = [s \in ask.slots |-> EmptyCollector] /\ phase = "phase1" /\ traces = None
  BY DEF Init
<1>11. Typed
  <2>1. frame \in SUBSET Echoes(ask.slots)
    BY <1>5
  <2>. QED
    BY <1>1, <1>3, <1>6, <1>7, <1>9, <1>10, <2>1 DEF Typed
<1>12. \A s \in ask.slots : Collecting(ch, ask, s, S, 0, col[s])
  BY <1>2, <1>9, <1>10, CollectingStarts
<1>13. Phase1At(ch, ask, feed, col, S, 0)
  <2>1. S = {i \in S : 0 < i}
    BY <1>2, <1>3
  <2>2. 0 \in 0..Len(ch)
    BY <1>2
  <2>. QED
    BY <1>3, <1>6, <1>12, <2>1, <2>2 DEF Phase1At
<1>14. Held
  <2>1. ASSUME NEW s \in ask.slots PROVE HeldIn(ch, ask, s, col[s])
    <3>1. WindowIs(ch, ask, s, 0, col[s]) /\ 0 \in Nat /\ 0 <= Len(ch)
      BY <1>2, <1>12 DEF Collecting
    <3>2. WindowIs(ch, ask, s, Len(ch), col[s])
      BY <1>2, <3>1, WindowGrows
    <3>. QED
      BY <1>9, <1>10, <3>2 DEF HeldIn
  <2>. QED
    BY <2>1 DEF Held
<1>15. Phase1Inv
  <2>1. \E U, p : Phase1At(ch, ask, feed, col, U, p)
    BY <1>13
  <2>2. feed.frame = frame
    BY <1>6
  <2>. QED
    BY <1>7, <1>8, <1>10, <2>1, <2>2 DEF Phase1Inv
<1>16. Phase2Inv /\ DoneInv
  BY <1>10 DEF Phase2Inv, DoneInv
<1>. QED
  BY <1>11, <1>14, <1>15, <1>16 DEF FstInv

(* A collector of phase 1 holds what a collector always does.              *)
LEMMA CollectingHeld ==
  ASSUME NEW ch, Chronicle(ch), NEW a, NEW s, NEW S, NEW p \in 0..Len(ch), NEW c,
         Collecting(ch, a, s, S, p, c)
  PROVE  c \in Collector /\ HeldIn(ch, a, s, c)
<1>1. Len(ch) \in Nat /\ p \in Nat /\ p <= Len(ch)
  BY ChronicleFacts
<1>2. WindowIs(ch, a, s, Len(ch), c)
  BY <1>1, WindowGrows DEF Collecting
<1>. QED
  BY <1>2 DEF Collecting, HeldIn

(* One callback of phase 1.                                                *)
LEMMA Emission1Preserves ==
  ASSUME FstInv, Emission1
  PROVE  FstInv'
<1>. DEFINE ch == file.changes
<1>1. /\ phase = "phase1" /\ phase' = "phase1" /\ file' = file /\ ask' = ask
      /\ suspect' = suspect /\ traces' = traces
  BY DEF Emission1
<1>2. /\ Open /\ Chronicle(ch) /\ WellAsked(ask) /\ Len(ch) \in Nat
      /\ \A i \in 1..Len(ch) : ch[i].tick \in Nat
  BY FileFacts DEF FstInv, Typed
<1>3. /\ traces = None /\ (\A i \in 1..Len(ch) : ch[i].tick # suspect)
      /\ \A e \in feed.frame : e.tick = suspect
  BY <1>1 DEF FstInv, Phase1Inv
<1>4. PICK S, p : Phase1At(ch, ask, feed, col, S, p)
  BY <1>1 DEF FstInv, Phase1Inv
<1>5. /\ feed \in [frame : SUBSET Echoes(ask.slots),
                  changes : SUBSET {i \in 1..Len(ch) : ch[i].sid \in ask.slots}]
      /\ col \in [ask.slots -> Collector]
  BY DEF FstInv, Typed
<1>6. /\ Selection(ch, ask, S) /\ p \in 0..Len(ch) /\ feed.changes = {i \in S : p < i}
      /\ feed.frame # {} => p = 0
      /\ \A s \in ask.slots : Collecting(ch, ask, s, S, p, col[s])
      /\ S \subseteq {i \in 1..Len(ch) : ch[i].sid \in ask.slots}
  BY <1>4 DEF Phase1At, Selection
<1>7. PICK e \in Emitted :
        /\ Deliver(e)
        /\ col' = [col EXCEPT ![e.sid] = OnPhase1(@, e, e.tick = suspect)]
  BY DEF Emission1
(* It is enough to say how far phase 1 has come.                           *)
<1>8. ASSUME NEW q, Phase1At(ch, ask, feed', col', S, q),
             feed' \in [frame : SUBSET feed.frame, changes : SUBSET feed.changes],
             col' \in [ask.slots -> Collector]
      PROVE  FstInv'
  <2>1. feed' \in [frame : SUBSET Echoes(ask.slots),
                   changes : SUBSET {i \in 1..Len(ch) : ch[i].sid \in ask.slots}]
    BY <1>5, <1>8
  <2>2. Typed'
    BY <1>1, <1>8, <2>1 DEF FstInv, Typed, Open
  <2>3. ASSUME NEW s \in ask.slots PROVE HeldIn(ch, ask, s, col'[s])
    <3>1. Collecting(ch, ask, s, S, q, col'[s]) /\ q \in 0..Len(ch)
      BY <1>8 DEF Phase1At
    <3>. QED
      BY <1>2, <3>1, CollectingHeld
  <2>4. Held'
    BY <1>1, <2>3 DEF Held
  <2>5. Phase1Inv'
    BY <1>1, <1>3, <1>8 DEF Phase1Inv
  <2>6. Phase2Inv' /\ DoneInv'
    BY <1>1 DEF Phase2Inv, DoneInv
  <2>. QED
    BY <2>2, <2>4, <2>5, <2>6 DEF FstInv
<1>9. CASE e \in feed.frame /\ feed' = [feed EXCEPT !.frame = @ \ {e}]
  <2>1. e \in Echoes(ask.slots) /\ e.tick = suspect /\ p = 0
    BY <1>3, <1>5, <1>6, <1>9
  <2>2. e.tick \in Nat /\ e.val \in Value \cup {Unknown} /\ e.sid \in ask.slots
    BY <2>1 DEF Echoes
  <2>3. OnPhase1(col[e.sid], e, e.tick = suspect) = OnPhase1(col[e.sid], e, TRUE)
    <3>1. (e.tick = suspect) = TRUE
      BY <2>1
    <3>. QED
      BY <3>1
  <2>4. Collecting(ch, ask, e.sid, S, 0, OnPhase1(col[e.sid], e, TRUE))
    BY <1>2, <1>6, <2>1, <2>2, EchoCollects
  <2>5. OnPhase1(col[e.sid], e, TRUE) \in Collector
    BY <2>4 DEF Collecting
  <2>6. /\ col' \in [ask.slots -> Collector]
        /\ \A s \in ask.slots : col'[s] = IF s = e.sid THEN OnPhase1(col[e.sid], e, TRUE) ELSE col[s]
    BY <1>5, <1>7, <2>2, <2>3, <2>5
  <2>7. \A s \in ask.slots : Collecting(ch, ask, s, S, 0, col'[s])
    BY <1>6, <2>1, <2>4, <2>6
  <2>8. /\ feed' \in [frame : SUBSET feed.frame, changes : SUBSET feed.changes]
        /\ feed'.changes = feed.changes
    BY <1>5, <1>9
  <2>9. Phase1At(ch, ask, feed', col', S, 0)
    BY <1>6, <2>1, <2>7, <2>8 DEF Phase1At
  <2>. QED
    BY <1>8, <2>6, <2>8, <2>9
<1>10. CASE /\ feed.frame = {} /\ feed.changes # {} /\ e = ch[First(feed.changes)]
            /\ feed' = [feed EXCEPT !.changes = @ \ {First(@)}]
  <2>. DEFINE i == First(feed.changes)
  <2>1. i \in feed.changes /\ \A j \in feed.changes : i <= j
    <3>1. feed.changes \in SUBSET Nat
      BY <1>2, <1>5
    <3>2. \E k \in feed.changes : \A j \in feed.changes : k <= j
      BY <1>10, <3>1, FirstExists
    <3>. QED
      BY <3>2 DEF First
  <2>. HIDE DEF i
  <2>2. /\ i \in S /\ p < i /\ i \in 1..Len(ch) /\ ch[i].sid \in ask.slots
        /\ \A j \in S : p < j => i <= j
        /\ e = ch[i]
    BY <1>6, <1>10, <2>1 DEF i
  <2>3. OnPhase1(col[e.sid], e, e.tick = suspect) = OnPhase1(col[e.sid], e, FALSE)
    <3>1. (e.tick = suspect) = FALSE
      BY <1>3, <2>2
    <3>. QED
      BY <3>1
  <2>4. ASSUME NEW s \in ask.slots
        PROVE  /\ Collecting(ch, ask, s, S, i - 1, col[s])
               /\ ch[i].sid # s => Collecting(ch, ask, s, S, i, col[s])
    BY <1>2, <1>6, <2>2, NextCollects
  <2>5. Collecting(ch, ask, e.sid, S, i, OnPhase1(col[e.sid], e, FALSE))
    BY <1>2, <1>6, <2>2, <2>4, TakeCollects
  <2>6. OnPhase1(col[e.sid], e, FALSE) \in Collector
    BY <2>5 DEF Collecting
  <2>7. /\ col' \in [ask.slots -> Collector]
        /\ \A s \in ask.slots : col'[s] = IF s = e.sid THEN OnPhase1(col[e.sid], e, FALSE) ELSE col[s]
    BY <1>5, <1>7, <2>2, <2>3, <2>6
  <2>8. \A s \in ask.slots : Collecting(ch, ask, s, S, i, col'[s])
    BY <2>2, <2>4, <2>5, <2>7
  <2>9. /\ feed' \in [frame : SUBSET feed.frame, changes : SUBSET feed.changes]
        /\ feed'.frame = {} /\ feed'.changes = feed.changes \ {i}
    BY <1>5, <1>10 DEF i
  <2>10. feed'.changes = {j \in S : i < j}
    <3>1. \A j \in S : j \in Nat
      BY <1>2, <1>6
    <3>2. \A j \in S : (p < j /\ j # i) <=> i < j
      BY <1>6, <2>2, <3>1
    <3>. QED
      BY <1>6, <2>9, <3>2
  <2>11. i \in 0..Len(ch)
    BY <1>2, <2>2
  <2>12. Phase1At(ch, ask, feed', col', S, i)
    BY <1>6, <2>8, <2>9, <2>10, <2>11 DEF Phase1At
  <2>. QED
    BY <1>8, <2>7, <2>9, <2>12
<1>. QED
  BY <1>7, <1>9, <1>10 DEF Deliver

(* What a collector shows depends on what phase 1 gave it.                 *)
LEMMA AlikeCollects ==
  ASSUME NEW ch, NEW a, NEW s, NEW D, NEW p, NEW c, NEW d,
         d.win = c.win, d.seed = c.seed, d.seed_suspect = c.seed_suspect
  PROVE  /\ NeedsPhase2(d) <=> NeedsPhase2(c)
         /\ WindowIs(ch, a, s, p, c) => WindowIs(ch, a, s, p, d)
         /\ Reached(a, s, D, c) => Reached(a, s, D, d)
<1>1. NeedsPhase2(d) <=> NeedsPhase2(c)
  BY DEF NeedsPhase2
<1>2. WindowIs(ch, a, s, p, c) => WindowIs(ch, a, s, p, d)
  BY DEF WindowIs
<1>3. \A k : Redundant(s, D, k, d) <=> Redundant(s, D, k, c)
  BY <1>1 DEF Redundant
<1>4. \A k, m : Matches(s, D, k, m, c) => Matches(s, D, k, m, d)
  <2>. SUFFICES ASSUME NEW k, NEW m, Matches(s, D, k, m, c) PROVE Matches(s, D, k, m, d)
    OBVIOUS
  <2>1. \E off \in {0, 1} :
          /\ off = 1 <=> Redundant(s, D, k, d)
          /\ Len(d.win) = m - k + off
          /\ \A j \in 1..(m - k) : D[k + j] = d.win[j + off]
    <3>1. PICK off \in {0, 1} :
          /\ off = 1 <=> Redundant(s, D, k, c)
          /\ Len(c.win) = m - k + off
          /\ \A j \in 1..(m - k) : D[k + j] = c.win[j + off]
      BY DEF Matches
    <3>. WITNESS off \in {0, 1}
    <3>. QED
      BY <1>3, <3>1, Zenon
  <2>2. ~NeedsPhase2(d) => k > 0 /\ d.seed.val = D[k].val
    BY <1>1, Zenon DEF Matches
  <2>. QED
    BY <2>1, <2>2 DEF Matches
<1>5. Reached(a, s, D, c) => Reached(a, s, D, d)
  BY <1>4, Zenon DEF Reached
<1>. QED
  BY <1>1, <1>2, <1>5

(* The end of phase 1: the signals without a trusted seed are read again.  *)
LEMMA EnterPhase2Preserves ==
  ASSUME FstInv, EnterPhase2
  PROVE  FstInv'
<1>. DEFINE ch == file.changes
            open == {s \in ask.slots : NeedsPhase2(col[s])}
<1>1. /\ phase = "phase1" /\ phase' = "phase2" /\ file' = file /\ ask' = ask
      /\ suspect' = suspect /\ traces' = traces
      /\ feed.frame = {} /\ feed.changes = {}
      /\ col' = [s \in ask.slots |-> [col[s] EXCEPT !.demoted = s \in open]]
      /\ feed' = IF open = {} THEN feed ELSE Emissions(0, p1_start, open)
  BY DEF EnterPhase2, NoMore
<1>2. /\ Open /\ Chronicle(ch) /\ WellAsked(ask) /\ Len(ch) \in Nat /\ Len(ch) \in 0..Len(ch)
      /\ \A i \in 1..Len(ch) : ch[i].tick \in Nat
  <2>1. Open
    BY DEF FstInv, Typed
  <2>2. Len(ch) \in Nat /\ Chronicle(ch) /\ WellAsked(ask) /\ \A i \in 1..Len(ch) : ch[i].tick \in Nat
    BY <2>1, FileFacts
  <2>. QED
    BY <2>1, <2>2
<1>3. PICK S, p : Phase1At(ch, ask, feed, col, S, p)
  BY <1>1 DEF FstInv, Phase1Inv
<1>4. /\ traces = None
      /\ feed \in [frame : SUBSET Echoes(ask.slots),
                  changes : SUBSET {i \in 1..Len(ch) : ch[i].sid \in ask.slots}]
      /\ col \in [ask.slots -> Collector]
  BY <1>1 DEF FstInv, Typed, Phase1Inv
<1>5. /\ Selection(ch, ask, S) /\ p \in 0..Len(ch) /\ \A j \in S : ~(p < j)
      /\ \A s \in ask.slots : Collecting(ch, ask, s, S, p, col[s])
  BY <1>1, <1>3 DEF Phase1At
<1>6. ASSUME NEW s \in ask.slots
      PROVE  /\ col'[s] \in Collector
             /\ col'[s].demoted <=> s \in open
             /\ Reseeding(ch, ask, s, 0, col'[s])
             /\ HeldIn(ch, ask, s, col'[s])
  <2>. DEFINE c == col[s]
              d == col'[s]
  <2>1. c \in Collector /\ c.seed2 = None /\ Collecting(ch, ask, s, S, p, c)
    BY <1>5 DEF Collecting
  <2>2. d = [c EXCEPT !.demoted = s \in open]
    BY <1>1
  <2>3. (s \in open) \in BOOLEAN /\ (s \in open <=> NeedsPhase2(c))
    OBVIOUS
  <2>4. /\ d \in Collector /\ d.win = c.win /\ d.seed = c.seed /\ d.seed_suspect = c.seed_suspect
        /\ d.seed2 = None /\ (d.demoted <=> s \in open)
    BY <2>1, <2>2, <2>3 DEF Collector
  <2>5. /\ WindowIs(ch, ask, s, Len(ch), c)
        /\ Proper(ask) => Reached(ask, s, Decoded(ch, s)[Len(ch)], c)
    BY <1>2, <1>5, <2>1, LastCollects
  <2>. HIDE DEF d, c
  <2>6. /\ NeedsPhase2(d) <=> NeedsPhase2(c)
        /\ WindowIs(ch, ask, s, Len(ch), d)
        /\ Proper(ask) => Reached(ask, s, Decoded(ch, s)[Len(ch)], d)
    BY <2>4, <2>5, AlikeCollects
  <2>7. SeedIs(ch, s, ask.from, 0, d.seed2)
    BY <2>4 DEF SeedIs
  <2>8. Reseeding(ch, ask, s, 0, d)
    BY <2>3, <2>4, <2>6, <2>7 DEF Reseeding, d, c
  <2>9. HeldIn(ch, ask, s, d)
    BY <2>3, <2>4, <2>6 DEF HeldIn
  <2>. QED
    BY <2>4, <2>8, <2>9 DEF d
<1>. DEFINE again == {i \in 1..Len(ch) : ch[i].tick <= ask.from /\ ch[i].sid \in open}
<1>7. feed'.frame = {} /\ feed'.changes = again /\ feed' = [frame |-> {}, changes |-> again]
  <2>1. CASE open = {}
    <3>1. again = {} /\ feed' = feed
      BY <1>1, <2>1
    <3>. QED
      BY <1>1, <1>4, <3>1
  <2>2. CASE open # {}
    <3>1. feed' = Emissions(0, p1_start, open)
      BY <1>1, <2>2
    <3>2. /\ Emissions(0, p1_start, open).frame = {}
          /\ Emissions(0, p1_start, open).changes = again
      BY <1>2, Rereads
    <3>3. Emissions(0, p1_start, open) = [frame |-> Emissions(0, p1_start, open).frame,
                                         changes |-> Emissions(0, p1_start, open).changes]
      BY DEF Emissions
    <3>. QED
      BY <3>1, <3>2, <3>3
  <2>. QED
    BY <2>1, <2>2
<1>8. again \in SUBSET {i \in 1..Len(ch) : ch[i].sid \in ask.slots}
  OBVIOUS
<1>9. col' \in [ask.slots -> Collector]
  BY <1>1, <1>6
<1>10. Typed'
  <2>1. feed' \in [frame : SUBSET Echoes(ask.slots),
                   changes : SUBSET {i \in 1..Len(ch) : ch[i].sid \in ask.slots}]
    BY <1>7, <1>8
  <2>2. Open' /\ phase' \in {"phase1", "phase2", "done"} /\ suspect' \in Nat \cup {None}
    BY <1>1, <1>2 DEF FstInv, Typed, Open
  <2>. QED
    BY <1>1, <1>9, <2>1, <2>2 DEF Typed
<1>11. Held'
  BY <1>1, <1>6 DEF Held
<1>12. Phase2At(ch, ask, feed', col', 0)
  <2>1. 0 \in 0..Len(ch)
    BY <1>2
  <2>2. again = {i \in 1..Len(ch) : /\ ch[i].tick <= ask.from /\ ch[i].sid \in ask.slots
                                   /\ col'[ch[i].sid].demoted /\ 0 < i}
    <3>1. \A i \in 1..Len(ch) : 0 < i
      BY <1>2
    <3>2. \A s : s \in open <=> s \in ask.slots /\ col'[s].demoted
      BY <1>6
    <3>. HIDE DEF open
    <3>. QED
      BY <3>1, <3>2
  <2>3. \A s \in ask.slots : Reseeding(ch, ask, s, 0, col'[s])
    BY <1>6
  <2>. HIDE DEF again
  <2>. QED
    BY <1>7, <2>1, <2>2, <2>3 DEF Phase2At
<1>13. Phase2Inv'
  <2>1. \E q : Phase2At(ch, ask, feed', col', q)
    BY <1>12
  <2>. QED
    BY <1>1, <1>4, <1>7, <2>1 DEF Phase2Inv
<1>14. Phase1Inv' /\ DoneInv'
  BY <1>1 DEF Phase1Inv, DoneInv
<1>. QED
  BY <1>10, <1>11, <1>13, <1>14 DEF FstInv

(* Positions that are no change of s before t leave its seed.              *)
LEMMA SeedStays ==
  ASSUME NEW ch, Len(ch) \in Nat, NEW s, NEW t, NEW p \in 0..Len(ch), NEW q \in p..Len(ch),
         NEW seed, SeedIs(ch, s, t, p, seed),
         \A m \in 1..q : p < m => ~Before(ch, s, t, m)
  PROVE  SeedIs(ch, s, t, q, seed)
<1>1. p \in Nat /\ q \in Nat /\ p <= q
  OBVIOUS
<1>2. \A m \in 1..q : Before(ch, s, t, m) => m \in 1..p
  BY <1>1
<1>3. CASE seed = None /\ \A m \in 1..p : ~Before(ch, s, t, m)
  BY <1>2, <1>3 DEF SeedIs
<1>4. CASE \E j \in 1..p :
             /\ Before(ch, s, t, j) /\ seed = Entry(ch[j])
             /\ \A m \in 1..p : Before(ch, s, t, m) => m <= j
  <2>1. PICK j \in 1..p :
             /\ Before(ch, s, t, j) /\ seed = Entry(ch[j])
             /\ \A m \in 1..p : Before(ch, s, t, m) => m <= j
    BY <1>4
  <2>2. j \in 1..q /\ \A m \in 1..q : Before(ch, s, t, m) => m <= j
    BY <1>1, <1>2, <2>1
  <2>. QED
    BY <2>1, <2>2 DEF SeedIs
<1>. QED
  BY <1>3, <1>4 DEF SeedIs

(* Phase 2 comes to position q, and finds a seed there or none.            *)
LEMMA ReseedingGoes ==
  ASSUME NEW ch, Chronicle(ch), NEW a, WellAsked(a), NEW s, NEW p \in 0..Len(ch),
         NEW q \in p..Len(ch), NEW c, Reseeding(ch, a, s, p, c),
         c.demoted => \A m \in 1..q : p < m => ~Before(ch, s, a.from, m)
  PROVE  Reseeding(ch, a, s, q, c)
<1>1. Len(ch) \in Nat
  BY ChronicleFacts
<1>2. ASSUME c.demoted PROVE SeedIs(ch, s, a.from, q, c.seed2)
  <2>1. SeedIs(ch, s, a.from, p, c.seed2)
    BY <1>2 DEF Reseeding
  <2>2. \A m \in 1..q : p < m => ~Before(ch, s, a.from, m)
    BY <1>2
  <2>. QED
    BY <1>1, <2>1, <2>2, SeedStays
<1>. QED
  BY <1>2 DEF Reseeding

LEMMA Reseeds ==
  ASSUME NEW ch, Chronicle(ch), NEW a, WellAsked(a), NEW s, NEW p \in 0..Len(ch), NEW c,
         Reseeding(ch, a, s, p, c), c.demoted,
         NEW q \in 1..Len(ch), p < q, Before(ch, s, a.from, q),
         NEW d, d = [c EXCEPT !.seed2 = Entry(ch[q])]
  PROVE  Reseeding(ch, a, s, q, d)
<1>1. /\ c \in Collector /\ (c.demoted <=> NeedsPhase2(c)) /\ WindowIs(ch, a, s, Len(ch), c)
      /\ Proper(a) => Reached(a, s, Decoded(ch, s)[Len(ch)], c)
  BY DEF Reseeding
<1>2. Len(ch) \in Nat /\ Entry(ch[q]) \in Changes
  BY ChronicleFacts
<1>3. /\ d \in Collector /\ d.win = c.win /\ d.seed = c.seed /\ d.seed_suspect = c.seed_suspect
      /\ d.demoted = c.demoted /\ d.seed2 = Entry(ch[q])
  BY <1>1, <1>2 DEF Collector
<1>4. /\ NeedsPhase2(d) <=> NeedsPhase2(c)
      /\ WindowIs(ch, a, s, Len(ch), d)
      /\ Proper(a) => Reached(a, s, Decoded(ch, s)[Len(ch)], d)
  BY <1>1, <1>3, AlikeCollects
<1>5. SeedIs(ch, s, a.from, q, d.seed2)
  <2>1. q \in 1..q /\ \A m \in 1..q : m <= q
    BY <1>2
  <2>. QED
    BY <1>3, <2>1 DEF SeedIs
<1>. QED
  BY <1>1, <1>3, <1>4, <1>5 DEF Reseeding

(* A collector of phase 2 holds what a collector always does.              *)
LEMMA ReseedingHeld ==
  ASSUME NEW ch, Chronicle(ch), NEW a, NEW s, NEW p \in 0..Len(ch), NEW c,
         Reseeding(ch, a, s, p, c)
  PROVE  c \in Collector /\ HeldIn(ch, a, s, c)
<1>1. /\ c \in Collector /\ (c.demoted <=> NeedsPhase2(c)) /\ WindowIs(ch, a, s, Len(ch), c)
      /\ c.demoted \in BOOLEAN
  BY CollectorFacts DEF Reseeding
<1>2. ASSUME c.seed2 # None PROVE c.demoted /\ c.seed2.tick <= a.from
  <2>1. c.demoted /\ SeedIs(ch, s, a.from, p, c.seed2)
    BY <1>2 DEF Reseeding
  <2>2. PICK j \in 1..p : Before(ch, s, a.from, j) /\ c.seed2 = Entry(ch[j])
    BY <1>2, <2>1 DEF SeedIs
  <2>. QED
    BY <2>1, <2>2 DEF Before, Entry
<1>. QED
  BY <1>1, <1>2 DEF HeldIn

(* One callback of phase 2.                                                *)
LEMMA Emission2Preserves ==
  ASSUME FstInv, Emission2
  PROVE  FstInv'
<1>. DEFINE ch == file.changes
            i == First(feed.changes)
            t == ch[i].sid
<1>1. /\ phase = "phase2" /\ phase' = "phase2" /\ file' = file /\ ask' = ask
      /\ suspect' = suspect /\ traces' = traces
  BY DEF Emission2
<1>2. /\ Open /\ Chronicle(ch) /\ WellAsked(ask) /\ Len(ch) \in Nat
      /\ \A j \in 1..Len(ch) : ch[j].tick \in Nat /\ Entry(ch[j]) \in Changes
  <2>1. Open
    BY DEF FstInv, Typed
  <2>2. Len(ch) \in Nat /\ Chronicle(ch) /\ WellAsked(ask) /\ \A j \in 1..Len(ch) : ch[j].tick \in Nat
    BY <2>1, FileFacts
  <2>. QED
    BY <2>1, <2>2, ChronicleFacts
<1>3. PICK p : Phase2At(ch, ask, feed, col, p)
  BY <1>1 DEF FstInv, Phase2Inv
<1>4. /\ traces = None /\ feed.frame = {}
      /\ feed \in [frame : SUBSET Echoes(ask.slots),
                  changes : SUBSET {j \in 1..Len(ch) : ch[j].sid \in ask.slots}]
      /\ col \in [ask.slots -> Collector]
  BY <1>1 DEF FstInv, Typed, Phase2Inv
<1>5. /\ p \in 0..Len(ch) /\ p \in Nat
      /\ feed.changes = {j \in 1..Len(ch) : /\ ch[j].tick <= ask.from /\ ch[j].sid \in ask.slots
                                           /\ col[ch[j].sid].demoted /\ p < j}
      /\ \A s \in ask.slots : Reseeding(ch, ask, s, p, col[s])
  BY <1>3 DEF Phase2At
<1>6. /\ feed.changes # {} /\ feed' = [feed EXCEPT !.changes = @ \ {i}]
      /\ col' = IF ch[i].tick <= ask.from THEN [col EXCEPT ![t].seed2 = Entry(ch[i])] ELSE col
  BY <1>4 DEF Emission2, Deliver
<1>7. i \in feed.changes /\ \A j \in feed.changes : i <= j
  <2>1. feed.changes \in SUBSET Nat
    BY <1>2, <1>4
  <2>2. \E k \in feed.changes : \A j \in feed.changes : k <= j
    BY <1>6, <2>1, FirstExists
  <2>. QED
    BY <2>2 DEF First
<1>. HIDE DEF i
<1>8. /\ i \in 1..Len(ch) /\ i \in Nat /\ ch[i].tick <= ask.from /\ t \in ask.slots
      /\ col[t].demoted /\ p < i /\ i \in p..Len(ch) /\ i \in 0..Len(ch)
  BY <1>2, <1>5, <1>7
<1>9. /\ \A s \in ask.slots : s # t => col'[s] = col[s]
      /\ col'[t] = [col[t] EXCEPT !.seed2 = Entry(ch[i])]
      /\ col' = [col EXCEPT ![t] = [col[t] EXCEPT !.seed2 = Entry(ch[i])]]
  BY <1>4, <1>6, <1>8
<1>10. Reseeding(ch, ask, t, i, col'[t])
  <2>1. Reseeding(ch, ask, t, p, col[t]) /\ Before(ch, t, ask.from, i)
    BY <1>5, <1>8 DEF Before
  <2>. QED
    BY <1>2, <1>5, <1>8, <1>9, <2>1, Reseeds
<1>11. ASSUME NEW s \in ask.slots, s # t PROVE Reseeding(ch, ask, s, i, col'[s])
  <2>1. Reseeding(ch, ask, s, p, col[s])
    BY <1>5
  <2>2. ASSUME col[s].demoted, NEW m \in 1..i, p < m PROVE ~Before(ch, s, ask.from, m)
    <3>1. SUFFICES ASSUME Before(ch, s, ask.from, m) PROVE FALSE
      OBVIOUS
    <3>2. m \in 1..Len(ch) /\ m \in Nat /\ m <= i
      BY <1>2, <1>8
    <3>3. m \in feed.changes
      BY <1>5, <2>2, <3>1, <3>2 DEF Before
    <3>4. m = i
      BY <1>7, <1>8, <3>2, <3>3
    <3>. QED
      BY <1>11, <3>1, <3>4 DEF Before
  <2>3. Reseeding(ch, ask, s, i, col[s])
    BY <1>2, <1>5, <1>8, <2>1, <2>2, ReseedingGoes
  <2>. QED
    BY <1>9, <1>11, <2>3
<1>12. \A s \in ask.slots : Reseeding(ch, ask, s, i, col'[s])
  BY <1>10, <1>11
<1>13. /\ feed'.frame = {} /\ feed'.changes = feed.changes \ {i}
       /\ feed' \in [frame : SUBSET Echoes(ask.slots),
                    changes : SUBSET {j \in 1..Len(ch) : ch[j].sid \in ask.slots}]
  BY <1>4, <1>6
<1>14. ASSUME NEW s \in ask.slots PROVE col'[s] \in Collector /\ HeldIn(ch, ask, s, col'[s])
  BY <1>2, <1>8, <1>12, ReseedingHeld
<1>15. col' \in [ask.slots -> Collector]
  <2>1. DOMAIN col' = ask.slots /\ col' = [s \in ask.slots |-> col'[s]]
    BY <1>4, <1>9
  <2>. QED
    BY <1>14, <2>1
<1>16. \A s \in ask.slots : col'[s].demoted = col[s].demoted
  <2>1. col[t] \in Collector
    BY <1>4, <1>8
  <2>2. col'[t].demoted = col[t].demoted
    BY <1>9, <2>1 DEF Collector
  <2>. QED
    BY <1>9, <2>2
<1>17. feed'.changes = {j \in 1..Len(ch) : /\ ch[j].tick <= ask.from /\ ch[j].sid \in ask.slots
                                          /\ col'[ch[j].sid].demoted /\ i < j}
  <2>1. \A j \in feed.changes : j # i <=> i < j
    BY <1>2, <1>5, <1>7, <1>8
  <2>2. \A j \in 1..Len(ch) : i < j => p < j
    BY <1>2, <1>5, <1>8
  <2>. QED
    BY <1>5, <1>13, <1>16, <2>1, <2>2
<1>18. Phase2At(ch, ask, feed', col', i)
  BY <1>8, <1>12, <1>17 DEF Phase2At
<1>19. Phase2Inv'
  <2>1. \E q : Phase2At(ch, ask, feed', col', q)
    BY <1>18
  <2>. QED
    BY <1>1, <1>4, <1>13, <2>1 DEF Phase2Inv
<1>20. Typed'
  <2>1. Open' /\ phase' \in {"phase1", "phase2", "done"} /\ suspect' \in Nat \cup {None}
    BY <1>1, <1>2 DEF FstInv, Typed, Open
  <2>. QED
    BY <1>1, <1>13, <1>15, <2>1 DEF Typed
<1>21. Held'
  BY <1>1, <1>14 DEF Held
<1>22. Phase1Inv' /\ DoneInv'
  BY <1>1 DEF Phase1Inv, DoneInv
<1>. QED
  BY <1>19, <1>20, <1>21, <1>22 DEF FstInv

(* The traces are put together when phase 2 has nothing left to deliver.   *)
LEMMA AssemblePreserves ==
  ASSUME FstInv, Assemble
  PROVE  FstInv'
<1>. DEFINE ch == file.changes
            n == Len(ch)
<1>1. /\ phase = "phase2" /\ phase' = "done" /\ file' = file /\ ask' = ask
      /\ suspect' = suspect /\ feed' = feed /\ col' = col
      /\ feed.changes = {}
      /\ traces' = [s \in ask.slots |-> Finish(s)]
  BY DEF Assemble, NoMore
<1>2. /\ Open /\ Chronicle(ch) /\ WellAsked(ask) /\ n \in Nat
      /\ \A j \in 1..n : ch[j].tick \in Nat
  <2>1. Open
    BY DEF FstInv, Typed
  <2>. QED
    BY <2>1, FileFacts
<1>3. PICK p : Phase2At(ch, ask, feed, col, p)
  BY <1>1 DEF FstInv, Phase2Inv
<1>4. /\ p \in 0..n /\ p \in Nat /\ n \in p..n
      /\ feed.changes = {j \in 1..n : /\ ch[j].tick <= ask.from /\ ch[j].sid \in ask.slots
                                     /\ col[ch[j].sid].demoted /\ p < j}
      /\ \A s \in ask.slots : Reseeding(ch, ask, s, p, col[s])
  BY <1>2, <1>3 DEF Phase2At
<1>5. ASSUME NEW s \in ask.slots
      PROVE  /\ Finish(s) \in Seq(Changes)
             /\ Proper(ask) => Agrees(ch, ask, s, Finish(s))
  <2>1. ASSUME col[s].demoted, NEW m \in 1..n, p < m PROVE ~Before(ch, s, ask.from, m)
    BY <1>1, <1>4, <2>1 DEF Before
  <2>2. Reseeding(ch, ask, s, n, col[s])
    BY <1>2, <1>4, <2>1, ReseedingGoes
  <2>. QED
    BY <1>2, <2>2, FinishShortens DEF Agrees
<1>6. DoneInv'
  <2>1. traces' \in [ask.slots -> Seq(Changes)]
    BY <1>1, <1>5
  <2>2. \A s \in ask.slots : Proper(ask) => Agrees(ch, ask, s, traces'[s])
    BY <1>1, <1>5
  <2>. QED
    BY <1>1, <2>1, <2>2 DEF DoneInv
<1>7. Typed' /\ Held'
  BY <1>1 DEF FstInv, Typed, Open, Held
<1>8. Phase1Inv' /\ Phase2Inv'
  BY <1>1 DEF Phase1Inv, Phase2Inv
<1>. QED
  BY <1>6, <1>7, <1>8 DEF FstInv

(* The caller decodes in full when the seeking decode gives up.            *)
LEMMA FallbackPreserves ==
  ASSUME FstInv, Fallback
  PROVE  FstInv'
<1>. DEFINE ch == file.changes
<1>1. /\ phase' = "done" /\ file' = file /\ ask' = ask
      /\ suspect' = suspect /\ feed' = feed /\ col' = col
      /\ traces' = [s \in ask.slots |-> FullDecode(s)]
  BY DEF Fallback
<1>2. Chronicle(ch) /\ Len(ch) \in Nat /\ Len(ch) \in 0..Len(ch)
  <2>1. Open
    BY DEF FstInv, Typed
  <2>2. Chronicle(ch) /\ Len(ch) \in Nat
    BY <2>1, FileFacts
  <2>. QED
    BY <2>2
<1>3. \A s : FullDecode(s) = Decoded(ch, s)[Len(ch)] /\ FullDecode(s) \in Seq(Changes)
  BY <1>2, DecodeTold DEF Told, FullDecode
<1>4. DoneInv'
  <2>1. traces' \in [ask.slots -> Seq(Changes)]
    BY <1>1, <1>3
  <2>2. \A s \in ask.slots : Agrees(ch, ask, s, traces'[s])
    BY <1>1, <1>3 DEF Agrees
  <2>. QED
    BY <1>1, <2>1, <2>2 DEF DoneInv
<1>5. Typed' /\ Held'
  BY <1>1 DEF FstInv, Typed, Open, Held
<1>6. Phase1Inv' /\ Phase2Inv'
  BY <1>1 DEF Phase1Inv, Phase2Inv
<1>. QED
  BY <1>4, <1>5, <1>6 DEF FstInv

LEMMA StepPreserves == FstInv /\ [Next]_vars => FstInv'
<1>. SUFFICES ASSUME FstInv, [Next]_vars PROVE FstInv'
  OBVIOUS
<1>1. CASE Emission1
  BY <1>1, Emission1Preserves
<1>2. CASE EnterPhase2
  BY <1>2, EnterPhase2Preserves
<1>3. CASE Emission2
  BY <1>3, Emission2Preserves
<1>4. CASE Assemble
  BY <1>4, AssemblePreserves
<1>5. CASE Fallback
  BY <1>5, FallbackPreserves
<1>6. CASE UNCHANGED vars
  BY <1>6 DEF vars, FstInv, Typed, Open, Held, Phase1Inv, Phase2Inv, DoneInv
<1>. QED
  BY <1>1, <1>2, <1>3, <1>4, <1>5, <1>6 DEF Next

(* The seeking decode keeps its invariant in every behaviour: a collector  *)
(* of phase 1 follows the full decode of its signal position by position,  *)
(* and phase 2 finds the seeds phase 1 could not trust (fst_window.rs).    *)
THEOREM FstInvariant == Spec => []FstInv
<1>. QED
  BY InitEstablishes, StepPreserves, PTL DEF Spec

-----------------------------------------------------------------------------

LEMMA InvariantSplits == FstInv => IInv
<1>. SUFFICES ASSUME FstInv PROVE IInv
  OBVIOUS
<1>. DEFINE ch == file.changes
<1>1. Open /\ DOMAIN ch = 1..Len(ch) /\ ask.from \in Nat
  BY FileFacts DEF FstInv, Typed, WellAsked
<1>2. TypeOK
  <2>1. traces # None => traces \in [ask.slots -> Seq(Changes)]
    BY DEF FstInv, Typed, Phase1Inv, Phase2Inv, DoneInv
  <2>2. /\ feed.frame \subseteq [tick : Nat, sid : ask.slots, val : Value \cup {Unknown}]
        /\ feed.changes \subseteq {i \in DOMAIN ch : ch[i].sid \in ask.slots}
    BY <1>1 DEF FstInv, Typed, Echoes
  <2>. QED
    BY <1>1, <2>1, <2>2 DEF FstInv, Typed, Open, TypeOK
<1>3. ASSUME NEW s \in ask.slots
      PROVE  LET c == col[s]
             IN  /\ c.seed # None => c.seed.tick <= ask.from
                 /\ c.seed2 # None => c.demoted /\ c.seed2.tick <= ask.from
                 /\ c.demoted => NeedsPhase2(c)
                 /\ \A i \in DOMAIN c.win :
                      /\ ask.from < c.win[i].tick
                      /\ ask.to # Unbounded => c.win[i].tick <= ask.to
                      /\ c.win[i].tick \in time_table
                 /\ \A i \in 1..(Len(c.win) - 1) :
                      /\ c.win[i].tick <= c.win[i + 1].tick
                      /\ s \notin EventSid => c.win[i].val # c.win[i + 1].val
  <2>. DEFINE c == col[s]
  <2>1. HeldIn(ch, ask, s, c) /\ c \in Collector
    BY DEF FstInv, Typed, Held
  <2>2. WindowIs(ch, ask, s, Len(ch), c) /\ DOMAIN c.win = 1..Len(c.win)
    BY <2>1, CollectorFacts DEF HeldIn
  <2>3. ASSUME NEW i \in 1..Len(c.win)
        PROVE  /\ ask.from < c.win[i].tick
               /\ ask.to # Unbounded => c.win[i].tick <= ask.to
               /\ c.win[i].tick \in time_table
    <3>1. PICK j \in 1..Len(ch) : c.win[i] = Entry(ch[j]) /\ InWindow(ch, ask, j)
      BY <2>2 DEF WindowIs
    <3>2. c.win[i].tick = ch[j].tick
      BY <3>1 DEF Entry
    <3>. QED
      BY <1>1, <3>1, <3>2 DEF InWindow, time_table
  <2>4. c.seed # None => c.seed.tick <= ask.from
    BY <2>2 DEF WindowIs
  <2>5. \A i \in 1..(Len(c.win) - 1) :
          /\ c.win[i].tick <= c.win[i + 1].tick
          /\ s \notin EventSid => c.win[i].val # c.win[i + 1].val
    BY <2>2 DEF WindowIs
  <2>. QED
    BY <2>1, <2>2, <2>3, <2>4, <2>5 DEF HeldIn
<1>. QED
  BY <1>2, <1>3 DEF IInv, CollectorsAreSplit

(* At every emission the collectors are split at `from`: seeds at or       *)
(* before it, the window inside (from, to], in order and alternating, made *)
(* of the file's own changes and never of a frame echo, and a phase 2 seed *)
(* only where phase 1 left none to trust (fst_window.rs Collector).        *)
THEOREM CollectorsStaySplit == Spec => []IInv
<1>. QED
  BY FstInvariant, InvariantSplits, PTL

(* The window of a request that is not empty, and of one that is.          *)
LEMMA UpperFacts ==
  ASSUME Open, NEW s, NEW F, F = FullDecode(s)
  PROVE  /\ Upper \in Nat /\ F \in Seq(Changes) /\ ask.from \in Nat
         /\ F = Decoded(file.changes, s)[Len(file.changes)]
         /\ ask.to # Unbounded => Upper = ask.to
         /\ Proper(ask) => \A n \in 1..Len(F) : F[n].tick <= Upper <=> ~Past(ask, F[n].tick)
         /\ ~Proper(ask) => Upper < ask.from
<1>. DEFINE ch == file.changes
<1>1. /\ Chronicle(ch) /\ WellAsked(ask) /\ Len(ch) \in Nat /\ Len(ch) \in 0..Len(ch)
      /\ file_end \in Nat /\ \A i \in 1..Len(ch) : ch[i].tick \in Nat /\ ch[i].tick <= file_end
      /\ \A i \in 1..Len(ch) : Entry(ch[i]).tick = ch[i].tick
  <2>1. Len(ch) \in Nat /\ Chronicle(ch)
    BY FileFacts
  <2>. QED
    BY <2>1, FileFacts, ChronicleFacts
<1>2. ask.from \in Nat /\ ask.to \in Nat \cup {Unbounded}
  BY <1>1 DEF WellAsked
<1>3. F = Decoded(ch, s)[Len(ch)]
  BY DEF FullDecode
<1>4. /\ F \in Seq(Changes)
      /\ \A n \in 1..Len(F) : \E j \in 1..Len(ch) : F[n] = Entry(ch[j])
  <2>1. Told(ch, s, Len(ch))
    BY <1>1, DecodeTold
  <2>. QED
    BY <1>3, <2>1 DEF Told
<1>. HIDE <1>3
<1>5. /\ Upper \in Nat
      /\ ask.to # Unbounded => Upper = ask.to
      /\ ask.to = Unbounded => file_end <= Upper
  BY <1>1, <1>2 DEF Upper, Larger
<1>6. ASSUME Proper(ask), NEW n \in 1..Len(F) PROVE F[n].tick <= Upper <=> ~Past(ask, F[n].tick)
  <2>1. PICK j \in 1..Len(ch) : F[n] = Entry(ch[j])
    BY <1>4
  <2>2. F[n].tick \in Nat /\ F[n].tick <= file_end
    BY <1>1, <2>1
  <2>3. CASE ask.to = Unbounded
    BY <1>1, <1>5, <2>2, <2>3 DEF Past
  <2>4. CASE ask.to # Unbounded
    <3>1. Upper = ask.to /\ ask.to \in Nat
      BY <1>2, <1>5, <2>4
    <3>. QED
      BY <2>2, <2>4, <3>1 DEF Past
  <2>. QED
    BY <2>3, <2>4
<1>7. ~Proper(ask) => Upper < ask.from
  BY <1>2, <1>5 DEF Proper
<1>. QED
  BY <1>2, <1>3, <1>4, <1>5, <1>6, <1>7

LEMMA InvariantAgrees == FstInv => SameAsFullDecode
<1>. SUFFICES ASSUME FstInv, phase = "done" PROVE SameAsFullDecode
  BY DEF SameAsFullDecode, SameValues, SameChangesInside
<1>1. Open /\ WellAsked(ask) /\ traces \in [ask.slots -> Seq(Changes)]
  BY FileFacts DEF FstInv, Typed, DoneInv
<1>2. ASSUME NEW s \in ask.slots
      PROVE  /\ \A t \in ask.from..Upper : ValueIn(traces[s], t) = ValueIn(FullDecode(s), t)
             /\ Inside(traces[s]) = Inside(FullDecode(s))
  <2>. DEFINE F == FullDecode(s)
              T == traces[s]
  <2>1. T \in Seq(Changes)
    BY <1>1
  <2>2. /\ Upper \in Nat /\ F \in Seq(Changes) /\ ask.from \in Nat
        /\ F = Decoded(file.changes, s)[Len(file.changes)]
        /\ ask.to # Unbounded => Upper = ask.to
        /\ Proper(ask) => \A n \in 1..Len(F) : F[n].tick <= Upper <=> ~Past(ask, F[n].tick)
        /\ ~Proper(ask) => Upper < ask.from
    BY <1>1, UpperFacts
  <2>. HIDE DEF F, T
  <2>3. CASE ~Proper(ask)
    <3>1. ask.from..Upper = {}
      BY <2>2, <2>3
    <3>2. ASSUME NEW X \in Seq(Changes) PROVE Inside(X) = << >>
      <4>1. ASSUME NEW i \in DOMAIN X PROVE ~(ask.from < X[i].tick /\ X[i].tick <= Upper)
        <5>1. X[i] \in Changes
          BY <3>2
        <5>2. X[i].tick \in Nat
          BY <5>1 DEF Changes
        <5>. QED
          BY <2>2, <2>3, <5>2
      <4>. QED
        BY <4>1 DEF Inside
    <3>. QED
      BY <2>1, <2>2, <3>1, <3>2 DEF F, T
  <2>4. CASE Proper(ask) /\ T = F
    BY <2>4 DEF F, T
  <2>5. CASE Proper(ask) /\ T # F
    <3>1. Shortens(ask, F, T)
      <4>1. Agrees(file.changes, ask, s, T)
        BY <2>5 DEF FstInv, DoneInv, T
      <4>. QED
        BY <2>2, <2>5, <4>1 DEF Agrees
    <3>2. ASSUME NEW t \in ask.from..Upper PROVE ValueIn(T, t) = ValueIn(F, t)
      <4>1. t \in Nat /\ ask.from <= t /\ (ask.to # Unbounded => t <= ask.to)
        BY <2>2
      <4>. QED
        BY <1>1, <2>1, <2>2, <3>1, <4>1, ShortensTells
    <3>3. Inside(T) = Inside(F)
      BY <1>1, <2>1, <2>2, <2>5, <3>1, ShortensLists
    <3>. QED
      BY <3>2, <3>3 DEF F, T
  <2>. QED
    BY <2>3, <2>4, <2>5
<1>. QED
  BY <1>2 DEF SameAsFullDecode, SameValues, SameChangesInside

(* Whatever the file, its sections and the window, and whether the decode  *)
(* seeks or falls back: inside the window its traces give each signal the  *)
(* values of the full decode, and list the full decode's changes there     *)
(* (fst_window.rs, wellen_backend.rs load_traces_windowed).                *)
THEOREM WindowedMatchesFull == Spec => []SameAsFullDecode
<1>. QED
  BY FstInvariant, InvariantAgrees, PTL

=============================================================================
