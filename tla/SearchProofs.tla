----------------------------- MODULE SearchProofs -----------------------------
(***************************************************************************)
(* A search answers what its command line says: for every file, condition, *)
(* list of shown names, window and limit, the rows of a level search are   *)
(* the maximal runs of the window, those of an event search the ticks at   *)
(* which a clause fires, the earliest ones if the limit cuts them.         *)
(*                                                                         *)
(* A value at a tick is what the last change at or before it left          *)
(* (ValueAppend), so the collector's state after a position of its stream  *)
(* is the state at every tick up to the next change (NowIsThen), and what  *)
(* it has listed are the runs that have ended (SpansInv), or the firings   *)
(* of the ticks that have passed (EdgesInv).                               *)
(***************************************************************************)
EXTENDS Search, SequenceTheorems, FiniteSetTheorems, WellFoundedInduction, TLAPS

(***************************************************************************)
(* Induction up to n, over a set of numbers.                               *)
(***************************************************************************)
LEMMA UpTo ==
  ASSUME NEW n \in Nat, NEW S, 0 \in S, \A i \in 1..n : i - 1 \in S => i \in S
  PROVE  \A i \in 0..n : i \in S
<1>. DEFINE Missing == {i \in Nat : i \in 0..n /\ i \notin S}
<1>1. SUFFICES ASSUME NEW j \in 0..n, j \notin S PROVE FALSE
  OBVIOUS
<1>2. j \in Missing
  BY <1>1
<1>3. PICK k \in Missing : \A r \in Missing : ~(<<r, k>> \in OpToRel(<, Nat))
  BY <1>2, NatLessThanWellFounded, WFMin
<1>4. k \in Nat /\ k \in 0..n /\ k \notin S
  OBVIOUS
<1>5. k # 0
  BY <1>4
<1>6. k \in 1..n /\ k - 1 \in 0..n /\ k - 1 \in Nat /\ k - 1 < k
  BY <1>4, <1>5
<1>7. k - 1 \notin S
  BY <1>4, <1>6
<1>8. k - 1 \in Missing
  BY <1>6, <1>7
<1>9. <<k - 1, k>> \in OpToRel(<, Nat)
  BY <1>4, <1>6 DEF OpToRel
<1>. QED
  BY <1>3, <1>8, <1>9

(* A set of positions has a last one, and a first one.                     *)
LEMMA LastExists ==
  ASSUME NEW n \in Nat, NEW S \in SUBSET (1..n), S # {}
  PROVE  \E k \in S : \A j \in S : j <= k
<1>. DEFINE Away == {i \in Nat : i <= n /\ n - i \in S}
<1>1. PICK x : x \in S
  OBVIOUS
<1>2. n - x \in Away
  <2>1. x \in 1..n
    BY <1>1
  <2>2. n - x \in Nat /\ n - x <= n /\ n - (n - x) = x
    BY <2>1
  <2>. QED
    BY <1>1, <2>2
<1>3. PICK k \in Away : \A r \in Away : ~(<<r, k>> \in OpToRel(<, Nat))
  BY <1>2, NatLessThanWellFounded, WFMin
<1>4. k \in Nat /\ k <= n /\ n - k \in S
  OBVIOUS
<1>5. ASSUME NEW j \in S PROVE j <= n - k
  <2>1. j \in 1..n
    OBVIOUS
  <2>2. n - j \in Nat /\ n - j <= n /\ n - (n - j) = j
    BY <2>1
  <2>3. n - j \in Away
    BY <2>2
  <2>4. ~(n - j < k)
    <3>1. ~(<<n - j, k>> \in OpToRel(<, Nat))
      BY <1>3, <2>3
    <3>. QED
      BY <1>4, <2>2, <3>1 DEF OpToRel
  <2>. QED
    BY <1>4, <2>1, <2>2, <2>4
<1>. QED
  BY <1>4, <1>5

LEMMA FirstExists ==
  ASSUME NEW S \in SUBSET Nat, S # {}
  PROVE  \E k \in S : \A j \in S : k <= j
<1>1. PICK k \in S : \A r \in S : ~(<<r, k>> \in OpToRel(<, Nat))
  BY NatLessThanWellFounded, WFMin
<1>2. ASSUME NEW j \in S PROVE k <= j
  <2>1. j \in Nat /\ k \in Nat
    OBVIOUS
  <2>2. ~(j < k)
    <3>1. ~(<<j, k>> \in OpToRel(<, Nat))
      BY <1>1
    <3>. QED
      BY <2>1, <3>1 DEF OpToRel
  <2>. QED
    BY <2>1, <2>2
<1>. QED
  BY <1>2

(* The beginning of a sequence.                                            *)
Upto(st, p) == SubSeq(st, 1, p)

LEMMA UptoFacts ==
  ASSUME NEW S, NEW st \in Seq(S)
  PROVE  /\ Upto(st, 0) = << >>
         /\ Upto(st, Len(st)) = st
         /\ \A p \in 0..Len(st) : Upto(st, p) \in Seq(S) /\ Len(Upto(st, p)) = p
         /\ \A p \in 0..Len(st) : \A i \in 1..p : Upto(st, p)[i] = st[i]
         /\ \A p \in 1..Len(st) : Upto(st, p) = Append(Upto(st, p - 1), st[p])
<1>1. Len(st) \in Nat /\ \A i \in 1..Len(st) : st[i] \in S
  OBVIOUS
<1>2. Upto(st, 0) = << >>
  BY SubSeqEmpty DEF Upto
<1>3. Upto(st, Len(st)) = st
  BY SubSeqFull DEF Upto
<1>4. ASSUME NEW p \in 0..Len(st)
      PROVE  /\ Upto(st, p) \in Seq(S) /\ Len(Upto(st, p)) = p
             /\ \A i \in 1..p : Upto(st, p)[i] = st[i]
  <2>1. \A j \in 1..p : st[j] \in S
    BY <1>1
  <2>2. Upto(st, p) \in Seq(S)
    BY <1>1, <2>1, SubSeqProperties DEF Upto
  <2>3. Len(Upto(st, p)) = p
    BY <1>1, <2>1, SubSeqProperties DEF Upto
  <2>4. \A i \in 1..p : Upto(st, p)[i] = st[i]
    BY <1>1, <2>1, SubSeqProperties DEF Upto
  <2>. QED
    BY <2>2, <2>3, <2>4
<1>5. ASSUME NEW p \in 1..Len(st) PROVE Upto(st, p) = Append(Upto(st, p - 1), st[p])
  <2>1. 1 \in 1..Len(st) /\ p \in 1..Len(st) /\ p - 1 \in 0..Len(st)
    BY <1>1
  <2>2. Upto(st, p) = Upto(st, p - 1) \o <<st[p]>>
    BY <2>1, SubSeqRecursiveSecond DEF Upto
  <2>3. Upto(st, p - 1) \in Seq(S) /\ st[p] \in S
    BY <1>1, <1>4, <2>1
  <2>4. Append(Upto(st, p - 1), st[p]) = Upto(st, p - 1) \o <<st[p]>>
    BY <2>3, AppendIsConcat
  <2>. QED
    BY <2>2, <2>4
<1>. QED
  BY <1>2, <1>3, <1>4, <1>5

-----------------------------------------------------------------------------
(* The value a stream leaves at a tick.                                    *)

(* The positions of a stream at which s is changed by tick t.              *)
Told(st, s, t) == {i \in DOMAIN st : st[i].sid = s /\ st[i].tick <= t}
LastOf(S) == CHOOSE i \in S : \A j \in S : j <= i

LEMMA ValueDef ==
  ASSUME NEW st, NEW s, NEW t
  PROVE  ValueAt(st, s, t) = IF Told(st, s, t) = {} THEN Undef ELSE st[LastOf(Told(st, s, t))].val
BY DEF ValueAt, Told, LastOf

LEMMA LastOfIs ==
  ASSUME NEW n \in Nat, NEW S \in SUBSET (1..n), S # {}
  PROVE  LastOf(S) \in S /\ \A j \in S : j <= LastOf(S)
BY LastExists DEF LastOf

LEMMA ValueEmpty == ASSUME NEW s, NEW t PROVE ValueAt(<< >>, s, t) = Undef
<1>1. Told(<< >>, s, t) = {}
  BY DEF Told
<1>. QED
  BY <1>1, ValueDef

LEMMA ValueAppend ==
  ASSUME NEW x \in Seq(Change), NEW e \in Change, NEW s, NEW t \in Nat
  PROVE  ValueAt(Append(x, e), s, t)
         = IF e.sid = s /\ e.tick <= t THEN e.val ELSE ValueAt(x, s, t)
<1>. DEFINE n == Len(x)
            y == Append(x, e)
            T == Told(x, s, t)
            U == Told(y, s, t)
<1>1. n \in Nat /\ Len(y) = n + 1 /\ y[n + 1] = e /\ \A i \in 1..n : y[i] = x[i]
  OBVIOUS
<1>2. DOMAIN x = 1..n /\ DOMAIN y = 1..(n + 1)
  <2>1. y \in Seq(Change)
    OBVIOUS
  <2>2. DOMAIN y = 1..Len(y)
    BY <2>1
  <2>. QED
    BY <1>1, <2>2
<1>. HIDE DEF n, y
<1>3. T \in SUBSET (1..n) /\ U \in SUBSET (1..(n + 1))
  BY <1>2 DEF Told
<1>4. \A i \in 1..n : i \in U <=> i \in T
  BY <1>1, <1>2 DEF Told
<1>5. n + 1 \in U <=> e.sid = s /\ e.tick <= t
  BY <1>1, <1>2 DEF Told
<1>6. ValueAt(y, s, t) = IF U = {} THEN Undef ELSE y[LastOf(U)].val
  BY ValueDef
<1>7. ValueAt(x, s, t) = IF T = {} THEN Undef ELSE x[LastOf(T)].val
  BY ValueDef
<1>. HIDE DEF T, U
<1>8. CASE e.sid = s /\ e.tick <= t
  <2>1. n + 1 \in U /\ U # {}
    BY <1>5, <1>8
  <2>. DEFINE m == n + 1
  <2>2. m \in Nat /\ U \in SUBSET (1..m) /\ m \in U
    BY <1>1, <1>3, <2>1
  <2>. HIDE DEF m
  <2>3. LastOf(U) \in U /\ \A j \in U : j <= LastOf(U)
    BY <2>1, <2>2, LastOfIs
  <2>4. LastOf(U) \in 1..m /\ m <= LastOf(U)
    BY <2>2, <2>3
  <2>5. LastOf(U) = m
    BY <2>2, <2>4
  <2>6. LastOf(U) = n + 1
    BY <2>5 DEF m
  <2>. QED
    BY <1>1, <1>6, <1>8, <2>1, <2>6 DEF y
<1>9. CASE ~(e.sid = s /\ e.tick <= t)
  <2>1. U = T
    <3>1. n + 1 \notin U
      BY <1>5, <1>9
    <3>2. \A i \in U : i \in 1..n
      BY <1>1, <1>3, <3>1
    <3>. QED
      BY <1>3, <1>4, <3>2
  <2>2. CASE T = {}
    BY <1>6, <1>7, <1>9, <2>1, <2>2 DEF y
  <2>3. CASE T # {}
    <3>1. LastOf(T) \in 1..n
      BY <1>1, <1>3, <2>3, LastOfIs
    <3>2. y[LastOf(T)] = x[LastOf(T)]
      BY <1>1, <3>1
    <3>. QED
      BY <1>6, <1>7, <1>9, <2>1, <2>3, <3>2 DEF y
  <2>. QED
    BY <2>2, <2>3
<1>. QED
  BY <1>8, <1>9

LEMMA ValueType ==
  ASSUME NEW st \in Seq(Change), NEW s, NEW t
  PROVE  ValueAt(st, s, t) \in Value \cup {Undef}
<1>. DEFINE T == Told(st, s, t)
<1>1. T \in SUBSET (1..Len(st)) /\ Len(st) \in Nat
  BY DEF Told
<1>2. ValueAt(st, s, t) = IF T = {} THEN Undef ELSE st[LastOf(T)].val
  BY ValueDef
<1>. HIDE DEF T
<1>3. CASE T # {}
  <2>1. LastOf(T) \in 1..Len(st)
    BY <1>1, <1>3, LastOfIs
  <2>2. st[LastOf(T)] \in Change
    BY <2>1
  <2>. QED
    BY <1>2, <1>3, <2>2 DEF Change
<1>. QED
  BY <1>2, <1>3

(* No later change of the stream counts at an earlier tick.                *)
LEMMA ValueOfBeginning ==
  ASSUME NEW st \in Seq(Change), NEW p \in 0..Len(st), NEW s, NEW t \in Nat,
         \A i \in (p + 1)..Len(st) : ~(st[i].tick <= t)
  PROVE  ValueAt(st, s, t) = ValueAt(Upto(st, p), s, t)
<1>. DEFINE n == Len(st)
            m == n - p
            S == {k \in 0..m : ValueAt(Upto(st, p + k), s, t) = ValueAt(Upto(st, p), s, t)}
<1>1. n \in Nat /\ p \in Nat /\ m \in Nat /\ p + m = n
  OBVIOUS
<1>2. 0 \in S
  BY <1>1
<1>3. ASSUME NEW k \in 1..m, k - 1 \in S PROVE k \in S
  <2>1. p + k \in 1..n /\ p + k - 1 = p + (k - 1) /\ p + (k - 1) \in 0..n /\ p + k \in (p + 1)..n
        /\ k \in 0..m
    BY <1>1
  <2>2. Upto(st, p + k) = Append(Upto(st, p + (k - 1)), st[p + k])
    BY <2>1, UptoFacts
  <2>3. Upto(st, p + (k - 1)) \in Seq(Change)
    BY <2>1, UptoFacts
  <2>4. st[p + k] \in Change /\ ~(st[p + k].tick <= t)
    BY <2>1
  <2>5. ValueAt(Upto(st, p + k), s, t) = ValueAt(Upto(st, p + (k - 1)), s, t)
    <3>. DEFINE x == Upto(st, p + (k - 1))
                e == st[p + k]
    <3>1. x \in Seq(Change) /\ e \in Change /\ ~(e.tick <= t) /\ Upto(st, p + k) = Append(x, e)
      BY <2>2, <2>3, <2>4
    <3>. HIDE DEF x, e
    <3>2. ValueAt(Append(x, e), s, t) = ValueAt(x, s, t)
      BY <3>1, ValueAppend
    <3>. QED
      BY <3>1, <3>2 DEF x
  <2>. QED
    BY <1>3, <2>1, <2>5
<1>4. m \in S
  <2>. HIDE DEF S, m
  <2>1. \A k \in 0..m : k \in S
    BY <1>1, <1>2, <1>3, UpTo
  <2>. QED
    BY <1>1, <2>1
<1>5. Upto(st, p + m) = st
  BY <1>1, UptoFacts
<1>. QED
  BY <1>4, <1>5

(* Two ticks a stream does not tell apart.                                 *)
LEMMA ValueAtEither ==
  ASSUME NEW st \in Seq(Change), NEW s, NEW t, NEW u,
         \A i \in 1..Len(st) : st[i].tick <= t <=> st[i].tick <= u
  PROVE  ValueAt(st, s, t) = ValueAt(st, s, u)
<1>1. Told(st, s, t) = Told(st, s, u)
  BY DEF Told
<1>. QED
  BY <1>1, ValueDef

-----------------------------------------------------------------------------
(* What the collectors are given of the file.                              *)

Loaded(e, t1, sids) == e.tick <= t1 /\ e.sid \in sids
Taken(x, e, t1, sids) == IF e.tick <= t1 /\ e.sid \in sids THEN Append(x, e) ELSE x

BufferedUp(upto, t1, sids, n) ==
  /\ DOMAIN upto = 0..n
  /\ upto[0] = << >>
  /\ \A i \in 1..n : upto[i] = Taken(upto[i - 1], file[i], t1, sids)

LEMMA BufferedPositions ==
  ASSUME NEW t1, NEW sids, Len(file) \in Nat
  PROVE  \E upto : BufferedUp(upto, t1, sids, Len(file)) /\ Buffered(t1, sids) = upto[Len(file)]
<1>. DEFINE n == Len(file)
            Run(g, m) == g = [i \in 0..m |-> IF i = 0 THEN << >> ELSE Taken(g[i - 1], file[i], t1, sids)]
            S == {m \in 0..n : \E g : Run(g, m)}
<1>1. 0 \in S
  <2>1. Run([i \in 0..0 |-> << >>], 0)
    OBVIOUS
  <2>. HIDE DEF Run
  <2>2. \E g : Run(g, 0)
    BY <2>1
  <2>. QED
    BY <2>2
<1>2. ASSUME NEW m \in 1..n, m - 1 \in S PROVE m \in S
  <2>1. PICK g : Run(g, m - 1)
    BY <1>2
  <2>. DEFINE h == [i \in 0..m |-> IF i < m THEN g[i] ELSE Taken(g[m - 1], file[m], t1, sids)]
  <2>2. ASSUME NEW i \in 0..m
        PROVE  h[i] = IF i = 0 THEN << >> ELSE Taken(h[i - 1], file[i], t1, sids)
    <3>1. CASE i = 0
      <4>1. h[0] = g[0]
        OBVIOUS
      <4>2. g[0] = << >>
        BY <2>1
      <4>. QED
        BY <3>1, <4>1, <4>2
    <3>2. CASE i \in 1..(m - 1)
      <4>1. i \in 0..(m - 1) /\ i # 0 /\ i - 1 \in 0..m /\ i - 1 < m /\ i < m
        BY <3>2
      <4>2. h[i] = g[i] /\ h[i - 1] = g[i - 1]
        BY <4>1
      <4>3. g[i] = Taken(g[i - 1], file[i], t1, sids)
        BY <2>1, <4>1
      <4>. QED
        BY <4>1, <4>2, <4>3
    <3>3. CASE i = m
      <4>1. h[m] = Taken(g[m - 1], file[m], t1, sids)
        OBVIOUS
      <4>2. h[m - 1] = g[m - 1]
        OBVIOUS
      <4>. QED
        BY <3>3, <4>1, <4>2
    <3>. QED
      BY <3>1, <3>2, <3>3
  <2>3. h = [i \in 0..m |-> h[i]]
    OBVIOUS
  <2>. HIDE DEF h
  <2>4. h = [i \in 0..m |-> IF i = 0 THEN << >> ELSE Taken(h[i - 1], file[i], t1, sids)]
    BY <2>2, <2>3
  <2>5. Run(h, m)
    BY <2>4
  <2>. HIDE DEF Run
  <2>6. \E f : Run(f, m)
    BY <2>5
  <2>. QED
    BY <2>6
<1>3. n \in S
  <2>. HIDE DEF S
  <2>1. \A i \in 0..n : i \in S
    BY <1>1, <1>2, UpTo
  <2>. QED
    BY <2>1
<1>4. \E g : Run(g, n)
  BY <1>3
<1>5. PICK g : Run(g, n) /\ Buffered(t1, sids) = g[n]
  <2>1. Run(CHOOSE g : Run(g, n), n)
    BY <1>4
  <2>2. Buffered(t1, sids) = (CHOOSE g : Run(g, n))[n]
    BY DEF Buffered, Taken
  <2>. QED
    BY <2>1, <2>2
<1>6. BufferedUp(g, t1, sids, n)
  <2>1. DOMAIN g = 0..n
    BY <1>5
  <2>2. \A i \in 0..n : g[i] = IF i = 0 THEN << >> ELSE Taken(g[i - 1], file[i], t1, sids)
    BY <1>5, Zenon
  <2>3. g[0] = << >>
    BY <2>2
  <2>4. \A i \in 1..n : i \in 0..n /\ i # 0
    OBVIOUS
  <2>5. \A i \in 1..n : g[i] = Taken(g[i - 1], file[i], t1, sids)
    BY <2>2, <2>4, Zenon
  <2>. QED
    BY <2>1, <2>3, <2>5 DEF BufferedUp
<1>. QED
  BY <1>5, <1>6

(* The changes of a file up to a position that are loaded, each in x, and  *)
(* nothing else in x.                                                      *)
Holding(x, i, t1, sids) ==
  /\ x \in Seq(Change)
  /\ ByTick(x)
  /\ \A j \in 1..Len(x) : Loaded(x[j], t1, sids) /\ \E k \in 1..i : x[j] = file[k]
  /\ \A k \in 1..i : Loaded(file[k], t1, sids) => \E j \in 1..Len(x) : x[j] = file[k]

LEMMA TakenHolds ==
  ASSUME NEW t1 \in Nat, NEW sids, file \in Seq(Change), ByTick(file), NEW i \in 1..Len(file),
         NEW x, Holding(x, i - 1, t1, sids)
  PROVE  Holding(Taken(x, file[i], t1, sids), i, t1, sids)
<1>. DEFINE e == file[i]
            n == Len(x)
            y == Append(x, e)
<1>1. x \in Seq(Change) /\ e \in Change /\ n \in Nat /\ i \in Nat /\ DOMAIN x = 1..n
      /\ DOMAIN file = 1..Len(file)
  BY DEF Holding
<1>2. \A j \in 1..n : Loaded(x[j], t1, sids) /\ \E k \in 1..(i - 1) : x[j] = file[k]
  BY DEF Holding
<1>3. \A k \in 1..(i - 1) : Loaded(file[k], t1, sids) => \E j \in 1..n : x[j] = file[k]
  BY DEF Holding
<1>4. \A j, k \in 1..n : j <= k => x[j].tick <= x[k].tick
  BY <1>1 DEF Holding, ByTick
<1>5. 1..i = 1..(i - 1) \cup {i} /\ i \in 1..i
  BY <1>1
<1>6. CASE ~Loaded(e, t1, sids)
  <2>1. Taken(x, e, t1, sids) = x
    BY <1>6 DEF Taken, Loaded
  <2>2. \A j \in 1..n : Loaded(x[j], t1, sids) /\ \E k \in 1..i : x[j] = file[k]
    BY <1>2, <1>5
  <2>3. \A k \in 1..i : Loaded(file[k], t1, sids) => \E j \in 1..n : x[j] = file[k]
    BY <1>3, <1>5, <1>6
  <2>. QED
    BY <2>1, <2>2, <2>3 DEF Holding
<1>7. CASE Loaded(e, t1, sids)
  <2>1. Taken(x, e, t1, sids) = y
    BY <1>7 DEF Taken, Loaded
  <2>2. y \in Seq(Change) /\ Len(y) = n + 1 /\ y[n + 1] = e /\ \A j \in 1..n : y[j] = x[j]
    BY <1>1
  <2>3. 1..(n + 1) = 1..n \cup {n + 1} /\ n + 1 \in 1..(n + 1)
    BY <1>1
  <2>. HIDE DEF y, e
  <2>4. \A j \in 1..(n + 1) : Loaded(y[j], t1, sids) /\ \E k \in 1..i : y[j] = file[k]
    BY <1>2, <1>5, <1>7, <2>2, <2>3 DEF e
  <2>5. \A k \in 1..i : Loaded(file[k], t1, sids) => \E j \in 1..(n + 1) : y[j] = file[k]
    <3>1. ASSUME NEW k \in 1..i, Loaded(file[k], t1, sids) PROVE \E j \in 1..(n + 1) : y[j] = file[k]
      <4>1. CASE k \in 1..(i - 1)
        <5>1. PICK j \in 1..n : x[j] = file[k]
          BY <1>3, <3>1, <4>1
        <5>. QED
          BY <2>2, <2>3, <5>1
      <4>2. CASE k = i
        BY <2>2, <2>3, <4>2 DEF e
      <4>. QED
        BY <1>5, <4>1, <4>2
    <3>. QED
      BY <3>1
  <2>6. \A j \in 1..n : x[j].tick <= e.tick
    <3>1. ASSUME NEW j \in 1..n PROVE x[j].tick <= e.tick
      <4>1. PICK k \in 1..(i - 1) : x[j] = file[k]
        BY <1>2
      <4>2. k \in DOMAIN file /\ i \in DOMAIN file /\ k <= i
        BY <1>1
      <4>3. file[k].tick <= file[i].tick
        BY <4>2 DEF ByTick
      <4>. QED
        BY <4>1, <4>3 DEF e
    <3>. QED
      BY <3>1
  <2>7. ByTick(y)
    <3>1. DOMAIN y = 1..(n + 1)
      BY <2>2
    <3>2. e.tick \in Nat
      BY <1>1 DEF Change
    <3>3. ASSUME NEW j \in 1..(n + 1), NEW k \in 1..(n + 1), j <= k PROVE y[j].tick <= y[k].tick
      <4>1. CASE k \in 1..n
        <5>1. j \in 1..n
          BY <1>1, <3>3, <4>1
        <5>. QED
          BY <1>4, <2>2, <3>3, <4>1, <5>1
      <4>2. CASE k = n + 1 /\ j \in 1..n
        BY <2>2, <2>6, <4>2
      <4>3. CASE k = n + 1 /\ j = n + 1
        BY <2>2, <3>2, <4>3
      <4>. QED
        BY <2>3, <4>1, <4>2, <4>3
    <3>. QED
      BY <3>1, <3>3 DEF ByTick
  <2>8. Holding(y, i, t1, sids)
    BY <2>2, <2>4, <2>5, <2>7 DEF Holding
  <2>. QED
    BY <2>1, <2>8 DEF e
<1>. QED
  BY <1>6, <1>7

LEMMA BufferedHolds ==
  ASSUME NEW t1 \in Nat, NEW sids, file \in Seq(Change), ByTick(file)
  PROVE  /\ Holding(Buffered(t1, sids), Len(file), t1, sids)
         /\ \A s \in sids, t \in 0..t1 : ValueAt(Buffered(t1, sids), s, t) = ValueAt(file, s, t)
<1>. DEFINE n == Len(file)
<1>1. n \in Nat /\ \A i \in 1..n : file[i] \in Change
  OBVIOUS
<1>2. PICK upto : BufferedUp(upto, t1, sids, n) /\ Buffered(t1, sids) = upto[n]
  BY <1>1, BufferedPositions
<1>. DEFINE S == {i \in 0..n : Holding(upto[i], i, t1, sids)}
<1>3. 0 \in S
  <2>1. upto[0] = << >> /\ 0 \in 0..n
    BY <1>1, <1>2 DEF BufferedUp
  <2>2. Holding(<< >>, 0, t1, sids)
    BY DEF Holding, ByTick
  <2>. QED
    BY <2>1, <2>2
<1>4. ASSUME NEW i \in 1..n, i - 1 \in S PROVE i \in S
  <2>1. upto[i] = Taken(upto[i - 1], file[i], t1, sids) /\ i \in 0..n
    BY <1>1, <1>2 DEF BufferedUp
  <2>2. Holding(upto[i - 1], i - 1, t1, sids)
    BY <1>4
  <2>3. Holding(upto[i], i, t1, sids)
    BY <2>1, <2>2, TakenHolds
  <2>. QED
    BY <2>1, <2>3
<1>5. \A i \in 0..n : Holding(upto[i], i, t1, sids)
  <2>. HIDE DEF S
  <2>1. \A i \in 0..n : i \in S
    BY <1>1, <1>3, <1>4, UpTo
  <2>. QED
    BY <2>1 DEF S
<1>6. ASSUME NEW s \in sids, NEW t \in 0..t1 PROVE ValueAt(upto[n], s, t) = ValueAt(file, s, t)
  <2>. DEFINE W == {i \in 0..n : ValueAt(upto[i], s, t) = ValueAt(Upto(file, i), s, t)}
  <2>1. 0 \in W
    <3>1. upto[0] = << >> /\ Upto(file, 0) = << >> /\ 0 \in 0..n
      BY <1>1, <1>2, UptoFacts DEF BufferedUp
    <3>. QED
      BY <3>1
  <2>2. ASSUME NEW i \in 1..n, i - 1 \in W PROVE i \in W
    <3>. DEFINE x == upto[i - 1]
                z == Upto(file, i - 1)
                e == file[i]
    <3>1. upto[i] = Taken(x, e, t1, sids) /\ i \in 0..n /\ i - 1 \in 0..n
      BY <1>1, <1>2 DEF BufferedUp
    <3>2. Upto(file, i) = Append(z, e) /\ z \in Seq(Change) /\ e \in Change
      BY <1>1, <3>1, UptoFacts
    <3>3. x \in Seq(Change)
      BY <1>5, <3>1 DEF Holding
    <3>4. ValueAt(x, s, t) = ValueAt(z, s, t)
      BY <2>2
    <3>5. t \in Nat /\ t <= t1
      OBVIOUS
    <3>. HIDE DEF x, z, e
    <3>6. ValueAt(Append(z, e), s, t) = IF e.sid = s /\ e.tick <= t THEN e.val ELSE ValueAt(z, s, t)
      BY <3>2, <3>5, ValueAppend
    <3>7. ValueAt(Append(x, e), s, t) = IF e.sid = s /\ e.tick <= t THEN e.val ELSE ValueAt(x, s, t)
      BY <3>2, <3>3, <3>5, ValueAppend
    <3>8. ValueAt(Taken(x, e, t1, sids), s, t) = ValueAt(Append(z, e), s, t)
      <4>1. CASE Loaded(e, t1, sids)
        BY <3>4, <3>6, <3>7, <4>1 DEF Taken, Loaded
      <4>2. CASE ~Loaded(e, t1, sids)
        <5>1. e.tick \in Nat
          BY <3>2 DEF Change
        <5>2. ~(e.sid = s /\ e.tick <= t)
          BY <3>5, <4>2, <5>1 DEF Loaded
        <5>3. Taken(x, e, t1, sids) = x
          BY <4>2 DEF Taken, Loaded
        <5>. QED
          BY <3>4, <3>6, <5>2, <5>3
      <4>. QED
        BY <4>1, <4>2
    <3>. QED
      BY <3>1, <3>2, <3>8
  <2>3. n \in W
    <3>. HIDE DEF W
    <3>1. \A i \in 0..n : i \in W
      BY <1>1, <2>1, <2>2, UpTo
    <3>. QED
      BY <1>1, <3>1
  <2>4. Upto(file, n) = file
    BY UptoFacts
  <2>. QED
    BY <2>3, <2>4
<1>. QED
  BY <1>1, <1>2, <1>5, <1>6

-----------------------------------------------------------------------------
(* What the setup makes of the line.                                       *)

Cond == line.condition
Query ==
  [clauses |-> clauses, show |-> show_sids, t0 |-> line.begin, t1 |-> search_end_time,
   limit |-> line.limit, events |-> changed_sids # {}]

(* Terms of one key are one term, clauses of one key one clause.           *)
LEMMA KeyDecides ==
  ASSUME NEW t \in Term, NEW u \in Term, term_key(t) = term_key(u)
  PROVE  Resolved(t) = Resolved(u)
<1>1. t.changed \in BOOLEAN /\ u.changed \in BOOLEAN
  BY DEF Term
<1>. DEFINE a == SidOf(t.name)
            b == SidOf(u.name)
            x == IF t.changed THEN "" ELSE t.text
            y == IF u.changed THEN "" ELSE u.text
<1>2. <<a, t.changed, x>> = <<b, u.changed, y>>
  BY DEF term_key
<1>3. a = b /\ t.changed = u.changed /\ x = y
  <2>. HIDE DEF a, b, x, y
  <2>. QED
    BY <1>2
<1>4. (IF t.changed THEN {} ELSE Accepts[t.text]) = (IF u.changed THEN {} ELSE Accepts[u.text])
  BY <1>3
<1>. QED
  BY <1>3, <1>4 DEF Resolved

LEMMA ClauseResolved ==
  ASSUME NEW cl \in Seq(Term)
  PROVE  resolve_conditions(cl) = {Resolved(cl[i]) : i \in DOMAIN cl}
<1>1. DOMAIN cl \subseteq Nat /\ DOMAIN cl = 1..Len(cl) /\ Len(cl) \in Nat
      /\ \A i \in DOMAIN cl : cl[i] \in Term
  OBVIOUS
<1>2. ASSUME NEW i \in DOMAIN cl
      PROVE  \E j \in {k \in DOMAIN cl : \A h \in 1 .. k - 1 : term_key(cl[h]) # term_key(cl[k])} :
               Resolved(cl[i]) = Resolved(cl[j])
  <2>. DEFINE K == {k \in DOMAIN cl : term_key(cl[k]) = term_key(cl[i])}
  <2>1. K \in SUBSET Nat /\ K # {}
    BY <1>1
  <2>2. PICK j \in K : \A k \in K : j <= k
    BY <2>1, FirstExists
  <2>3. ASSUME NEW h \in 1 .. j - 1 PROVE term_key(cl[h]) # term_key(cl[j])
    <3>1. h \in DOMAIN cl /\ ~(j <= h)
      BY <1>1, <2>2
    <3>2. h \notin K
      BY <2>2, <3>1
    <3>. QED
      BY <2>2, <3>1, <3>2
  <2>4. Resolved(cl[i]) = Resolved(cl[j])
    BY <1>1, <2>2, KeyDecides
  <2>. QED
    BY <2>2, <2>3, <2>4
<1>. QED
  BY <1>2 DEF resolve_conditions

(* The line in hand, with what is assumed of it.                           *)
LineOk ==
  /\ line \in Lines
  /\ Cond \in Seq(Seq(Term))
  /\ \A i \in DOMAIN Cond : Cond[i] \in Seq(Term) /\ \A j \in DOMAIN Cond[i] : Cond[i][j] \in Term

LEMMA LinesAreOk == line \in Lines => LineOk
<1>. SUFFICES ASSUME line \in Lines PROVE LineOk
  OBVIOUS
<1>1. Cond \in Seq(Seq(Term))
  BY SearchAssumption DEF Cond
<1>2. ASSUME NEW i \in DOMAIN Cond
      PROVE  Cond[i] \in Seq(Term) /\ \A j \in DOMAIN Cond[i] : Cond[i][j] \in Term
  <2>1. Cond[i] \in Seq(Term)
    BY <1>1
  <2>. QED
    BY <2>1
<1>. QED
  BY <1>1, <1>2 DEF LineOk

LEMMA ClausesResolved ==
  ASSUME LineOk
  PROVE  clauses = {{Resolved(Cond[i][j]) : j \in DOMAIN Cond[i]} : i \in DOMAIN Cond}
<1>. DEFINE R(i) == {Resolved(Cond[i][j]) : j \in DOMAIN Cond[i]}
            key(i) == clause_key(Cond[i])
<1>1. DOMAIN Cond \subseteq Nat /\ DOMAIN Cond = 1..Len(Cond) /\ Len(Cond) \in Nat
  BY DEF LineOk
<1>2. \A i \in DOMAIN Cond : resolve_conditions(Cond[i]) = R(i)
  BY ClauseResolved DEF LineOk
<1>3. ASSUME NEW i \in DOMAIN Cond, NEW k \in DOMAIN Cond, key(i) = key(k) PROVE R(i) = R(k)
  <2>1. ASSUME NEW a \in DOMAIN Cond, NEW b \in DOMAIN Cond, key(a) = key(b), NEW u \in R(a)
        PROVE  u \in R(b)
    <3>1. PICK j \in DOMAIN Cond[a] : u = Resolved(Cond[a][j])
      OBVIOUS
    <3>2. term_key(Cond[a][j]) \in key(b)
      BY <2>1 DEF clause_key
    <3>3. PICK m \in DOMAIN Cond[b] : term_key(Cond[b][m]) = term_key(Cond[a][j])
      BY <3>2 DEF clause_key
    <3>4. Resolved(Cond[b][m]) = Resolved(Cond[a][j])
      BY <3>3, KeyDecides DEF LineOk
    <3>. QED
      BY <3>1, <3>4
  <2>. HIDE DEF R, key
  <2>. QED
    BY <1>3, <2>1
<1>4. ASSUME NEW i \in DOMAIN Cond
      PROVE  \E j \in {k \in DOMAIN Cond : \A h \in 1 .. k - 1 : key(h) # key(k)} : R(i) = R(j)
  <2>. DEFINE K == {k \in DOMAIN Cond : key(k) = key(i)}
  <2>. HIDE DEF key, R
  <2>1. K \in SUBSET Nat /\ K # {}
    BY <1>1
  <2>2. PICK j \in K : \A k \in K : j <= k
    BY <2>1, FirstExists
  <2>3. ASSUME NEW h \in 1 .. j - 1 PROVE key(h) # key(j)
    <3>1. h \in DOMAIN Cond /\ ~(j <= h)
      BY <1>1, <2>2
    <3>2. h \notin K
      BY <2>2, <3>1
    <3>. QED
      BY <2>2, <3>1, <3>2
  <2>4. R(i) = R(j)
    BY <1>3, <2>2
  <2>. QED
    BY <2>2, <2>3, <2>4
<1>. DEFINE First == {j \in DOMAIN Cond : \A k \in 1 .. j - 1 : key(k) # key(j)}
<1>5. clauses = {resolve_conditions(Cond[i]) : i \in First}
  BY DEF clauses, Cond
<1>6. {resolve_conditions(Cond[i]) : i \in First} = {R(i) : i \in DOMAIN Cond}
  <2>. HIDE DEF R, key
  <2>. QED
    BY <1>2, <1>4
<1>. QED
  BY <1>5, <1>6

LEMMA TermsAre ==
  ASSUME NEW t
  PROVE  t \in Terms <=> \E i \in DOMAIN Cond : \E j \in DOMAIN Cond[i] : t = Cond[i][j]
BY DEF Terms, Cond

LEMMA TermsResolved ==
  ASSUME LineOk, NEW u
  PROVE  u \in UNION clauses <=> \E t \in Terms : u = Resolved(t)
<1>. DEFINE R(i) == {Resolved(Cond[i][j]) : j \in DOMAIN Cond[i]}
<1>1. clauses = {R(i) : i \in DOMAIN Cond}
  BY ClausesResolved
<1>2. u \in UNION clauses <=> \E i \in DOMAIN Cond : u \in R(i)
  <2>. HIDE DEF R
  <2>. QED
    BY <1>1
<1>3. \A t : t \in Terms <=> \E i \in DOMAIN Cond : \E j \in DOMAIN Cond[i] : t = Cond[i][j]
  BY TermsAre
<1>. QED
  BY <1>2, <1>3

(* The typed words and the resolved clauses say the same.                  *)
LEMMA Meaning ==
  ASSUME LineOk, NEW values, NEW changed
  PROVE  Meant(values, changed) <=> any_clause_holds(values, changed, clauses)
<1>. DEFINE R(i) == {Resolved(Cond[i][j]) : j \in DOMAIN Cond[i]}
            typed(t) == IF t.changed THEN SidOf(t.name) \in changed
                                     ELSE values[SidOf(t.name)] \in Accepts[t.text]
            resolved(u) == IF u.changed THEN u.sid \in changed ELSE values[u.sid] \in u.accept
<1>1. clauses = {R(i) : i \in DOMAIN Cond}
  BY ClausesResolved
<1>2. any_clause_holds(values, changed, clauses) <=> \E i \in DOMAIN Cond : \A u \in R(i) : resolved(u)
  <2>1. any_clause_holds(values, changed, clauses) <=> \E cl \in clauses : \A u \in cl : resolved(u)
    BY DEF any_clause_holds, ClauseHolds
  <2>. HIDE DEF R, resolved
  <2>. QED
    BY <1>1, <2>1
<1>3. Meant(values, changed) <=> \E i \in DOMAIN Cond : \A j \in DOMAIN Cond[i] : typed(Cond[i][j])
  <2>1. Meant(values, changed)
        <=> \E i \in DOMAIN Cond : \A t \in {Cond[i][j] : j \in DOMAIN Cond[i]} : typed(t)
    BY DEF Meant, Cond
  <2>. HIDE DEF typed
  <2>. QED
    BY <2>1
<1>4. ASSUME NEW t \in Term PROVE typed(t) <=> resolved(Resolved(t))
  <2>1. t.changed \in BOOLEAN
    BY DEF Term
  <2>2. Resolved(t).sid = SidOf(t.name) /\ Resolved(t).changed = t.changed
        /\ Resolved(t).accept = IF t.changed THEN {} ELSE Accepts[t.text]
    BY DEF Resolved
  <2>. QED
    BY <2>1, <2>2
<1>5. ASSUME NEW i \in DOMAIN Cond
      PROVE  (\A u \in R(i) : resolved(u)) <=> \A j \in DOMAIN Cond[i] : typed(Cond[i][j])
  <2>1. \A j \in DOMAIN Cond[i] : Cond[i][j] \in Term
    BY DEF LineOk
  <2>. HIDE DEF typed, resolved
  <2>. QED
    BY <1>4, <2>1
<1>. HIDE DEF R, typed, resolved
<1>. QED
  BY <1>2, <1>3, <1>5

(* The signals of an answerable line are signals of the file.              *)
LEMMA SelectedAreSids ==
  ASSUME LineOk, Answerable
  PROVE  selected \subseteq Sid /\ show_sids \subseteq selected /\ changed_sids \subseteq selected
         /\ \A u \in UNION clauses : u.sid \in selected
<1>1. ASSUME NEW u \in UNION clauses PROVE u.sid \in Sid
  <2>1. PICK t \in Terms : u = Resolved(t)
    BY TermsResolved
  <2>2. t \in Term
    BY <2>1, TermsAre DEF LineOk
  <2>3. Cardinality(Found[t.name]) = 1
    BY <2>1 DEF Answerable, Resolves, Unique
  <2>4. Found[t.name] # {}
    BY <2>3, FS_EmptySet
  <2>5. SidOf(t.name) \in Found[t.name]
    BY <2>4 DEF SidOf
  <2>6. Found[t.name] \subseteq Sid
    BY <2>2, SearchAssumption DEF Term
  <2>. QED
    BY <2>1, <2>5, <2>6 DEF Resolved
<1>2. changed_sids \subseteq {u.sid : u \in UNION clauses}
  BY DEF changed_sids
<1>3. \A name \in line.show : Found[name] \subseteq Sid
  BY SearchAssumption DEF LineOk
<1>4. show_sids \subseteq Sid
  BY <1>1, <1>2, <1>3 DEF show_sids
<1>. QED
  BY <1>1, <1>2, <1>4 DEF selected

LEMMA ChangedSidsAre ==
  ASSUME LineOk
  PROVE  changed_sids = {SidOf(t.name) : t \in {u \in Terms : u.changed}}
<1>1. \A t : Resolved(t).sid = SidOf(t.name) /\ Resolved(t).changed = t.changed
  BY DEF Resolved
<1>2. \A u : u \in UNION clauses <=> \E t \in Terms : u = Resolved(t)
  BY TermsResolved
<1>3. changed_sids = {v.sid : v \in {u \in UNION clauses : u.changed}}
  BY DEF changed_sids
<1>. QED
  BY <1>1, <1>2, <1>3

LEMMA ShownAre ==
  ASSUME LineOk, q = Query, q # None
  PROVE  Shown = show_sids
<1>1. EventMode <=> changed_sids # {}
  BY DEF EventMode, Query
<1>2. changed_sids = {SidOf(t.name) : t \in {u \in Terms : u.changed}}
  BY ChangedSidsAre
<1>. DEFINE named == UNION {Found[name] : name \in line.show}
<1>3. Shown = named \cup IF line.show = {} /\ EventMode THEN changed_sids ELSE {}
  BY <1>2 DEF Shown
<1>4. show_sids = IF line.show = {} THEN changed_sids ELSE named
  BY DEF show_sids
<1>5. line.show = {} => named = {}
  OBVIOUS
<1>. HIDE DEF named
<1>. QED
  BY <1>1, <1>3, <1>4, <1>5

(* The clauses and the row look only at what is loaded.                    *)
LEMMA OnlySelectedCount ==
  ASSUME LineOk, Answerable, NEW v, NEW w, NEW c, NEW d,
         \A s \in selected : v[s] = w[s] /\ (s \in c <=> s \in d)
  PROVE  /\ any_clause_holds(v, c, clauses) <=> any_clause_holds(w, d, clauses)
         /\ show_values(v, show_sids) = show_values(w, show_sids)
<1>. DEFINE holds(x, y, u) == IF u.changed THEN u.sid \in y ELSE x[u.sid] \in u.accept
<1>1. ASSUME NEW u \in UNION clauses PROVE holds(v, c, u) <=> holds(w, d, u)
  BY SelectedAreSids
<1>2. \A x, y : any_clause_holds(x, y, clauses) <=> \E cl \in clauses : \A u \in cl : holds(x, y, u)
  BY DEF any_clause_holds, ClauseHolds
<1>3. \A cl \in clauses : \A u \in cl : u \in UNION clauses
  OBVIOUS
<1>. HIDE DEF holds
<1>4. any_clause_holds(v, c, clauses) <=> any_clause_holds(w, d, clauses)
  BY <1>1, <1>2, <1>3
<1>5. \A s \in show_sids : v[s] = w[s]
  BY SelectedAreSids
<1>6. show_values(v, show_sids) = show_values(w, show_sids)
  BY <1>5 DEF show_values
<1>. QED
  BY <1>4, <1>6

-----------------------------------------------------------------------------
(* The runs of a window, and a list of those that have ended.              *)

T0 == line.begin
T1 == search_end_time
M(t) == Meant(At(t), {})
V(t) == show_values(At(t), show_sids)

Like(a, b) == M(a) /\ M(b) /\ V(a) = V(b)

(* A run from f that goes on at tick k, and one that ends with l.          *)
Opening(f, k) ==
  /\ f \in T0..k
  /\ \A t \in f..k : Like(f, t)
  /\ f > T0 => ~Like(f - 1, f)

Run(f, l) ==
  /\ l \in T0..T1 /\ f \in T0..T1
  /\ Opening(f, l)
  /\ l < T1 => ~Like(l, l + 1)

Row(f, l) == [begin |-> f, end |-> IF l < T1 THEN l + 1 ELSE T1, values |-> V(f)]
Rows == {Row(w[1], w[2]) : w \in (T0..T1) \X (T0..T1)}

(* The rows are the runs that end before tick k, in order.                 *)
Lists(k, rows) ==
  /\ rows \in Seq(Rows)
  /\ \A i \in 1..Len(rows) : \E f, l \in T0..T1 : Run(f, l) /\ l < k /\ rows[i] = Row(f, l)
  /\ \A f, l \in T0..T1 : Run(f, l) /\ l < k => \E i \in 1..Len(rows) : rows[i] = Row(f, l)
  /\ \A i, j \in 1..Len(rows) : i < j => rows[i].begin < rows[j].begin

(* None is beyond the limit.                                               *)
Within(rows, limit, tot) == tot = Len(rows) /\ (limit = 0 \/ Len(rows) <= limit)

(* The rows are all the runs, or the earliest ones.                        *)
Finished(rows, limit, tot, cut) ==
  /\ rows \in Seq(Rows)
  /\ \A i \in 1..Len(rows) : \E f, l \in T0..T1 : Run(f, l) /\ rows[i] = Row(f, l)
  /\ \A i, j \in 1..Len(rows) : i < j => rows[i].begin < rows[j].begin
  /\ \A f, l \in T0..T1 : Run(f, l) => \/ \E i \in 1..Len(rows) : rows[i] = Row(f, l)
                                       \/ cut /\ \A i \in 1..Len(rows) : rows[i].begin < f
  /\ cut \in BOOLEAN
  /\ ~cut => tot = Len(rows)
  /\ cut => /\ limit # 0 /\ Len(rows) = limit /\ tot = Len(rows) + 1
            /\ \E f, l \in T0..T1 : Run(f, l) /\ \A i \in 1..Len(rows) : rows[i] # Row(f, l)

Times == T0 \in Nat /\ T1 \in Nat /\ T0 <= T1

LEMMA RowFields ==
  ASSUME NEW f, NEW l
  PROVE  Row(f, l).begin = f /\ Row(f, l).values = V(f)
         /\ Row(f, l).end = IF l < T1 THEN l + 1 ELSE T1
BY DEF Row

(* A run that has ended is over before one that goes on begins.            *)
LEMMA EndedBefore ==
  ASSUME Times, NEW f \in T0..T1, NEW l \in T0..T1, Run(f, l),
         NEW k \in T0..T1, l < k, NEW g, Opening(g, k)
  PROVE  l < g /\ f < g
<1>1. f \in Nat /\ l \in Nat /\ k \in Nat /\ g \in Nat /\ f <= l /\ l + 1 <= k /\ l < T1 /\ g <= k
  BY DEF Times, Run, Opening
<1>2. ~(g <= l)
  <2>1. SUFFICES ASSUME g <= l PROVE FALSE
    OBVIOUS
  <2>2. l \in g..k /\ l + 1 \in g..k
    BY <1>1, <2>1
  <2>3. Like(g, l) /\ Like(g, l + 1)
    BY <2>2 DEF Opening
  <2>4. Like(l, l + 1)
    BY <2>3 DEF Like
  <2>. QED
    BY <1>1, <2>4 DEF Run
<1>. QED
  BY <1>1, <1>2

(* Only one run goes on at a tick.                                         *)
LEMMA OneOpening ==
  ASSUME Times, NEW k \in T0..T1, NEW f, NEW g, Opening(f, k), Opening(g, k)
  PROVE  f = g
<1>1. f \in T0..k /\ g \in T0..k /\ k \in Nat /\ T0 \in Nat
  BY DEF Times, Opening
<1>2. ASSUME NEW a \in T0..k, NEW b \in T0..k, Opening(a, k), Opening(b, k) PROVE ~(a < b)
  <2>1. SUFFICES ASSUME a < b PROVE FALSE
    OBVIOUS
  <2>2. b - 1 \in a..k /\ b \in a..k /\ b > T0
    BY <1>1, <2>1
  <2>3. Like(a, b - 1) /\ Like(a, b)
    BY <1>2, <2>2 DEF Opening
  <2>4. Like(b - 1, b)
    BY <2>3 DEF Like
  <2>. QED
    BY <1>2, <2>2, <2>4 DEF Opening
<1>3. ~(f < g) /\ ~(g < f)
  BY <1>1, <1>2
<1>. QED
  BY <1>1, <1>3

LEMMA RowInRows ==
  ASSUME NEW f \in T0..T1, NEW l \in T0..T1
  PROVE  Row(f, l) \in Rows
<1>1. <<f, l>> \in (T0..T1) \X (T0..T1)
  OBVIOUS
<1>2. Row(f, l) = Row(<<f, l>>[1], <<f, l>>[2])
  OBVIOUS
<1>. QED
  BY <1>1, <1>2 DEF Rows

(* Every run that ends at k is the one listed next.                        *)
LEMMA RunListed ==
  ASSUME Times, NEW k \in T0..T1, NEW rows, Lists(k, rows), NEW g, Run(g, k)
  PROVE  Lists(k + 1, Append(rows, Row(g, k)))
<1>. DEFINE n == Len(rows)
            r == Row(g, k)
            more == Append(rows, r)
<1>1. g \in T0..T1 /\ Opening(g, k) /\ k \in Nat /\ g \in Nat
  BY DEF Run, Times
<1>2. rows \in Seq(Rows) /\ n \in Nat
  BY DEF Lists
<1>3. r \in Rows /\ r.begin = g
  BY <1>1, RowInRows, RowFields
<1>4. more \in Seq(Rows) /\ Len(more) = n + 1 /\ more[n + 1] = r /\ \A i \in 1..n : more[i] = rows[i]
  <2>. HIDE DEF r
  <2>. QED
    BY <1>2, <1>3
<1>5. 1..(n + 1) = 1..n \cup {n + 1} /\ n + 1 \in 1..(n + 1)
  BY <1>2
<1>6. \A i \in 1..n : \E f, l \in T0..T1 : Run(f, l) /\ l < k /\ rows[i] = Row(f, l)
  BY DEF Lists
<1>7. \A f, l \in T0..T1 : Run(f, l) /\ l < k => \E i \in 1..n : rows[i] = Row(f, l)
  BY DEF Lists
<1>8. \A i, j \in 1..n : i < j => rows[i].begin < rows[j].begin
  BY DEF Lists
<1>. HIDE DEF more, n
<1>9. \A i \in 1..(n + 1) : \E f, l \in T0..T1 : Run(f, l) /\ l < k + 1 /\ more[i] = Row(f, l)
  <2>1. ASSUME NEW i \in 1..(n + 1)
        PROVE  \E f, l \in T0..T1 : Run(f, l) /\ l < k + 1 /\ more[i] = Row(f, l)
    <3>1. CASE i \in 1..n
      <4>1. PICK f \in T0..T1, l \in T0..T1 : Run(f, l) /\ l < k /\ rows[i] = Row(f, l)
        BY <1>6, <3>1
      <4>2. l < k + 1
        BY <1>1, <4>1 DEF Times
      <4>. QED
        BY <1>4, <3>1, <4>1, <4>2
    <3>2. CASE i = n + 1
      <4>1. k < k + 1
        BY <1>1
      <4>2. more[i] = Row(g, k)
        BY <1>4, <3>2
      <4>. QED
        BY <1>1, <4>1, <4>2
    <3>. QED
      BY <1>5, <3>1, <3>2
  <2>. QED
    BY <2>1
<1>10. \A f, l \in T0..T1 : Run(f, l) /\ l < k + 1 => \E i \in 1..(n + 1) : more[i] = Row(f, l)
  <2>1. ASSUME NEW f \in T0..T1, NEW l \in T0..T1, Run(f, l), l < k + 1
        PROVE  \E i \in 1..(n + 1) : more[i] = Row(f, l)
    <3>1. CASE l < k
      <4>1. PICK i \in 1..n : rows[i] = Row(f, l)
        BY <1>7, <2>1, <3>1
      <4>. QED
        BY <1>4, <1>5, <4>1
    <3>2. CASE l = k
      <4>1. Opening(f, k)
        BY <2>1, <3>2 DEF Run
      <4>2. f = g
        BY <1>1, <4>1, OneOpening
      <4>. QED
        BY <1>4, <1>5, <3>2, <4>2
    <3>. QED
      BY <1>1, <2>1, <3>1, <3>2 DEF Times
  <2>. QED
    BY <2>1
<1>11. ASSUME NEW i \in 1..(n + 1), NEW j \in 1..(n + 1), i < j PROVE more[i].begin < more[j].begin
  <2>1. i \in 1..n
    BY <1>2, <1>11
  <2>2. CASE j \in 1..n
    BY <1>4, <1>8, <1>11, <2>1, <2>2
  <2>3. CASE j = n + 1
    <3>1. PICK f \in T0..T1, l \in T0..T1 : Run(f, l) /\ l < k /\ rows[i] = Row(f, l)
      BY <1>6, <2>1
    <3>2. f < g
      BY <1>1, <3>1, EndedBefore
    <3>3. rows[i].begin = f
      BY <3>1, RowFields
    <3>. QED
      BY <1>3, <1>4, <2>1, <2>3, <3>2, <3>3
  <2>. QED
    BY <1>5, <2>2, <2>3
<1>12. Len(more) = n + 1 /\ more \in Seq(Rows)
  BY <1>4
<1>13. Lists(k + 1, more)
  BY <1>9, <1>10, <1>11, <1>12 DEF Lists
<1>. QED
  BY <1>13 DEF more

(* Where none ends there is none to list.                                  *)
LEMMA NoRunListed ==
  ASSUME Times, NEW k \in T0..T1, NEW j \in k..(T1 + 1), NEW rows, Lists(k, rows),
         \A f \in T0..T1, l \in T0..T1 : k <= l /\ l < j => ~Run(f, l)
  PROVE  Lists(j, rows)
<1>1. k \in Nat /\ j \in Nat /\ k <= j
  BY DEF Times
<1>2. \A i \in 1..Len(rows) : \E f, l \in T0..T1 : Run(f, l) /\ l < k /\ rows[i] = Row(f, l)
  BY DEF Lists
<1>3. \A f, l \in T0..T1 : Run(f, l) /\ l < k => \E i \in 1..Len(rows) : rows[i] = Row(f, l)
  BY DEF Lists
<1>4. \A l \in T0..T1 : (l < k => l < j) /\ (l < j => l < k \/ k <= l)
  BY <1>1 DEF Times
<1>5. \A i \in 1..Len(rows) : \E f, l \in T0..T1 : Run(f, l) /\ l < j /\ rows[i] = Row(f, l)
  BY <1>2, <1>4
<1>6. \A f, l \in T0..T1 : Run(f, l) /\ l < j => \E i \in 1..Len(rows) : rows[i] = Row(f, l)
  BY <1>3, <1>4
<1>. QED
  BY <1>5, <1>6 DEF Lists

(* The run that ends at k is turned away: what is listed stays.            *)
LEMMA RunTurnedAway ==
  ASSUME Times, NEW k \in T0..T1, NEW rows, Lists(k, rows), NEW g, Run(g, k),
         NEW limit \in Nat, limit # 0, Len(rows) >= limit, NEW tot, Within(rows, limit, tot)
  PROVE  Finished(rows, limit, tot + 1, TRUE)
<1>. DEFINE n == Len(rows)
<1>1. g \in T0..T1 /\ Opening(g, k) /\ k \in Nat
  BY DEF Run, Times
<1>2. rows \in Seq(Rows) /\ n \in Nat /\ n = limit /\ tot = n
  BY DEF Lists, Within
<1>3. \A i \in 1..n : \E f, l \in T0..T1 : Run(f, l) /\ l < k /\ rows[i] = Row(f, l)
  BY DEF Lists
<1>4. \A f, l \in T0..T1 : Run(f, l) /\ l < k => \E i \in 1..n : rows[i] = Row(f, l)
  BY DEF Lists
<1>5. ASSUME NEW f \in T0..T1, NEW l \in T0..T1, Run(f, l), ~(l < k), NEW i \in 1..n
      PROVE  rows[i].begin < f
  <2>1. PICK a \in T0..T1, b \in T0..T1 : Run(a, b) /\ b < k /\ rows[i] = Row(a, b)
    BY <1>3
  <2>2. b < l
    BY <1>1, <1>5, <2>1 DEF Times
  <2>3. Opening(f, l)
    BY <1>5 DEF Run
  <2>4. a < f
    BY <2>1, <2>2, <2>3, EndedBefore
  <2>. QED
    BY <2>1, <2>4, RowFields
<1>6. ~(k < k)
  BY <1>1
<1>7. \A i \in 1..n : rows[i] # Row(g, k)
  <2>1. ASSUME NEW i \in 1..n PROVE rows[i] # Row(g, k)
    <3>1. rows[i].begin < g
      BY <1>1, <1>5, <1>6
    <3>2. g \in Nat /\ Row(g, k).begin = g
      BY <1>1, RowFields DEF Times
    <3>. QED
      BY <3>1, <3>2
  <2>. QED
    BY <2>1
<1>8. \A f, l \in T0..T1 : Run(f, l) => \/ \E i \in 1..n : rows[i] = Row(f, l)
                                        \/ \A i \in 1..n : rows[i].begin < f
  BY <1>4, <1>5
<1>9. \A i, j \in 1..n : i < j => rows[i].begin < rows[j].begin
  BY DEF Lists
<1>10. \E f, l \in T0..T1 : Run(f, l) /\ \A i \in 1..n : rows[i] # Row(f, l)
  BY <1>1, <1>7
<1>11. \A i \in 1..n : \E f, l \in T0..T1 : Run(f, l) /\ rows[i] = Row(f, l)
  BY <1>3
<1>. HIDE DEF n
<1>. QED
  BY <1>2, <1>8, <1>9, <1>10, <1>11 DEF Finished, n

(* All of them are listed.                                                 *)
LEMMA AllListed ==
  ASSUME Times, NEW rows, Lists(T1 + 1, rows), NEW limit, NEW tot, Within(rows, limit, tot)
  PROVE  Finished(rows, limit, tot, FALSE)
<1>1. \A l \in T0..T1 : l < T1 + 1
  BY DEF Times
<1>2. \A i \in 1..Len(rows) : \E f, l \in T0..T1 : Run(f, l) /\ rows[i] = Row(f, l)
  BY DEF Lists
<1>3. \A f, l \in T0..T1 : Run(f, l) => \E i \in 1..Len(rows) : rows[i] = Row(f, l)
  BY <1>1 DEF Lists
<1>4. tot = Len(rows) /\ rows \in Seq(Rows)
  BY DEF Within, Lists
<1>5. \A i, j \in 1..Len(rows) : i < j => rows[i].begin < rows[j].begin
  BY DEF Lists
<1>. QED
  BY <1>2, <1>3, <1>4, <1>5 DEF Finished

-----------------------------------------------------------------------------
(* The stream of an answerable line, and the state a collector builds of it.*)

Served == file \in Seq(Change) /\ ByTick(file) /\ LineOk /\ Answerable
Streamed == stream = Buffered(T1, selected)

LEMMA ServedTimes == Served => Times
<1>. SUFFICES ASSUME Served PROVE Times
  OBVIOUS
<1>1. line.begin \in Nat /\ line.end \in Nat \cup {None}
  BY SearchAssumption DEF Served, LineOk
<1>2. search_end_time # None /\ line.begin <= search_end_time
  BY DEF Served, Answerable
<1>3. search_end_time \in Nat
  <2>1. CASE line.end # None
    BY <1>1, <2>1 DEF search_end_time
  <2>2. CASE line.end = None
    <3>1. file # << >> /\ search_end_time = file[Len(file)].tick
      BY <1>2, <2>2 DEF search_end_time
    <3>2. file \in Seq(Change) /\ Len(file) \in 1..Len(file)
      BY <3>1 DEF Served
    <3>3. file[Len(file)] \in Change
      BY <3>2
    <3>. QED
      BY <3>1, <3>3 DEF Change
  <2>. QED
    BY <2>1, <2>2
<1>. QED
  BY <1>1, <1>2, <1>3 DEF Times, T0, T1

LEMMA StreamFacts ==
  ASSUME Served, Streamed
  PROVE  /\ stream \in Seq(Change) /\ Len(stream) \in Nat
         /\ \A i, j \in 1..Len(stream) : i <= j => stream[i].tick <= stream[j].tick
         /\ \A i \in 1..Len(stream) : /\ stream[i] \in Change
                                      /\ stream[i].tick \in Nat /\ stream[i].tick <= T1
                                      /\ stream[i].sid \in selected /\ stream[i].sid \in Sid
         /\ \A s \in selected, t \in 0..T1 : ValueAt(stream, s, t) = ValueAt(file, s, t)
<1>1. T1 \in Nat /\ file \in Seq(Change) /\ ByTick(file)
  BY ServedTimes DEF Times, Served
<1>2. Holding(stream, Len(file), T1, selected)
  BY <1>1, BufferedHolds DEF Streamed
<1>3. \A s \in selected, t \in 0..T1 : ValueAt(stream, s, t) = ValueAt(file, s, t)
  BY <1>1, BufferedHolds DEF Streamed
<1>4. stream \in Seq(Change) /\ DOMAIN stream = 1..Len(stream) /\ Len(stream) \in Nat
  BY <1>2 DEF Holding
<1>5. \A i, j \in 1..Len(stream) : i <= j => stream[i].tick <= stream[j].tick
  BY <1>2, <1>4 DEF Holding, ByTick
<1>6. \A i \in 1..Len(stream) : stream[i].tick <= T1 /\ stream[i].sid \in selected
  BY <1>2 DEF Holding, Loaded
<1>7. \A i \in 1..Len(stream) : stream[i] \in Change
  BY <1>4
<1>8. \A i \in 1..Len(stream) : stream[i].tick \in Nat /\ stream[i].sid \in Sid
  BY <1>7 DEF Change
<1>. QED
  BY <1>3, <1>4, <1>5, <1>6, <1>7, <1>8

(* The values after p changes of the stream.                               *)
Now(p) == [s \in Sid |-> ValueAt(Upto(stream, p), s, T1)]
Then(t) == StateAt(stream, t)

LEMMA NowBegins == ASSUME Served, Streamed PROVE Now(0) = AllUndef
<1>1. Upto(stream, 0) = << >>
  BY StreamFacts, UptoFacts
<1>. QED
  BY <1>1, ValueEmpty DEF Now, AllUndef

LEMMA NowType ==
  ASSUME Served, Streamed, NEW p \in 0..Len(stream)
  PROVE  Now(p) \in States
<1>1. Upto(stream, p) \in Seq(Change)
  BY StreamFacts, UptoFacts
<1>2. \A s \in Sid : ValueAt(Upto(stream, p), s, T1) \in Value \cup {Undef}
  BY <1>1, ValueType
<1>. QED
  BY <1>2 DEF Now, States

LEMMA NowApply ==
  ASSUME Served, Streamed, NEW p \in 1..Len(stream)
  PROVE  Apply(Now(p - 1), stream[p]) = Now(p)
<1>. DEFINE x == Upto(stream, p - 1)
            e == stream[p]
<1>1. x \in Seq(Change) /\ Upto(stream, p) = Append(x, e)
  <2>1. p - 1 \in 0..Len(stream)
    BY StreamFacts
  <2>. QED
    BY <2>1, StreamFacts, UptoFacts
<1>2. e \in Change /\ e.tick <= T1 /\ e.sid \in Sid
  BY StreamFacts
<1>3. T1 \in Nat
  BY ServedTimes DEF Times
<1>4. \A s \in Sid : Now(p)[s] = ValueAt(Append(x, e), s, T1) /\ Now(p - 1)[s] = ValueAt(x, s, T1)
  BY <1>1 DEF Now
<1>. HIDE DEF x, e
<1>5. \A s \in Sid : Now(p)[s] = IF e.sid = s THEN e.val ELSE Now(p - 1)[s]
  BY <1>1, <1>2, <1>3, <1>4, ValueAppend
<1>6. Now(p) = [s \in Sid |-> Now(p)[s]]
      /\ Apply(Now(p - 1), e) = [s \in Sid |-> IF e.sid = s THEN e.val ELSE Now(p - 1)[s]]
  BY DEF Now, Apply
<1>. QED
  BY <1>5, <1>6 DEF e

(* Between two changes, the values so far are the values of the ticks.     *)
LEMMA NowIsThen ==
  ASSUME Served, Streamed, NEW p \in 0..Len(stream), NEW t \in Nat,
         \A i \in 1..p : stream[i].tick <= t,
         \A i \in (p + 1)..Len(stream) : ~(stream[i].tick <= t)
  PROVE  Now(p) = Then(t)
<1>1. stream \in Seq(Change) /\ Len(stream) \in Nat
  BY StreamFacts
<1>2. Upto(stream, p) \in Seq(Change) /\ Len(Upto(stream, p)) = p
      /\ \A i \in 1..p : Upto(stream, p)[i] = stream[i]
  BY <1>1, UptoFacts
<1>3. \A i \in 1..p : stream[i].tick <= T1
  BY <1>1, StreamFacts
<1>4. ASSUME NEW s PROVE ValueAt(stream, s, t) = ValueAt(Upto(stream, p), s, T1)
  <2>1. ValueAt(stream, s, t) = ValueAt(Upto(stream, p), s, t)
    BY <1>1, ValueOfBeginning
  <2>2. \A i \in 1..Len(Upto(stream, p)) :
          Upto(stream, p)[i].tick <= t <=> Upto(stream, p)[i].tick <= T1
    BY <1>2, <1>3
  <2>3. ValueAt(Upto(stream, p), s, t) = ValueAt(Upto(stream, p), s, T1)
    BY <1>2, <2>2, ValueAtEither
  <2>. QED
    BY <2>1, <2>3
<1>. QED
  BY <1>4 DEF Now, Then, StateAt

(* What is loaded decides, and shows, what the whole file would.           *)
LEMMA Judged ==
  ASSUME Served, Streamed, NEW t \in 0..T1, NEW c, NEW d, c \cap selected = d \cap selected
  PROVE  /\ any_clause_holds(Then(t), c, clauses) <=> Meant(At(t), d)
         /\ show_values(Then(t), show_sids) = V(t)
<1>1. LineOk /\ Answerable
  BY DEF Served
<1>2. \A s \in selected : s \in c <=> s \in d
  OBVIOUS
<1>3. \A s \in selected : s \in Sid
  BY <1>1, SelectedAreSids
<1>4. \A s \in selected : Then(t)[s] = At(t)[s]
  BY <1>3, StreamFacts DEF Then, At, StateAt
<1>. DEFINE v == Then(t)
            w == At(t)
<1>5. \A s \in selected : v[s] = w[s] /\ (s \in c <=> s \in d)
  BY <1>2, <1>4
<1>6. V(t) = show_values(w, show_sids)
  BY DEF V
<1>. HIDE DEF v, w
<1>7. (any_clause_holds(v, c, clauses) <=> any_clause_holds(w, d, clauses))
      /\ show_values(v, show_sids) = show_values(w, show_sids)
  BY <1>1, <1>5, OnlySelectedCount
<1>8. any_clause_holds(w, d, clauses) <=> Meant(w, d)
  BY <1>1, Meaning
<1>. QED
  BY <1>6, <1>7, <1>8 DEF v, w

-----------------------------------------------------------------------------
(* Level mode.                                                             *)

(* The span a collector has open at tick k.                                *)
SpanAt(k, act, start, values) ==
  /\ act \in BOOLEAN
  /\ act <=> M(k)
  /\ act => Opening(start, k) /\ values = V(start)

(* The ticks a..b say what a says.                                         *)
Same(a, b) == \A t \in a..b : (M(t) <=> M(a)) /\ V(t) = V(a)

LEMMA SameNoRun ==
  ASSUME Times, NEW a \in T0..T1, NEW b \in a..T1, Same(a, b)
  PROVE  \A f \in T0..T1, l \in T0..T1 : a <= l /\ l < b => ~Run(f, l)
<1>1. SUFFICES ASSUME NEW f \in T0..T1, NEW l \in T0..T1, a <= l, l < b, Run(f, l) PROVE FALSE
  OBVIOUS
<1>2. l \in a..b /\ l + 1 \in a..b /\ l < T1 /\ l \in f..l
  BY <1>1 DEF Times, Run, Opening
<1>3. M(l) /\ ~Like(l, l + 1)
  BY <1>1, <1>2 DEF Run, Opening, Like
<1>4. (M(l) <=> M(a)) /\ V(l) = V(a) /\ (M(l + 1) <=> M(a)) /\ V(l + 1) = V(a)
  BY <1>2 DEF Same
<1>. QED
  BY <1>3, <1>4 DEF Like

LEMMA SameOpening ==
  ASSUME Times, NEW a \in T0..T1, NEW b \in a..T1, Same(a, b), NEW f, Opening(f, a)
  PROVE  Opening(f, b)
<1>1. f \in T0..a /\ f \in Nat /\ a \in Nat /\ b \in Nat /\ a \in f..a /\ f \in T0..b
  BY DEF Times, Opening
<1>2. Like(f, a)
  BY <1>1 DEF Opening
<1>3. ASSUME NEW t \in f..b PROVE Like(f, t)
  <2>1. CASE t \in f..a
    BY <2>1 DEF Opening
  <2>2. CASE t \in a..b
    BY <1>2, <2>2 DEF Same, Like
  <2>. QED
    BY <1>1, <2>1, <2>2
<1>. QED
  BY <1>1, <1>3 DEF Opening

(* Tick a is the first that may differ from k, the tick before it: the     *)
(* span open at k ends there, or goes on to b.                             *)
Closing(a, b, k, act, start, values) ==
  /\ a \in (T0 + 1)..T1 /\ b \in a..T1 /\ k = a - 1
  /\ Same(a, b) /\ SpanAt(k, act, start, values)

Ends(k, a, values) == M(k) /\ (~M(a) \/ V(a) # values)
GoesOn(k, a, values) == M(k) /\ M(a) /\ V(a) = values

LEMMA GroupClosed ==
  ASSUME Times, NEW a, NEW b, NEW k, NEW act, NEW start, NEW values,
         Closing(a, b, k, act, start, values)
  PROVE  /\ Ends(k, a, values) => Run(start, k) /\ values = V(start)
         /\ ~Ends(k, a, values) => \A f : ~Run(f, k)
         /\ GoesOn(k, a, values) => SpanAt(b, act, start, values)
         /\ ~GoesOn(k, a, values) /\ M(a) => SpanAt(b, TRUE, a, V(a))
         /\ ~GoesOn(k, a, values) /\ ~M(a) => ~M(b)
<1>. DEFINE ends == Ends(k, a, values)
<1>. a \in (T0 + 1)..T1 /\ b \in a..T1 /\ k = a - 1 /\ Same(a, b)
      /\ SpanAt(k, act, start, values)
  BY DEF Closing
<1>. ends <=> act /\ (~M(a) \/ V(a) # values)
  BY DEF Ends, SpanAt
<1>. act \in BOOLEAN /\ (act /\ ~ends <=> GoesOn(k, a, values))
  BY DEF GoesOn, Ends, SpanAt
<1>. HIDE DEF ends
<1>1. k \in T0..T1 /\ k \in Nat /\ a \in T0..T1 /\ a \in Nat /\ b \in Nat /\ k + 1 = a /\ k < T1
      /\ b \in a..b /\ a > T0 /\ k < a /\ T0 \in Nat /\ T1 \in Nat
  BY DEF Times
<1>2. act \in BOOLEAN /\ (act <=> M(k)) /\ (act => Opening(start, k) /\ values = V(start))
  BY DEF SpanAt
<1>3. ASSUME act PROVE start \in T0..k /\ Like(start, k) /\ start \in T0..T1 /\ V(k) = values /\ M(k)
  <2>1. Opening(start, k) /\ values = V(start)
    BY <1>2, <1>3
  <2>2. start \in T0..k /\ k \in start..k /\ start \in T0..T1
    BY <1>1, <2>1 DEF Opening
  <2>3. Like(start, k)
    BY <2>1, <2>2 DEF Opening
  <2>. QED
    BY <2>1, <2>2, <2>3 DEF Like
<1>4. ASSUME ends
      PROVE  Run(start, k) /\ values = V(start)
  <2>1. act /\ (~M(a) \/ V(a) # values)
    BY <1>4
  <2>2. ~Like(k, k + 1)
    BY <1>1, <1>3, <2>1 DEF Like
  <2>3. Run(start, k)
    BY <1>1, <1>2, <1>3, <2>1, <2>2 DEF Run
  <2>4. values = V(start)
    BY <1>2, <2>1
  <2>. QED
    BY <2>3, <2>4
<1>5. ASSUME ~ends, NEW f PROVE ~Run(f, k)
  <2>1. SUFFICES ASSUME Run(f, k) PROVE FALSE
    OBVIOUS
  <2>2. Opening(f, k) /\ ~Like(k, k + 1)
    BY <1>1, <2>1 DEF Run
  <2>3. f \in T0..k /\ k \in f..k
    BY <1>1, <2>2 DEF Opening
  <2>4. Like(f, k)
    BY <2>2, <2>3 DEF Opening
  <2>5. act
    BY <1>2, <2>4 DEF Like
  <2>6. M(a) /\ V(a) = values
    BY <1>5, <2>5
  <2>. QED
    BY <1>1, <1>3, <2>2, <2>5, <2>6 DEF Like
<1>6. (M(b) <=> M(a)) /\ V(b) = V(a)
  BY <1>1 DEF Same
<1>7. ASSUME act, ~ends PROVE SpanAt(b, act, start, values)
  <2>1. M(a) /\ V(a) = values /\ Opening(start, k) /\ values = V(start)
    BY <1>2, <1>7
  <2>2. Like(start, a)
    BY <1>3, <1>7, <2>1 DEF Like
  <2>3. ASSUME NEW t \in start..a PROVE Like(start, t)
    <3>1. CASE t = a
      BY <2>2, <3>1
    <3>2. CASE t # a
      <4>1. t \in start..k
        BY <1>1, <1>3, <1>7, <3>2
      <4>. QED
        BY <2>1, <4>1 DEF Opening
    <3>. QED
      BY <3>1, <3>2
  <2>4. start \in T0..a
    BY <1>1, <1>3, <1>7
  <2>5. Opening(start, a)
    BY <2>1, <2>3, <2>4 DEF Opening
  <2>6. Opening(start, b)
    BY <1>1, <2>5, SameOpening
  <2>. QED
    BY <1>2, <1>6, <1>7, <2>1, <2>6 DEF SpanAt
<1>8. ASSUME ~(act /\ ~ends), M(a) PROVE SpanAt(b, TRUE, a, V(a))
  <2>1. ~Like(a - 1, a)
    <3>1. CASE ~act
      <4>1. ~M(k)
        BY <1>2, <3>1
      <4>. QED
        BY <4>1 DEF Like
    <3>2. CASE act
      <4>1. V(a) # values
        BY <1>8, <3>2
      <4>2. V(k) # V(a)
        BY <1>3, <3>2, <4>1
      <4>. QED
        BY <4>2 DEF Like
    <3>. QED
      BY <1>2, <3>1, <3>2
  <2>2. Opening(a, a)
    <3>1. a \in T0..a /\ \A t \in a..a : t = a
      BY <1>1
    <3>2. Like(a, a)
      BY <1>8 DEF Like
    <3>. QED
      BY <2>1, <3>1, <3>2 DEF Opening
  <2>3. Opening(a, b)
    BY <1>1, <2>2, SameOpening
  <2>. QED
    BY <1>6, <1>8, <2>3 DEF SpanAt
<1>. QED
  BY <1>4, <1>5, <1>6, <1>7, <1>8 DEF ends

(* The window opens: at b its first ticks say what t0 says.                *)
LEMMA WindowOpens ==
  ASSUME Times, NEW b \in T0..T1, Same(T0, b)
  PROVE  /\ M(T0) => SpanAt(b, TRUE, T0, V(T0))
         /\ ~M(T0) => ~M(b)
         /\ Lists(b, << >>)
<1>1. T0 \in T0..T1 /\ b \in T0..b /\ T0 \in T0..T0 /\ ~(T0 > T0) /\ \A t \in T0..T0 : t = T0
  BY DEF Times
<1>2. (M(b) <=> M(T0)) /\ V(b) = V(T0)
  BY <1>1 DEF Same
<1>3. ASSUME M(T0) PROVE SpanAt(b, TRUE, T0, V(T0))
  <2>1. Like(T0, T0)
    BY <1>3 DEF Like
  <2>2. Opening(T0, T0)
    BY <1>1, <2>1 DEF Opening
  <2>3. Opening(T0, b)
    BY <1>1, <2>2, SameOpening
  <2>. QED
    BY <1>2, <1>3, <2>3 DEF SpanAt
<1>4. Lists(T0, << >>)
  <2>1. \A l \in T0..T1 : ~(l < T0)
    BY DEF Times
  <2>2. Len(<< >>) = 0 /\ << >> \in Seq(Rows) /\ 1..0 = {}
    OBVIOUS
  <2>. QED
    BY <2>1, <2>2 DEF Lists
<1>5. Lists(b, << >>)
  <2>1. \A f \in T0..T1, l \in T0..T1 : T0 <= l /\ l < b => ~Run(f, l)
    BY <1>1, SameNoRun
  <2>2. b \in T0..(T1 + 1)
    BY DEF Times
  <2>. QED
    BY <1>1, <1>4, <2>1, <2>2, NoRunListed
<1>. QED
  BY <1>2, <1>3, <1>5

(* The window ends: the span still open is the last run, or there is none. *)
LEMMA WindowEnds ==
  ASSUME Times, NEW act, NEW start, NEW values, SpanAt(T1, act, start, values)
  PROVE  /\ act => /\ Run(start, T1)
                   /\ [begin |-> start, end |-> T1, values |-> values] = Row(start, T1)
         /\ ~act => \A f : ~Run(f, T1)
<1>1. T1 \in T0..T1 /\ ~(T1 < T1)
  BY DEF Times
<1>2. ASSUME act
      PROVE  Run(start, T1) /\ [begin |-> start, end |-> T1, values |-> values] = Row(start, T1)
  <2>1. Opening(start, T1) /\ values = V(start)
    BY <1>2 DEF SpanAt
  <2>2. start \in T0..T1
    BY <2>1 DEF Opening
  <2>. QED
    BY <1>1, <2>1, <2>2 DEF Run, Row
<1>3. ASSUME ~act, NEW f PROVE ~Run(f, T1)
  <2>1. SUFFICES ASSUME Run(f, T1) PROVE FALSE
    OBVIOUS
  <2>2. T1 \in f..T1 /\ Opening(f, T1)
    BY <1>1, <2>1 DEF Times, Run, Opening
  <2>3. M(T1)
    BY <2>2 DEF Opening, Like
  <2>. QED
    BY <1>3, <2>3 DEF SpanAt
<1>. QED
  BY <1>2, <1>3

-----------------------------------------------------------------------------
(* What append_result! makes of a row.                                     *)

Added(row, limit, rows, tot, rows1, tot1, cut1) ==
  /\ tot1 = tot + 1
  /\ IF limit # 0 /\ Len(rows) >= limit
     THEN cut1 = TRUE /\ rows1 = rows
     ELSE rows1 = Append(rows, row) /\ cut1 = FALSE

(* The run from g that ends at k is appended, or the list is full.         *)
Adding(k, j, g, limit, rows, tot, rows1, tot1, cut1) ==
  /\ k \in T0..T1 /\ j = k + 1
  /\ Lists(k, rows) /\ Within(rows, limit, tot) /\ limit \in Nat
  /\ Run(g, k) /\ Added(Row(g, k), limit, rows, tot, rows1, tot1, cut1)

LEMMA RunAdded ==
  ASSUME Times, NEW k, NEW j, NEW g, NEW limit, NEW rows, NEW tot, NEW rows1, NEW tot1, NEW cut1,
         Adding(k, j, g, limit, rows, tot, rows1, tot1, cut1)
  PROVE  /\ cut1 \in BOOLEAN
         /\ cut1 = TRUE => Finished(rows1, limit, tot1, TRUE)
         /\ cut1 = FALSE => Lists(j, rows1) /\ Within(rows1, limit, tot1)
<1>. k \in T0..T1 /\ j = k + 1 /\ Lists(k, rows) /\ Within(rows, limit, tot) /\ limit \in Nat
      /\ Run(g, k) /\ Added(Row(g, k), limit, rows, tot, rows1, tot1, cut1)
  BY DEF Adding
<1>1. Len(rows) \in Nat /\ rows \in Seq(Rows)
  BY DEF Lists
<1>2. CASE limit # 0 /\ Len(rows) >= limit
  <2>1. cut1 = TRUE /\ rows1 = rows /\ tot1 = tot + 1
    BY <1>2 DEF Added
  <2>2. Finished(rows, limit, tot + 1, TRUE)
    BY <1>2, RunTurnedAway
  <2>. QED
    BY <2>1, <2>2
<1>3. CASE ~(limit # 0 /\ Len(rows) >= limit)
  <2>. DEFINE r == Row(g, k)
  <2>1. cut1 = FALSE /\ rows1 = Append(rows, r) /\ tot1 = tot + 1
    BY <1>3 DEF Added
  <2>2. Lists(j, rows1)
    BY <2>1, RunListed
  <2>3. r \in Rows
    <3>1. g \in T0..T1
      BY DEF Run
    <3>. QED
      BY <3>1, RowInRows
  <2>. HIDE DEF r
  <2>4. Len(rows1) = Len(rows) + 1
    BY <1>1, <2>1, <2>3
  <2>5. Within(rows1, limit, tot1)
    BY <1>1, <1>3, <2>1, <2>4 DEF Within
  <2>. QED
    BY <2>1, <2>2, <2>5
<1>. QED
  BY <1>2, <1>3

-----------------------------------------------------------------------------
(* The collector of level mode: its position in the stream, the values of  *)
(* the ticks before the pending group, the span open there, and the runs   *)
(* that have ended.                                                        *)

Base ==
  /\ state = Now(pos - 1) /\ ahead = Now(pos - 1)
  /\ \A i \in 1..(pos - 1) : stream[i].tick <= T0
  /\ active = FALSE /\ results = << >> /\ total = 0 /\ truncated = FALSE

Spanning ==
  /\ pos # 1
  /\ cur_t \in (T0 + 1)..T1 /\ cur_t = stream[pos - 1].tick
  /\ state = Then(cur_t - 1) /\ ahead = Now(pos - 1)
  /\ SpanAt(cur_t - 1, active, seg_start, seg_values)
  /\ Lists(cur_t - 1, results) /\ Within(results, line.limit, total) /\ truncated = FALSE

Past ==
  \/ T0 = T1 /\ active = FALSE /\ results = << >> /\ total = 0 /\ truncated = FALSE
  \/ /\ T0 < T1 /\ truncated = FALSE
     /\ SpanAt(T1, active, seg_start, seg_values)
     /\ Lists(T1, results) /\ Within(results, line.limit, total)
  \/ T0 < T1 /\ truncated = TRUE /\ Finished(results, line.limit, total, TRUE)

Over ==
  \/ T0 = T1 /\ results = << >> /\ total = 0 /\ truncated = FALSE
  \/ T0 < T1 /\ Finished(results, line.limit, total, truncated)

SpansInv ==
  /\ pc \in {"loop", "emit", "done"}
  /\ pc = "loop" => /\ pos \in 1..(Len(stream) + 1) /\ inited \in BOOLEAN
                    /\ ~inited => Base
                    /\ inited => Spanning
  /\ pc = "emit" => Past
  /\ pc = "done" => Over

(* The setup, and what has become of it.                                   *)
SetUp == Served /\ Streamed /\ q = Query

-----------------------------------------------------------------------------
(* What file and line fix, a step that leaves them alone leaves alone.     *)

LEMMA Fixed ==
  ASSUME file' = file, line' = line
  PROVE  /\ T0' = T0 /\ T1' = T1 /\ clauses' = clauses /\ show_sids' = show_sids
         /\ changed_sids' = changed_sids /\ selected' = selected /\ (Served' <=> Served)
         /\ Query' = Query
         /\ \A t : (M(t)' <=> M(t)) /\ V(t)' = V(t)
<1>1. T0' = T0 /\ T1' = T1
  BY DEF T0, T1, search_end_time
<1>2. clauses' = clauses
  BY DEF clauses, resolve_conditions, clause_key
<1>3. changed_sids' = changed_sids
  BY <1>2 DEF changed_sids
<1>4. show_sids' = show_sids
  BY <1>3 DEF show_sids
<1>5. selected' = selected
  BY <1>2, <1>4 DEF selected
<1>6. search_end_time' = search_end_time
  BY DEF search_end_time
<1>7. Answerable' <=> Answerable
  BY <1>2, <1>6 DEF Answerable, Terms
<1>8. LineOk' <=> LineOk
  BY DEF LineOk, Cond
<1>9. Served' <=> Served
  BY <1>7, <1>8 DEF Served
<1>10. Query' = Query
  BY <1>2, <1>3, <1>4, <1>6 DEF Query
<1>11. \A t : At(t)' = At(t)
  BY DEF At
<1>12. \A t : M(t)' <=> M(t)
  BY <1>11 DEF M, Meant
<1>13. \A t : V(t)' = V(t)
  BY <1>4, <1>11 DEF V, show_values
<1>. QED
  BY <1>1, <1>2, <1>3, <1>4, <1>5, <1>9, <1>10, <1>12, <1>13

LEMMA RunsFixed ==
  ASSUME file' = file, line' = line
  PROVE  /\ \A f, l : (Run(f, l)' <=> Run(f, l)) /\ (Opening(f, l)' <=> Opening(f, l))
         /\ \A f, l : Row(f, l)' = Row(f, l)
         /\ Rows' = Rows
<1>1. T0' = T0 /\ T1' = T1
  BY Fixed
<1>2. \A t : (M(t)' <=> M(t)) /\ V(t)' = V(t)
  BY Fixed
<1>3. \A a, b : Like(a, b)' <=> Like(a, b)
  BY <1>2 DEF Like
<1>4. \A f, l : Opening(f, l)' <=> Opening(f, l)
  BY <1>1, <1>3 DEF Opening
<1>5. \A f, l : Run(f, l)' <=> Run(f, l)
  BY <1>1, <1>3, <1>4 DEF Run
<1>6. \A f, l : Row(f, l)' = Row(f, l)
  BY <1>1, <1>2 DEF Row
<1>7. Rows' = Rows
  BY <1>1, <1>6 DEF Rows
<1>. QED
  BY <1>4, <1>5, <1>6, <1>7

LEMMA ListsFixed ==
  ASSUME file' = file, line' = line
  PROVE  /\ \A k, rows : Lists(k, rows) => Lists(k, rows)'
         /\ \A rows, limit, tot, cut : Finished(rows, limit, tot, cut) => Finished(rows, limit, tot, cut)'
         /\ \A k, act, start, values : SpanAt(k, act, start, values) => SpanAt(k, act, start, values)'
<1>1. T0' = T0 /\ T1' = T1 /\ Rows' = Rows
  BY Fixed, RunsFixed
<1>2. \A f, l : (Run(f, l)' <=> Run(f, l)) /\ Row(f, l)' = Row(f, l)
  BY RunsFixed
<1>3. ASSUME NEW k, NEW rows, Lists(k, rows) PROVE Lists(k, rows)'
  <2>1. rows \in Seq(Rows)'
    BY <1>1, <1>3 DEF Lists
  <2>2. \A i \in 1..Len(rows) : \E f, l \in (T0..T1)' : Run(f, l)' /\ l < k /\ rows[i] = Row(f, l)'
    BY <1>1, <1>2, <1>3 DEF Lists
  <2>3. \A f, l \in (T0..T1)' : Run(f, l)' /\ l < k => \E i \in 1..Len(rows) : rows[i] = Row(f, l)'
    BY <1>1, <1>2, <1>3 DEF Lists
  <2>4. \A i, j \in 1..Len(rows) : i < j => rows[i].begin < rows[j].begin
    BY <1>3 DEF Lists
  <2>. QED
    BY <2>1, <2>2, <2>3, <2>4 DEF Lists
<1>4. ASSUME NEW rows, NEW limit, NEW tot, NEW cut, Finished(rows, limit, tot, cut)
      PROVE  Finished(rows, limit, tot, cut)'
  <2>1. rows \in Seq(Rows)'
    BY <1>1, <1>4 DEF Finished
  <2>2. \A i \in 1..Len(rows) : \E f, l \in (T0..T1)' : Run(f, l)' /\ rows[i] = Row(f, l)'
    BY <1>1, <1>2, <1>4 DEF Finished
  <2>3. \A f, l \in (T0..T1)' : Run(f, l)' => \/ \E i \in 1..Len(rows) : rows[i] = Row(f, l)'
                                              \/ cut /\ \A i \in 1..Len(rows) : rows[i].begin < f
    BY <1>1, <1>2, <1>4 DEF Finished
  <2>4. cut => \E f, l \in (T0..T1)' : Run(f, l)' /\ \A i \in 1..Len(rows) : rows[i] # Row(f, l)'
    BY <1>1, <1>2, <1>4 DEF Finished
  <2>5. /\ \A i, j \in 1..Len(rows) : i < j => rows[i].begin < rows[j].begin
        /\ cut \in BOOLEAN
        /\ ~cut => tot = Len(rows)
        /\ cut => limit # 0 /\ Len(rows) = limit /\ tot = Len(rows) + 1
    BY <1>4 DEF Finished
  <2>. QED
    BY <2>1, <2>2, <2>3, <2>4, <2>5 DEF Finished
<1>5. (\A t : (M(t)' <=> M(t)) /\ V(t)' = V(t)) /\ \A f, l : Opening(f, l)' <=> Opening(f, l)
  BY Fixed, RunsFixed
<1>6. \A k, act, start, values : SpanAt(k, act, start, values) => SpanAt(k, act, start, values)'
  BY <1>5 DEF SpanAt
<1>. QED
  BY <1>3, <1>4, <1>6

LEMMA StreamFixed ==
  ASSUME file' = file, line' = line, stream' = stream, q' = q, SetUp
  PROVE  /\ SetUp'
         /\ \A p : Now(p)' = Now(p)
         /\ \A t : Then(t)' = Then(t)
<1>1. T1' = T1 /\ selected' = selected /\ (Served' <=> Served) /\ Query' = Query
  BY Fixed
<1>2. Buffered(T1, selected)' = Buffered(T1, selected)
  BY <1>1 DEF Buffered
<1>. QED
  BY <1>1, <1>2 DEF SetUp, Streamed, Now, Then

-----------------------------------------------------------------------------
(* The steps of the collector of level mode.                               *)

LEMMA SetUpFacts ==
  ASSUME SetUp
  PROVE  /\ Served /\ Streamed /\ Times /\ line.limit \in Nat
         /\ q.clauses = clauses /\ q.show = show_sids /\ q.t0 = T0 /\ q.t1 = T1
         /\ q.limit = line.limit /\ (q.events <=> changed_sids # {})
<1>1. Served /\ Streamed /\ q = Query
  BY DEF SetUp
<1>2. Times
  BY <1>1, ServedTimes
<1>3. line.limit \in Nat
  BY <1>1, SearchAssumption DEF Served, LineOk
<1>. QED
  BY <1>1, <1>2, <1>3 DEF Query, T0, T1

LEMMA LevelJudged ==
  ASSUME SetUp, NEW t \in T0..T1
  PROVE  (Spans!Holds(Then(t)) <=> M(t)) /\ Spans!show_values(Then(t), q.show) = V(t)
<1>1. Served /\ Streamed /\ q.clauses = clauses /\ q.show = show_sids /\ t \in 0..T1
  BY SetUpFacts DEF Times
<1>2. (any_clause_holds(Then(t), {}, clauses) <=> Meant(At(t), {}))
      /\ show_values(Then(t), show_sids) = V(t)
  BY <1>1, Judged
<1>3. \A v : Spans!Holds(v) <=> any_clause_holds(v, {}, clauses)
  BY <1>1 DEF Spans!Holds, Spans!any_clause_holds, Spans!ClauseHolds, any_clause_holds, ClauseHolds
<1>4. \A v, x : Spans!show_values(v, x) = show_values(v, x)
  BY DEF Spans!show_values, show_values
<1>. QED
  BY <1>1, <1>2, <1>3, <1>4 DEF M

LEMMA ThenSame ==
  ASSUME SetUp, NEW a \in T0..T1, NEW b \in a..T1, NEW v, \A t \in a..b : Then(t) = v
  PROVE  /\ Same(a, b)
         /\ Spans!Holds(v) <=> M(a)
         /\ Spans!show_values(v, q.show) = V(a)
<1>1. \A t \in a..b : t \in T0..T1
  BY SetUpFacts DEF Times
<1>2. \A t \in a..b : (Spans!Holds(v) <=> M(t)) /\ Spans!show_values(v, q.show) = V(t)
  <2>1. ASSUME NEW t \in a..b
        PROVE  (Spans!Holds(v) <=> M(t)) /\ Spans!show_values(v, q.show) = V(t)
    <3>1. (Spans!Holds(Then(t)) <=> M(t)) /\ Spans!show_values(Then(t), q.show) = V(t)
      BY <1>1, LevelJudged
    <3>2. Then(t) = v
      OBVIOUS
    <3>. QED
      BY <3>1, <3>2
  <2>. QED
    BY <2>1
<1>3. a \in a..b
  BY SetUpFacts DEF Times
<1>. QED
  BY <1>2, <1>3 DEF Same

(* The values so far are those of every tick up to the next change.        *)
LEMMA QuietUntil ==
  ASSUME SetUp, NEW p \in 1..Len(stream), NEW b \in stream[p].tick..T1,
         p < Len(stream) => b < stream[p + 1].tick
  PROVE  \A t \in stream[p].tick..b : Now(p) = Then(t)
<1>1. Served /\ Streamed
  BY SetUpFacts
<1>2. SUFFICES ASSUME NEW t \in stream[p].tick..b PROVE Now(p) = Then(t)
  OBVIOUS
<1>3. Len(stream) \in Nat /\ (\A k \in 1..Len(stream) : stream[k].tick \in Nat)
      /\ \A i, j \in 1..Len(stream) : i <= j => stream[i].tick <= stream[j].tick
  BY <1>1, StreamFacts
<1>4. t \in Nat /\ p \in 0..Len(stream) /\ b \in Nat /\ stream[p].tick <= t /\ t <= b
      /\ T1 \in Nat
  BY <1>3, SetUpFacts DEF Times
<1>5. \A i \in 1..p : stream[i].tick <= t
  <2>1. ASSUME NEW i \in 1..p PROVE stream[i].tick <= t
    <3>1. i \in 1..Len(stream) /\ i <= p
      BY <1>3
    <3>2. stream[i].tick <= stream[p].tick /\ stream[i].tick \in Nat /\ stream[p].tick \in Nat
      BY <1>3, <3>1
    <3>. QED
      BY <1>4, <3>2
  <2>. QED
    BY <2>1
<1>6. \A i \in (p + 1)..Len(stream) : ~(stream[i].tick <= t)
  <2>1. ASSUME NEW i \in (p + 1)..Len(stream) PROVE ~(stream[i].tick <= t)
    <3>1. i \in 1..Len(stream) /\ p + 1 \in 1..Len(stream) /\ p + 1 <= i /\ p < Len(stream)
      BY <1>3
    <3>2. stream[p + 1].tick <= stream[i].tick /\ stream[i].tick \in Nat
          /\ stream[p + 1].tick \in Nat
      BY <1>3, <3>1
    <3>. QED
      BY <1>4, <3>1, <3>2
  <2>. QED
    BY <2>1
<1>. QED
  BY <1>1, <1>4, <1>5, <1>6, NowIsThen

(* Before the first change past t0, they are those of the window so far.   *)
LEMMA QuietBase ==
  ASSUME SetUp, NEW p \in 0..Len(stream), \A i \in 1..p : stream[i].tick <= T0,
         NEW b \in T0..T1, p < Len(stream) => b < stream[p + 1].tick
  PROVE  \A t \in T0..b : Now(p) = Then(t)
<1>1. Served /\ Streamed
  BY SetUpFacts
<1>2. SUFFICES ASSUME NEW t \in T0..b PROVE Now(p) = Then(t)
  OBVIOUS
<1>3. Len(stream) \in Nat /\ (\A k \in 1..Len(stream) : stream[k].tick \in Nat)
      /\ \A i, j \in 1..Len(stream) : i <= j => stream[i].tick <= stream[j].tick
  BY <1>1, StreamFacts
<1>4. t \in Nat /\ b \in Nat /\ T0 <= t /\ t <= b /\ T0 \in Nat
  BY SetUpFacts DEF Times
<1>5. \A i \in 1..p : stream[i].tick <= t
  BY <1>3, <1>4
<1>6. \A i \in (p + 1)..Len(stream) : ~(stream[i].tick <= t)
  <2>1. ASSUME NEW i \in (p + 1)..Len(stream) PROVE ~(stream[i].tick <= t)
    <3>1. i \in 1..Len(stream) /\ p + 1 \in 1..Len(stream) /\ p + 1 <= i /\ p < Len(stream)
      BY <1>3
    <3>2. stream[p + 1].tick <= stream[i].tick /\ stream[i].tick \in Nat
          /\ stream[p + 1].tick \in Nat
      BY <1>3, <3>1
    <3>. QED
      BY <1>4, <3>1, <3>2
  <2>. QED
    BY <2>1
<1>. QED
  BY <1>1, <1>4, <1>5, <1>6, NowIsThen

(* What Open leaves, at a tick the values v belong to.                     *)
LEMMA Opened ==
  ASSUME NEW v, NEW t, Spans!Open(v, t)
  PROVE  /\ Spans!Holds(v) => /\ active' = TRUE /\ seg_start' = t
                              /\ seg_values' = Spans!show_values(v, q.show)
         /\ ~Spans!Holds(v) => active' = FALSE
BY DEF Spans!Open, Spans!Holds, Spans!any_clause_holds

LEMMA NoSpan == ASSUME NEW k, ~M(k), NEW start, NEW values PROVE SpanAt(k, FALSE, start, values)
BY DEF SpanAt

LEMMA Opening1 ==
  ASSUME SetUp, NEW b \in T0..T1, NEW v, \A t \in T0..b : Then(t) = v, Spans!Open(v, T0)
  PROVE  SpanAt(b, active', seg_start', seg_values') /\ Lists(b, << >>)
<1>1. Times /\ T0 \in T0..T1
  BY SetUpFacts DEF Times
<1>2. Same(T0, b) /\ (Spans!Holds(v) <=> M(T0)) /\ Spans!show_values(v, q.show) = V(T0)
  BY <1>1, ThenSame
<1>3. CASE M(T0)
  <2>1. active' = TRUE /\ seg_start' = T0 /\ seg_values' = V(T0)
    BY <1>2, <1>3, Opened
  <2>2. SpanAt(b, TRUE, T0, V(T0))
    BY <1>1, <1>2, <1>3, WindowOpens
  <2>. QED
    BY <1>1, <1>2, <2>1, <2>2, WindowOpens
<1>4. CASE ~M(T0)
  <2>1. active' = FALSE
    BY <1>2, <1>4, Opened
  <2>2. ~M(b)
    BY <1>1, <1>2, <1>4, WindowOpens
  <2>. DEFINE s == seg_start'
              w == seg_values'
  <2>. HIDE DEF s, w
  <2>3. SpanAt(b, FALSE, s, w)
    BY <2>2, NoSpan
  <2>. QED
    BY <1>1, <1>2, <2>1, <2>3, WindowOpens DEF s, w
<1>. QED
  BY <1>3, <1>4

(* The pending group is closed, at a tick that lasts up to b.              *)
LEMMA Closed ==
  ASSUME SetUp, Spanning, NEW b \in cur_t..T1, \A t \in cur_t..b : Then(t) = ahead,
         Spans!CloseGroup
  PROVE  /\ state' = Then(b)
         /\ truncated' \in BOOLEAN
         /\ truncated' => Finished(results', line.limit, total', TRUE)
         /\ ~truncated' => /\ SpanAt(b, active', seg_start', seg_values')
                           /\ Lists(b, results') /\ Within(results', line.limit, total')
<1>. DEFINE a == cur_t
            ends == Spans!EndsSpan(ahead)
            row == [begin |-> seg_start, end |-> cur_t, values |-> seg_values]
            k == a - 1
<1>1. Times /\ line.limit \in Nat /\ q.limit = line.limit
  BY SetUpFacts
<1>2. a \in (T0 + 1)..T1 /\ SpanAt(k, active, seg_start, seg_values)
      /\ Lists(k, results) /\ Within(results, line.limit, total) /\ truncated = FALSE
  BY DEF Spanning
<1>3. a \in T0..T1 /\ b \in a..T1 /\ k \in T0..T1 /\ k = a - 1 /\ a = k + 1 /\ b \in T0..T1
  BY <1>1, <1>2 DEF Times
<1>4. Same(a, b) /\ (Spans!Holds(ahead) <=> M(a)) /\ Spans!show_values(ahead, q.show) = V(a)
  <2>. HIDE DEF a
  <2>1. \A t \in a..b : Then(t) = ahead
    BY DEF a
  <2>. QED
    BY <1>3, <2>1, ThenSame
<1>5. ends \in BOOLEAN /\ (ends <=> active /\ (~M(a) \/ V(a) # seg_values))
  <2>1. active \in BOOLEAN
    BY <1>2 DEF SpanAt
  <2>. QED
    BY <1>4, <2>1 DEF Spans!EndsSpan
<1>6. state' = Then(b)
  <2>1. b \in cur_t..b
    BY <1>3, <1>1 DEF Times
  <2>. QED
    BY <2>1 DEF Spans!CloseGroup
<1>7. /\ IF ends THEN Spans!AppendResult(row) ELSE UNCHANGED <<results, total, truncated>>
      /\ IF active /\ ~ends THEN UNCHANGED <<active, seg_start, seg_values>>
                            ELSE Spans!Open(ahead, a)
  BY DEF Spans!CloseGroup
<1>8. ends => Spans!AppendResult(row)
  BY <1>7
<1>9. Spans!AppendResult(row)
      => Added(row, line.limit, results, total, results', total', truncated')
  BY <1>1, <1>2 DEF Spans!AppendResult, Added
<1>10. ~ends => results' = results /\ total' = total /\ truncated' = FALSE
  BY <1>2, <1>7
<1>11. active /\ ~ends => active' = active /\ seg_start' = seg_start /\ seg_values' = seg_values
  BY <1>7
<1>12. ~(active /\ ~ends) => Spans!Open(ahead, a)
  BY <1>7
<1>. HIDE DEF a, ends, k
<1>13. Closing(a, b, k, active, seg_start, seg_values)
       /\ (ends <=> Ends(k, a, seg_values)) /\ (active /\ ~ends <=> GoesOn(k, a, seg_values))
  BY <1>1, <1>2, <1>3, <1>4, <1>5 DEF Closing, Ends, GoesOn, SpanAt
<1>14. ends => Run(seg_start, k) /\ row = Row(seg_start, k)
  <2>1. ends => Run(seg_start, k) /\ seg_values = V(seg_start)
    BY <1>1, <1>13, GroupClosed
  <2>2. [begin |-> seg_start, end |-> a, values |-> V(seg_start)] = Row(seg_start, k)
    BY <1>1, <1>2, <1>3 DEF Row, Times
  <2>. QED
    BY <2>1, <2>2 DEF a
<1>15. ~ends => \A f : ~Run(f, k)
  BY <1>1, <1>13, GroupClosed
<1>16. active /\ ~ends => SpanAt(b, active, seg_start, seg_values)
  BY <1>1, <1>13, GroupClosed
<1>17. /\ ~(active /\ ~ends) /\ M(a) => SpanAt(b, TRUE, a, V(a))
       /\ ~(active /\ ~ends) /\ ~M(a) => ~M(b)
  BY <1>1, <1>13, GroupClosed
<1>18. SpanAt(b, active', seg_start', seg_values')
  <2>1. CASE active /\ ~ends
    BY <1>11, <1>16, <2>1
  <2>2. CASE ~(active /\ ~ends) /\ M(a)
    <3>1. active' = TRUE /\ seg_start' = a /\ seg_values' = V(a)
      BY <1>4, <1>12, <2>2, Opened
    <3>. QED
      BY <1>17, <2>2, <3>1
  <2>3. CASE ~(active /\ ~ends) /\ ~M(a)
    <3>1. active' = FALSE
      BY <1>4, <1>12, <2>3, Opened
    <3>. DEFINE s == seg_start'
                w == seg_values'
    <3>. HIDE DEF s, w
    <3>2. SpanAt(b, FALSE, s, w)
      BY <1>17, <2>3, NoSpan
    <3>. QED
      BY <3>1, <3>2 DEF s, w
  <2>. QED
    BY <1>5, <2>1, <2>2, <2>3
<1>. DEFINE rows1 == results'
            tot1 == total'
            cut1 == truncated'
<1>. HIDE DEF rows1, tot1, cut1, row
<1>20. \A f \in T0..T1, l \in T0..T1 : a <= l /\ l < b => ~Run(f, l)
  BY <1>1, <1>3, <1>4, SameNoRun
<1>21. a \in Nat /\ b \in a..(T1 + 1) /\ b \in k..(T1 + 1)
       /\ \A l \in T0..T1 : k <= l => l = k \/ a <= l
  BY <1>1, <1>3 DEF Times
<1>22. CASE ends
  <2>1. Run(seg_start, k) /\ row = Row(seg_start, k)
    BY <1>14, <1>22
  <2>2. Added(Row(seg_start, k), line.limit, results, total, rows1, tot1, cut1)
    <3>1. Added(row, line.limit, results, total, rows1, tot1, cut1)
      BY <1>8, <1>9, <1>22 DEF rows1, tot1, cut1
    <3>. QED
      BY <2>1, <3>1
  <2>3. Adding(k, a, seg_start, line.limit, results, total, rows1, tot1, cut1)
    BY <1>1, <1>2, <1>3, <2>1, <2>2 DEF Adding
  <2>4. cut1 \in BOOLEAN
    BY <1>1, <2>3, RunAdded
  <2>5. cut1 = TRUE => Finished(rows1, line.limit, tot1, TRUE)
    BY <1>1, <2>3, RunAdded
  <2>6. cut1 = FALSE => Lists(a, rows1) /\ Within(rows1, line.limit, tot1)
    BY <1>1, <2>3, RunAdded
  <2>7. cut1 = FALSE => Lists(b, rows1)
    <3>1. SUFFICES ASSUME cut1 = FALSE PROVE Lists(b, rows1)
      OBVIOUS
    <3>2. Lists(a, rows1)
      BY <2>6, <3>1
    <3>. QED
      BY <1>1, <1>3, <1>20, <1>21, <3>2, NoRunListed
  <2>. QED
    BY <1>6, <1>18, <2>4, <2>5, <2>6, <2>7 DEF rows1, tot1, cut1
<1>23. CASE ~ends
  <2>1. rows1 = results /\ tot1 = total /\ cut1 = FALSE
    BY <1>10, <1>23 DEF rows1, tot1, cut1
  <2>2. \A f : ~Run(f, k)
    BY <1>15, <1>23
  <2>3. \A f \in T0..T1, l \in T0..T1 : k <= l /\ l < b => ~Run(f, l)
    BY <1>20, <1>21, <2>2
  <2>4. Lists(b, results)
    BY <1>1, <1>2, <1>3, <1>21, <2>3, NoRunListed
  <2>. QED
    BY <1>2, <1>6, <1>18, <2>1, <2>4 DEF rows1, tot1, cut1
<1>. QED
  BY <1>5, <1>22, <1>23

(* The invariant of a step, from what it leaves in the primed variables.   *)
LEMMA SpanningNext ==
  ASSUME SetUp, SetUp', file' = file, line' = line, stream' = stream, q' = q,
         NEW p \in 1..Len(stream), pos' = p + 1, cur_t' = stream[p].tick,
         stream[p].tick \in (T0 + 1)..T1,
         state' = Then(stream[p].tick - 1), ahead' = Now(p),
         SpanAt(stream[p].tick - 1, active', seg_start', seg_values'),
         Lists(stream[p].tick - 1, results'), Within(results', line.limit, total'),
         truncated' = FALSE, pc' = "loop", inited' = TRUE
  PROVE  SpansInv'
<1>1. Len(stream) \in Nat /\ p \in Nat
  BY StreamFacts DEF SetUp
<1>2. pos' \in 1..(Len(stream') + 1) /\ pos' - 1 = p /\ pos' # 1
  BY <1>1
<1>. DEFINE t == stream[p].tick - 1
            rows == results'
            act == active'
            start == seg_start'
            values == seg_values'
<1>3. cur_t' - 1 = t
  OBVIOUS
<1>4. SpanAt(t, act, start, values) /\ Lists(t, rows)
  OBVIOUS
<1>5. (T0' = T0 /\ T1' = T1) /\ \A u : Then(u)' = Then(u)
  BY Fixed, StreamFixed
<1>6. Now(p)' = Now(p)
  BY StreamFixed
<1>7. state' = Then(cur_t - 1)' /\ cur_t' \in ((T0 + 1)..T1)'
  <2>. HIDE DEF t
  <2>1. state' = Then(t) /\ Then(t)' = Then(t)
    BY <1>5 DEF t
  <2>2. Then(cur_t - 1)' = Then(t)
    BY <1>3, <1>5 DEF Then
  <2>. QED
    BY <1>5, <2>1, <2>2
<1>8. ahead' = Now(pos - 1)'
  BY <1>2, <1>6 DEF Now
<1>. HIDE DEF t, rows, act, start, values
<1>9. Lists(cur_t - 1, results)'
  BY <1>3, <1>4, ListsFixed DEF rows
<1>10. SpanAt(cur_t - 1, active, seg_start, seg_values)'
  BY <1>3, <1>4, ListsFixed DEF act, start, values
<1>11. Within(results, line.limit, total)'
  BY DEF Within
<1>12. cur_t' = stream'[pos' - 1].tick
  BY <1>2
<1>13. Spanning'
  BY <1>2, <1>7, <1>8, <1>9, <1>10, <1>11, <1>12 DEF Spanning
<1>. QED
  BY <1>2, <1>13 DEF SpansInv

LEMMA SpansStep ==
  ASSUME SetUp, SpansInv, Spans!Next, file' = file, line' = line
  PROVE  SetUp' /\ SpansInv'
<1>. DEFINE N == Len(stream)
            e == stream[pos]
<1>1. stream' = stream /\ q' = q
  BY DEF Spans!Next, Spans!Baseline, Spans!FirstPastBegin, Spans!SameTick, Spans!NextTick,
         Spans!LastGroup, Spans!LateInitCheck, Spans!FinalEmit
<1>2. SetUp' /\ T0' = T0 /\ T1' = T1
  BY <1>1, StreamFixed, Fixed
<1>3. Served /\ Streamed /\ Times /\ q.t0 = T0 /\ q.t1 = T1 /\ q.limit = line.limit
      /\ line.limit \in Nat
  BY SetUpFacts
<1>4. N \in Nat /\ stream \in Seq(Change)
      /\ \A i, j \in 1..N : i <= j => stream[i].tick <= stream[j].tick
  BY <1>3, StreamFacts
<1>5. \A i \in 1..N : stream[i].tick \in Nat /\ stream[i].tick <= T1
  BY <1>3, StreamFacts
<1>6. ASSUME Spans!Looping
      PROVE  /\ pc = "loop" /\ pos \in 1..N /\ pos - 1 \in 0..N /\ pos + 1 - 1 = pos
             /\ pos + 1 \in 1..(N + 1) /\ pos \in Nat
             /\ Apply(Now(pos - 1), e) = Now(pos) /\ e.tick \in Nat /\ e.tick <= T1
             /\ inited \in BOOLEAN /\ (~inited => Base) /\ (inited => Spanning)
             /\ pos # 1 => stream[pos - 1].tick <= e.tick /\ pos - 1 \in 1..N
  <2>1. pc = "loop" /\ pos \in 1..(N + 1) /\ pos <= N
    BY <1>6 DEF Spans!Looping, SpansInv
  <2>2. pos \in 1..N /\ pos - 1 \in 0..N /\ pos + 1 - 1 = pos /\ pos + 1 \in 1..(N + 1)
        /\ pos \in Nat /\ (pos # 1 => pos - 1 \in 1..N /\ pos - 1 <= pos)
    BY <1>4, <2>1
  <2>3. Apply(Now(pos - 1), e) = Now(pos)
    BY <1>3, <2>2, NowApply
  <2>4. inited \in BOOLEAN /\ (~inited => Base) /\ (inited => Spanning)
    BY <2>1 DEF SpansInv
  <2>. QED
    BY <1>4, <1>5, <2>1, <2>2, <2>3, <2>4
<1>7. \A v, x : Spans!Apply(v, x) = Apply(v, x)
  BY DEF Spans!Apply, Apply
<1>8. Spans!Event = e
  BY DEF Spans!Event
<1>9. CASE Spans!Baseline
  <2>1. Spans!Looping /\ e.tick <= T0 /\ state' = Apply(state, e) /\ ahead' = state'
        /\ pos' = pos + 1
        /\ UNCHANGED <<cur_t, active, seg_start, seg_values, inited, results, total, truncated, pc>>
    BY <1>3, <1>7, <1>8, <1>9 DEF Spans!Baseline, Spans!InBaseline
  <2>2. ~inited
    <3>1. SUFFICES ASSUME inited PROVE FALSE
      BY <1>6, <2>1
    <3>2. pos # 1 /\ cur_t \in (T0 + 1)..T1 /\ cur_t = stream[pos - 1].tick
      BY <1>6, <2>1, <3>1 DEF Spanning
    <3>3. cur_t <= e.tick /\ e.tick \in Nat
      BY <1>6, <2>1, <3>2
    <3>. QED
      BY <1>3, <2>1, <3>2, <3>3 DEF Times
  <2>3. Base
    BY <1>6, <2>1, <2>2
  <2>4. state' = Now(pos) /\ ahead' = Now(pos)
    BY <1>6, <2>1, <2>3 DEF Base
  <2>5. Now(pos - 1)' = Now(pos)
    <3>1. pos' - 1 = pos
      BY <1>6, <2>1
    <3>. QED
      BY <1>1, <1>2, <3>1 DEF Now
  <2>6. \A i \in 1..(pos' - 1) : stream'[i].tick <= T0'
    <3>1. \A i \in 1..(pos - 1) : stream[i].tick <= T0
      BY <2>3 DEF Base
    <3>2. pos' - 1 = pos /\ \A i \in 1..pos : i = pos \/ i \in 1..(pos - 1)
      BY <1>6, <2>1
    <3>. QED
      BY <1>1, <1>2, <2>1, <3>1, <3>2
  <2>7. Base'
    BY <2>1, <2>3, <2>4, <2>5, <2>6 DEF Base
  <2>8. pc' = "loop" /\ inited' = FALSE /\ pos' \in 1..(Len(stream') + 1)
    BY <1>1, <1>6, <2>1, <2>2
  <2>. QED
    BY <1>2, <2>7, <2>8 DEF SpansInv
<1>10. CASE Spans!FirstPastBegin
  <2>1. Spans!Looping /\ ~(e.tick <= T0) /\ ~inited /\ Spans!Open(state, T0) /\ inited' = TRUE
        /\ cur_t' = e.tick /\ ahead' = Apply(state, e) /\ pos' = pos + 1 /\ pc' = pc
        /\ state' = state /\ results' = results /\ total' = total /\ truncated' = truncated
    BY <1>3, <1>7, <1>8, <1>10 DEF Spans!FirstPastBegin, Spans!InBaseline
  <2>2. Base
    BY <1>6, <2>1
  <2>. DEFINE b == e.tick - 1
  <2>3. b \in T0..T1 /\ b \in Nat /\ e.tick \in (T0 + 1)..T1 /\ b < e.tick
    BY <1>3, <1>6, <2>1 DEF Times
  <2>4. \A t \in T0..b : Then(t) = state
    <3>1. pos - 1 \in 0..N /\ pos - 1 + 1 = pos
      BY <1>6, <2>1
    <3>2. \A i \in 1..(pos - 1) : stream[i].tick <= T0
      BY <2>2 DEF Base
    <3>. DEFINE p == pos - 1
    <3>3. p \in 0..N /\ b < stream[p + 1].tick /\ (\A i \in 1..p : stream[i].tick <= T0)
      BY <2>3, <3>1, <3>2
    <3>. HIDE DEF p, b
    <3>4. \A t \in T0..b : Now(p) = Then(t)
      BY <2>3, <3>3, QuietBase
    <3>5. state = Now(p)
      BY <2>2 DEF Base, p
    <3>. QED
      BY <3>4, <3>5
  <2>5. SpanAt(b, active', seg_start', seg_values') /\ Lists(b, << >>)
    <3>. HIDE DEF b
    <3>. QED
      BY <2>1, <2>3, <2>4, Opening1
  <2>6. results' = << >> /\ total' = 0 /\ truncated' = FALSE /\ state = Now(pos - 1)
    BY <2>1, <2>2 DEF Base
  <2>7. Within(results', line.limit, total')
    BY <1>3, <2>6 DEF Within
  <2>8. ahead' = Now(pos)
    BY <1>6, <2>1, <2>6
  <2>9. state' = Then(b)
    <3>1. b \in T0..b
      BY <2>3
    <3>. QED
      BY <2>1, <2>4, <3>1
  <2>10. pos \in 1..N /\ pc' = "loop"
    BY <1>6, <2>1
  <2>11. SpansInv'
    BY <1>1, <1>2, <2>1, <2>3, <2>5, <2>6, <2>7, <2>8, <2>9, <2>10, SpanningNext
  <2>. QED
    BY <1>2, <2>11
<1>11. CASE Spans!SameTick
  <2>1. Spans!Looping /\ inited /\ e.tick = cur_t /\ ahead' = Apply(ahead, e) /\ pos' = pos + 1
        /\ state' = state /\ cur_t' = cur_t /\ active' = active /\ seg_start' = seg_start
        /\ seg_values' = seg_values /\ inited' = inited /\ results' = results /\ total' = total
        /\ truncated' = truncated /\ pc' = pc
    BY <1>7, <1>8, <1>11 DEF Spans!SameTick
  <2>2. Spanning /\ pos \in 1..N /\ pc' = "loop" /\ inited' = TRUE
    BY <1>6, <2>1
  <2>3. ahead' = Now(pos)
    BY <1>6, <2>1, <2>2 DEF Spanning
  <2>4. cur_t \in (T0 + 1)..T1 /\ state = Then(cur_t - 1)
        /\ SpanAt(cur_t - 1, active, seg_start, seg_values)
        /\ Lists(cur_t - 1, results) /\ Within(results, line.limit, total) /\ truncated = FALSE
    BY <2>2 DEF Spanning
  <2>5. SpansInv'
    BY <1>1, <1>2, <2>1, <2>2, <2>3, <2>4, SpanningNext
  <2>. QED
    BY <1>2, <2>5
<1>12. CASE Spans!NextTick
  <2>1. /\ Spans!Looping /\ inited /\ e.tick # cur_t /\ Spans!CloseGroup /\ inited' = inited
        /\ truncated' => pc' = "done"
        /\ ~truncated' => cur_t' = e.tick /\ ahead' = Apply(ahead, e) /\ pos' = pos + 1 /\ pc' = pc
    BY <1>7, <1>8, <1>12 DEF Spans!NextTick
  <2>2. Spanning /\ pos \in 1..N /\ pc = "loop"
    BY <1>6, <2>1
  <2>3. cur_t \in (T0 + 1)..T1 /\ cur_t = stream[pos - 1].tick /\ ahead = Now(pos - 1) /\ pos # 1
    BY <2>2 DEF Spanning
  <2>. DEFINE b == e.tick - 1
              p == pos - 1
  <2>4. b \in cur_t..T1 /\ b \in Nat /\ b < e.tick /\ e.tick \in (T0 + 1)..T1
    <3>1. cur_t <= e.tick /\ e.tick \in Nat /\ e.tick <= T1
      BY <1>6, <2>1, <2>3
    <3>. QED
      BY <1>3, <2>1, <2>3, <3>1 DEF Times
  <2>5. p \in 1..N /\ p + 1 = pos
    BY <1>6, <2>1, <2>3
  <2>6. \A t \in cur_t..b : Then(t) = ahead
    <3>1. b \in stream[p].tick..T1 /\ b < stream[p + 1].tick
      BY <2>3, <2>4, <2>5
    <3>2. cur_t = stream[p].tick /\ ahead = Now(p)
      BY <2>3
    <3>. HIDE DEF b, p
    <3>3. \A t \in stream[p].tick..b : Now(p) = Then(t)
      BY <2>5, <3>1, QuietUntil
    <3>. QED
      BY <3>2, <3>3
  <2>7. /\ state' = Then(b) /\ truncated' \in BOOLEAN
        /\ truncated' => Finished(results', line.limit, total', TRUE)
        /\ ~truncated' => /\ SpanAt(b, active', seg_start', seg_values')
                          /\ Lists(b, results') /\ Within(results', line.limit, total')
    <3>. HIDE DEF b
    <3>. QED
      BY <2>1, <2>2, <2>4, <2>6, Closed
  <2>8. CASE truncated' = TRUE
    <3>1. pc' = "done" /\ Finished(results', line.limit, total', TRUE)
      BY <2>1, <2>7, <2>8
    <3>2. Finished(results, line.limit, total, truncated)'
      BY <2>8, <3>1, ListsFixed
    <3>3. T0' < T1'
      BY <1>2, <1>3, <2>3 DEF Times
    <3>. QED
      BY <1>2, <3>1, <3>2, <3>3 DEF SpansInv, Over
  <2>9. CASE truncated' = FALSE
    <3>1. cur_t' = e.tick /\ ahead' = Apply(ahead, e) /\ pos' = pos + 1 /\ pc' = "loop"
          /\ inited' = TRUE
      BY <2>1, <2>2, <2>9
    <3>2. ahead' = Now(pos)
      BY <1>6, <2>1, <2>3, <3>1
    <3>3. SpanAt(b, active', seg_start', seg_values')
          /\ Lists(b, results') /\ Within(results', line.limit, total') /\ state' = Then(b)
      BY <2>7, <2>9
    <3>4. SpansInv'
      BY <1>1, <1>2, <2>2, <2>4, <2>9, <3>1, <3>2, <3>3, SpanningNext
    <3>. QED
      BY <1>2, <3>4
  <2>. QED
    BY <2>7, <2>8, <2>9
<1>13. CASE Spans!LastGroup
  <2>1. pc = "loop" /\ pos > N /\ inited /\ Spans!CloseGroup /\ pc' = "emit"
    BY <1>13 DEF Spans!LastGroup
  <2>2. Spanning /\ pos \in 1..(N + 1)
    BY <2>1 DEF SpansInv
  <2>3. cur_t \in (T0 + 1)..T1 /\ cur_t = stream[pos - 1].tick /\ ahead = Now(pos - 1) /\ pos # 1
    BY <2>2 DEF Spanning
  <2>4. pos = N + 1 /\ N \in 1..N /\ pos - 1 = N
    BY <1>4, <2>1, <2>2, <2>3
  <2>5. T1 \in cur_t..T1 /\ T0 < T1
    BY <1>3, <2>3 DEF Times
  <2>6. \A t \in cur_t..T1 : Then(t) = ahead
    <3>. DEFINE p == N
    <3>1. p \in 1..N /\ cur_t = stream[p].tick /\ ahead = Now(p) /\ ~(p < N)
      BY <1>4, <2>3, <2>4
    <3>. HIDE DEF p, N
    <3>2. \A t \in stream[p].tick..T1 : Now(p) = Then(t)
      BY <2>5, <3>1, QuietUntil DEF N
    <3>. QED
      BY <3>1, <3>2
  <2>7. /\ truncated' \in BOOLEAN
        /\ truncated' => Finished(results', line.limit, total', TRUE)
        /\ ~truncated' => /\ SpanAt(T1, active', seg_start', seg_values')
                          /\ Lists(T1, results') /\ Within(results', line.limit, total')
    BY <2>1, <2>2, <2>5, <2>6, Closed
  <2>8. CASE truncated' = TRUE
    <3>1. Finished(results, line.limit, total, TRUE)'
      BY <2>7, <2>8, ListsFixed
    <3>. QED
      BY <1>2, <2>1, <2>5, <2>8, <3>1 DEF SpansInv, Past
  <2>9. CASE truncated' = FALSE
    <3>1. SpanAt(T1, active', seg_start', seg_values') /\ Lists(T1, results')
          /\ Within(results', line.limit, total')
      BY <2>7, <2>9
    <3>2. SpanAt(T1, active, seg_start, seg_values)' /\ Lists(T1, results)'
      BY <1>2, <3>1, ListsFixed
    <3>3. Within(results, line.limit, total)'
      BY <3>1 DEF Within
    <3>. QED
      BY <1>2, <2>1, <2>5, <2>9, <3>2, <3>3 DEF SpansInv, Past
  <2>. QED
    BY <2>7, <2>8, <2>9
<1>14. CASE Spans!LateInitCheck
  <2>1. pc = "loop" /\ pos > N /\ ~inited /\ pc' = "emit" /\ state' = state
        /\ results' = results /\ total' = total /\ truncated' = truncated
        /\ IF T0 < T1 THEN Spans!Open(state, T0) ELSE active' = active
    BY <1>3, <1>14 DEF Spans!LateInitCheck
  <2>2. Base /\ pos = N + 1 /\ pos - 1 = N
    BY <1>4, <2>1 DEF SpansInv
  <2>3. results' = << >> /\ total' = 0 /\ truncated' = FALSE
    BY <2>1, <2>2 DEF Base
  <2>4. CASE T0 < T1
    <3>1. T1 \in T0..T1 /\ N \in 0..N /\ ~(N < N)
      BY <1>3, <1>4 DEF Times
    <3>2. \A i \in 1..N : stream[i].tick <= T0
      BY <2>2 DEF Base
    <3>3. \A t \in T0..T1 : Then(t) = state
      <4>1. \A t \in T0..T1 : Now(N) = Then(t)
        <5>. DEFINE p == N
        <5>1. p \in 0..N /\ ~(p < N) /\ (\A i \in 1..p : stream[i].tick <= T0)
          BY <3>1, <3>2
        <5>. HIDE DEF p, N
        <5>2. \A t \in T0..T1 : Now(p) = Then(t)
          BY <3>1, <5>1, QuietBase DEF N
        <5>. QED
          BY <5>2 DEF p
      <4>2. state = Now(N)
        BY <2>2 DEF Base
      <4>. QED
        BY <4>1, <4>2
    <3>4. SpanAt(T1, active', seg_start', seg_values') /\ Lists(T1, << >>)
      BY <2>1, <2>4, <3>1, <3>3, Opening1
    <3>5. SpanAt(T1, active, seg_start, seg_values)' /\ Lists(T1, results)'
      BY <1>2, <2>3, <3>4, ListsFixed
    <3>6. Within(results, line.limit, total)'
      BY <1>3, <2>3 DEF Within
    <3>. QED
      BY <1>2, <2>1, <2>3, <2>4, <3>5, <3>6 DEF SpansInv, Past
  <2>5. CASE ~(T0 < T1)
    <3>1. T0 = T1
      BY <1>3, <2>5 DEF Times
    <3>2. active' = FALSE
      BY <2>1, <2>2, <2>5 DEF Base
    <3>. QED
      BY <1>2, <2>1, <2>3, <3>1, <3>2 DEF SpansInv, Past
  <2>. QED
    BY <2>4, <2>5
<1>15. CASE Spans!FinalEmit
  <2>. DEFINE row == [begin |-> seg_start, end |-> T1, values |-> seg_values]
  <2>1. /\ pc = "emit" /\ pc' = "done"
        /\ IF active /\ ~truncated THEN Spans!AppendResult(row)
           ELSE results' = results /\ total' = total /\ truncated' = truncated
    BY <1>3, <1>15 DEF Spans!FinalEmit
  <2>2. Past
    BY <2>1 DEF SpansInv
  <2>3. CASE T0 = T1 /\ active = FALSE /\ results = << >> /\ total = 0 /\ truncated = FALSE
    BY <1>2, <2>1, <2>3 DEF SpansInv, Over
  <2>4. CASE /\ T0 < T1 /\ truncated = FALSE
             /\ SpanAt(T1, active, seg_start, seg_values)
             /\ Lists(T1, results) /\ Within(results, line.limit, total)
    <3>. DEFINE k == T1
                j == T1 + 1
    <3>1. k \in T0..T1 /\ j = k + 1 /\ j \in k..(T1 + 1) /\ T1 \in Nat
      BY <1>3 DEF Times
    <3>2. active \in BOOLEAN
      BY <2>4 DEF SpanAt
    <3>3. CASE active = TRUE
      <4>1. Run(seg_start, T1) /\ row = Row(seg_start, T1)
        BY <1>3, <2>4, <3>3, WindowEnds
      <4>2. Spans!AppendResult(row)
        BY <2>1, <2>4, <3>3
      <4>. HIDE DEF row
      <4>3. Added(row, line.limit, results, total, results', total', truncated')
        BY <1>3, <2>4, <4>2 DEF Spans!AppendResult, Added
      <4>. HIDE DEF j
      <4>4. Adding(T1, j, seg_start, line.limit, results, total, results', total', truncated')
        BY <1>3, <2>4, <3>1, <4>1, <4>3 DEF Adding
      <4>. DEFINE rows1 == results'
                  tot1 == total'
                  cut1 == truncated'
      <4>5. Adding(T1, j, seg_start, line.limit, results, total, rows1, tot1, cut1)
        BY <4>4
      <4>. HIDE DEF rows1, tot1, cut1
      <4>6. cut1 \in BOOLEAN
        BY <1>3, <4>5, RunAdded
      <4>7. cut1 = TRUE => Finished(rows1, line.limit, tot1, TRUE)
        BY <1>3, <4>5, RunAdded
      <4>8. cut1 = FALSE => Lists(j, rows1) /\ Within(rows1, line.limit, tot1)
        BY <1>3, <4>5, RunAdded
      <4>9. cut1 = FALSE => Finished(rows1, line.limit, tot1, FALSE)
        BY <1>3, <4>8, AllListed DEF j
      <4>10. Finished(rows1, line.limit, tot1, cut1)
        BY <4>6, <4>7, <4>9
      <4>11. Finished(results, line.limit, total, truncated)'
        BY <4>10, ListsFixed DEF rows1, tot1, cut1
      <4>. QED
        BY <1>2, <2>1, <2>4, <4>11 DEF SpansInv, Over
    <3>4. CASE active = FALSE
      <4>1. results' = results /\ total' = total /\ truncated' = FALSE
        BY <2>1, <2>4, <3>4
      <4>2. \A f : ~Run(f, T1)
        BY <1>3, <2>4, <3>4, WindowEnds
      <4>3. \A f \in T0..T1, l \in T0..T1 : k <= l /\ l < j => ~Run(f, l)
        <5>1. \A l \in T0..T1 : k <= l => l = T1
          BY <1>3 DEF Times
        <5>. QED
          BY <4>2, <5>1
      <4>4. Lists(j, results)
        <5>1. Lists(k, results)
          BY <2>4
        <5>. HIDE DEF k, j
        <5>. QED
          BY <1>3, <3>1, <4>3, <5>1, NoRunListed
      <4>5. Finished(results, line.limit, total, FALSE)
        BY <1>3, <2>4, <4>4, AllListed
      <4>6. Finished(results, line.limit, total, truncated)'
        BY <4>1, <4>5, ListsFixed
      <4>. QED
        BY <1>2, <2>1, <2>4, <4>6 DEF SpansInv, Over
    <3>. QED
      BY <3>2, <3>3, <3>4
  <2>5. CASE T0 < T1 /\ truncated = TRUE /\ Finished(results, line.limit, total, TRUE)
    <3>1. results' = results /\ total' = total /\ truncated' = TRUE
      BY <2>1, <2>5
    <3>2. Finished(results, line.limit, total, truncated)'
      BY <2>5, <3>1, ListsFixed
    <3>. QED
      BY <1>2, <2>1, <2>5, <3>2 DEF SpansInv, Over
  <2>. QED
    BY <2>2, <2>3, <2>4, <2>5 DEF Past
<1>. QED
  BY <1>9, <1>10, <1>11, <1>12, <1>13, <1>14, <1>15 DEF Spans!Next

-----------------------------------------------------------------------------
(* Event mode: the ticks that fire, and the list of those that have passed.*)

Fired(t) == Meant(At(t), {s \in Sid : Transitions(s, t)})
Shot(t) == [tick |-> t, values |-> V(t)]
Shots == {Shot(t) : t \in T0..T1}

(* The rows are the ticks before k that fire, in order.                    *)
ShotsUpTo(k, rows) ==
  /\ rows \in Seq(Shots)
  /\ \A i \in 1..Len(rows) : \E t \in T0..T1 : Fired(t) /\ t < k /\ rows[i] = Shot(t)
  /\ \A t \in T0..T1 : Fired(t) /\ t < k => \E i \in 1..Len(rows) : rows[i] = Shot(t)
  /\ \A i, j \in 1..Len(rows) : i < j => rows[i].tick < rows[j].tick

(* The rows are all the ticks that fire, or the earliest ones.             *)
Scored(rows, limit, tot, cut) ==
  /\ rows \in Seq(Shots)
  /\ \A i \in 1..Len(rows) : \E t \in T0..T1 : Fired(t) /\ rows[i] = Shot(t)
  /\ \A i, j \in 1..Len(rows) : i < j => rows[i].tick < rows[j].tick
  /\ \A t \in T0..T1 : Fired(t) => \/ \E i \in 1..Len(rows) : rows[i] = Shot(t)
                                   \/ cut /\ \A i \in 1..Len(rows) : rows[i].tick < t
  /\ cut \in BOOLEAN
  /\ ~cut => tot = Len(rows)
  /\ cut => /\ limit # 0 /\ Len(rows) = limit /\ tot = Len(rows) + 1
            /\ \E t \in T0..T1 : Fired(t) /\ \A i \in 1..Len(rows) : rows[i] # Shot(t)

(* The values v with the changes of g made.                                *)
Lasting(g, s) == {i \in DOMAIN g : g[i].sid = s}
After(g, v) ==
  [s \in Sid |-> IF Lasting(g, s) = {} THEN v[s] ELSE g[LastOf(Lasting(g, s))].val]

(* The first position of the pending group is the one after Before.        *)
Before == pos - 1 - Len(group)

Gathering ==
  /\ pos \in 1..(Len(stream) + 1)
  /\ group \in Seq(Change) /\ Before \in Nat
  /\ state = Now(Before) /\ After(group, state) = Now(pos - 1)
  /\ Within(results, line.limit, total) /\ truncated = FALSE
  /\ group = << >> => /\ cur_t = None /\ ShotsUpTo(T0, results)
                      /\ \A i \in 1..Before : stream[i].tick < T0
  /\ group # << >> => /\ cur_t \in T0..T1 /\ ShotsUpTo(cur_t, results)
                      /\ \A i \in 1..Before : stream[i].tick < cur_t
                      /\ \A i \in 1..Len(group) : /\ group[i] = stream[Before + i]
                                                  /\ stream[Before + i].tick = cur_t

EdgesInv ==
  /\ pc \in {"loop", "done"}
  /\ pc = "loop" => Gathering
  /\ pc = "done" => Scored(results, line.limit, total, truncated)

LEMMA ShotFields == ASSUME NEW t PROVE Shot(t).tick = t /\ Shot(t).values = V(t)
BY DEF Shot

(* The list of no rows, of the ticks before any that fires.                *)
LEMMA NoShotYet == ASSUME Times PROVE ShotsUpTo(T0, << >>)
<1>1. \A t \in T0..T1 : ~(t < T0)
  BY DEF Times
<1>2. Len(<< >>) = 0 /\ << >> \in Seq(Shots) /\ 1..0 = {}
  OBVIOUS
<1>. QED
  BY <1>1, <1>2 DEF ShotsUpTo

(* Where none fires there is none to list.                                 *)
LEMMA NoShotListed ==
  ASSUME Times, NEW k \in Nat, NEW j \in Nat, k <= j, NEW rows, ShotsUpTo(k, rows),
         \A t \in T0..T1 : k <= t /\ t < j => ~Fired(t)
  PROVE  ShotsUpTo(j, rows)
<1>1. \A t \in T0..T1 : (t < k => t < j) /\ (t < j => t < k \/ k <= t)
  BY DEF Times
<1>2. \A i \in 1..Len(rows) : \E t \in T0..T1 : Fired(t) /\ t < j /\ rows[i] = Shot(t)
  BY <1>1 DEF ShotsUpTo
<1>3. \A t \in T0..T1 : Fired(t) /\ t < j => \E i \in 1..Len(rows) : rows[i] = Shot(t)
  BY <1>1 DEF ShotsUpTo
<1>. QED
  BY <1>2, <1>3 DEF ShotsUpTo

LEMMA AllShotsListed ==
  ASSUME Times, NEW j, j = T1 + 1, NEW rows, ShotsUpTo(j, rows), NEW limit, NEW tot,
         Within(rows, limit, tot)
  PROVE  Scored(rows, limit, tot, FALSE)
<1>1. \A t \in T0..T1 : t < j
  BY DEF Times
<1>2. \A i \in 1..Len(rows) : \E t \in T0..T1 : Fired(t) /\ rows[i] = Shot(t)
  BY DEF ShotsUpTo
<1>3. \A t \in T0..T1 : Fired(t) => \E i \in 1..Len(rows) : rows[i] = Shot(t)
  BY <1>1 DEF ShotsUpTo
<1>4. tot = Len(rows) /\ rows \in Seq(Shots)
  BY DEF Within, ShotsUpTo
<1>5. \A i, j1 \in 1..Len(rows) : i < j1 => rows[i].tick < rows[j1].tick
  BY DEF ShotsUpTo
<1>. QED
  BY <1>2, <1>3, <1>4, <1>5 DEF Scored

(* Tick k fires: it is appended, or the list is full.                      *)
Shooting(k, j, limit, rows, tot, rows1, tot1, cut1) ==
  /\ k \in T0..T1 /\ j = k + 1 /\ Fired(k)
  /\ ShotsUpTo(k, rows) /\ Within(rows, limit, tot) /\ limit \in Nat
  /\ Added(Shot(k), limit, rows, tot, rows1, tot1, cut1)

LEMMA ShotAdded ==
  ASSUME Times, NEW k, NEW j, NEW limit, NEW rows, NEW tot, NEW rows1, NEW tot1, NEW cut1,
         Shooting(k, j, limit, rows, tot, rows1, tot1, cut1)
  PROVE  /\ cut1 \in BOOLEAN
         /\ cut1 = TRUE => Scored(rows1, limit, tot1, TRUE)
         /\ cut1 = FALSE => ShotsUpTo(j, rows1) /\ Within(rows1, limit, tot1)
<1>. DEFINE n == Len(rows)
            r == Shot(k)
<1>1. k \in T0..T1 /\ j = k + 1 /\ Fired(k) /\ limit \in Nat /\ k \in Nat /\ k < j /\ ~(k < k)
      /\ \A t \in T0..T1 : t \in Nat /\ (t < k => t < j) /\ (t < j => t < k \/ t = k)
                           /\ (~(t < k) => k <= t)
  BY DEF Shooting, Times
<1>2. rows \in Seq(Shots) /\ n \in Nat /\ tot = n /\ (limit = 0 \/ n <= limit)
  BY DEF Shooting, ShotsUpTo, Within
<1>3. Added(r, limit, rows, tot, rows1, tot1, cut1) /\ r \in Shots /\ r.tick = k
  BY <1>1, ShotFields DEF Shooting, Shots
<1>4. \A i \in 1..n : \E t \in T0..T1 : Fired(t) /\ t < k /\ rows[i] = Shot(t)
  BY DEF Shooting, ShotsUpTo
<1>5. \A t \in T0..T1 : Fired(t) /\ t < k => \E i \in 1..n : rows[i] = Shot(t)
  BY DEF Shooting, ShotsUpTo
<1>6. \A i, i1 \in 1..n : i < i1 => rows[i].tick < rows[i1].tick
  BY DEF Shooting, ShotsUpTo
<1>7. \A i \in 1..n : rows[i].tick < k /\ rows[i].tick \in Nat
  BY <1>1, <1>4, ShotFields
<1>8. CASE limit # 0 /\ Len(rows) >= limit
  <2>1. cut1 = TRUE /\ rows1 = rows /\ tot1 = tot + 1 /\ n = limit
    BY <1>1, <1>2, <1>3, <1>8 DEF Added
  <2>2. \A i \in 1..n : \E t \in T0..T1 : Fired(t) /\ rows[i] = Shot(t)
    BY <1>4
  <2>3. \A t \in T0..T1 : Fired(t) => \/ \E i \in 1..n : rows[i] = Shot(t)
                                      \/ \A i \in 1..n : rows[i].tick < t
    <3>1. ASSUME NEW t \in T0..T1, Fired(t), ~(t < k), NEW i \in 1..n PROVE rows[i].tick < t
      <4>1. k <= t /\ t \in Nat /\ rows[i].tick < k /\ rows[i].tick \in Nat
        BY <1>1, <1>7, <3>1
      <4>. QED
        BY <1>1, <4>1
    <3>. QED
      BY <1>5, <3>1
  <2>4. \A i \in 1..n : rows[i] # Shot(k)
    <3>1. \A i \in 1..n : rows[i].tick < k
      BY <1>7
    <3>2. Shot(k).tick = k /\ ~(k < k)
      BY <1>1, <1>3
    <3>. QED
      BY <3>1, <3>2
  <2>5. \E t \in T0..T1 : Fired(t) /\ \A i \in 1..n : rows[i] # Shot(t)
    BY <1>1, <2>4
  <2>6. Scored(rows, limit, tot + 1, TRUE)
    BY <1>2, <1>6, <1>8, <2>1, <2>2, <2>3, <2>5 DEF Scored
  <2>. QED
    BY <2>1, <2>6
<1>9. CASE ~(limit # 0 /\ Len(rows) >= limit)
  <2>. DEFINE more == Append(rows, r)
  <2>1. cut1 = FALSE /\ rows1 = more /\ tot1 = tot + 1
    BY <1>3, <1>9 DEF Added
  <2>2. more \in Seq(Shots) /\ Len(more) = n + 1 /\ more[n + 1] = r
        /\ \A i \in 1..n : more[i] = rows[i]
    <3>. HIDE DEF r
    <3>. QED
      BY <1>2, <1>3
  <2>3. Within(more, limit, tot + 1)
    BY <1>1, <1>2, <1>9, <2>2 DEF Within
  <2>4. 1..(n + 1) = 1..n \cup {n + 1} /\ n + 1 \in 1..(n + 1)
        /\ \A i, i1 \in 1..(n + 1) : i < i1 => i \in 1..n
    BY <1>2
  <2>. HIDE DEF n, more
  <2>5. ASSUME NEW i \in 1..(n + 1)
        PROVE  \E t \in T0..T1 : Fired(t) /\ t < j /\ more[i] = Shot(t)
    <3>1. CASE i \in 1..n
      <4>1. PICK t \in T0..T1 : Fired(t) /\ t < k /\ rows[i] = Shot(t)
        BY <1>4, <3>1
      <4>. QED
        BY <1>1, <2>2, <3>1, <4>1
    <3>2. CASE i = n + 1
      BY <1>1, <2>2, <3>2
    <3>. QED
      BY <2>4, <3>1, <3>2
  <2>6. ASSUME NEW t \in T0..T1, Fired(t), t < j PROVE \E i \in 1..(n + 1) : more[i] = Shot(t)
    <3>1. CASE t < k
      <4>1. PICK i \in 1..n : rows[i] = Shot(t)
        BY <1>5, <2>6, <3>1
      <4>. QED
        BY <2>2, <2>4, <4>1
    <3>2. CASE t = k
      BY <2>2, <2>4, <3>2
    <3>. QED
      BY <1>1, <2>6, <3>1, <3>2
  <2>7. ASSUME NEW i \in 1..(n + 1), NEW i1 \in 1..(n + 1), i < i1
        PROVE  more[i].tick < more[i1].tick
    <3>1. i \in 1..n
      BY <2>4, <2>7
    <3>2. CASE i1 \in 1..n
      BY <1>6, <2>2, <2>7, <3>1, <3>2
    <3>3. CASE i1 = n + 1
      <4>1. more[i].tick < k
        BY <1>7, <2>2, <3>1
      <4>2. more[i1].tick = k
        BY <1>3, <2>2, <3>3
      <4>. QED
        BY <4>1, <4>2
    <3>. QED
      BY <2>4, <3>2, <3>3
  <2>8. Len(more) = n + 1 /\ more \in Seq(Shots)
    BY <2>2
  <2>9. ShotsUpTo(j, more)
    BY <2>5, <2>6, <2>7, <2>8 DEF ShotsUpTo
  <2>. QED
    BY <2>1, <2>3, <2>9
<1>. QED
  BY <1>8, <1>9

(* The changes of a group, made in order.                                  *)
LEMMA AfterNone == ASSUME NEW v \in States PROVE After(<< >>, v) = v
<1>1. \A s : Lasting(<< >>, s) = {}
  BY DEF Lasting
<1>. QED
  BY <1>1 DEF After, States

LEMMA AfterMore ==
  ASSUME NEW g \in Seq(Change), NEW e \in Change, NEW v
  PROVE  After(Append(g, e), v) = Apply(After(g, v), e)
<1>. DEFINE n == Len(g)
            y == Append(g, e)
<1>1. n \in Nat /\ Len(y) = n + 1 /\ y[n + 1] = e /\ \A i \in 1..n : y[i] = g[i]
  OBVIOUS
<1>2. DOMAIN g = 1..n /\ DOMAIN y = 1..(n + 1)
  <2>1. y \in Seq(Change)
    OBVIOUS
  <2>2. DOMAIN y = 1..Len(y)
    BY <2>1
  <2>. QED
    BY <1>1, <2>2
<1>. HIDE DEF n, y
<1>3. ASSUME NEW s \in Sid
      PROVE  (IF Lasting(y, s) = {} THEN v[s] ELSE y[LastOf(Lasting(y, s))].val)
             = IF e.sid = s THEN e.val
               ELSE IF Lasting(g, s) = {} THEN v[s] ELSE g[LastOf(Lasting(g, s))].val
  <2>. DEFINE T == Lasting(g, s)
              U == Lasting(y, s)
  <2>1. T \in SUBSET (1..n) /\ U \in SUBSET (1..(n + 1))
    BY <1>2 DEF Lasting
  <2>2. \A i \in 1..n : i \in U <=> i \in T
    BY <1>1, <1>2 DEF Lasting
  <2>3. n + 1 \in U <=> e.sid = s
    BY <1>1, <1>2 DEF Lasting
  <2>. HIDE DEF T, U
  <2>4. CASE e.sid = s
    <3>. DEFINE m == n + 1
    <3>1. m \in Nat /\ U \in SUBSET (1..m) /\ m \in U
      BY <1>1, <2>1, <2>3, <2>4
    <3>. HIDE DEF m
    <3>2. U # {} /\ LastOf(U) \in U /\ \A j \in U : j <= LastOf(U)
      BY <3>1, LastOfIs
    <3>3. LastOf(U) \in 1..m /\ m <= LastOf(U)
      BY <3>1, <3>2
    <3>4. LastOf(U) = m
      BY <3>1, <3>3
    <3>5. LastOf(U) = n + 1
      BY <3>4 DEF m
    <3>. QED
      BY <1>1, <2>4, <3>2, <3>5 DEF U
  <2>5. CASE e.sid # s
    <3>1. U = T
      <4>1. n + 1 \notin U
        BY <2>3, <2>5
      <4>2. \A i \in U : i \in 1..n
        BY <1>1, <2>1, <4>1
      <4>. QED
        BY <2>1, <2>2, <4>2
    <3>2. CASE T = {}
      BY <2>5, <3>1, <3>2 DEF T, U
    <3>3. CASE T # {}
      <4>1. LastOf(T) \in 1..n
        BY <1>1, <2>1, <3>3, LastOfIs
      <4>2. y[LastOf(T)] = g[LastOf(T)]
        BY <1>1, <4>1
      <4>. QED
        BY <2>5, <3>1, <3>3, <4>2 DEF T, U
    <3>. QED
      BY <3>2, <3>3
  <2>. QED
    BY <2>4, <2>5
<1>4. After(y, v) = [s \in Sid |-> IF e.sid = s THEN e.val ELSE After(g, v)[s]]
  BY <1>3 DEF After
<1>5. Apply(After(g, v), e) = [s \in Sid |-> IF e.sid = s THEN e.val ELSE After(g, v)[s]]
  BY DEF Apply, After
<1>. QED
  BY <1>4, <1>5 DEF y

-----------------------------------------------------------------------------
(* What makes a tick fire.                                                 *)

LEMMA StreamHolds ==
  ASSUME Served, Streamed
  PROVE  /\ \A j \in 1..Len(stream) : \E k \in 1..Len(file) : stream[j] = file[k]
         /\ \A k \in 1..Len(file) : file[k].tick <= T1 /\ file[k].sid \in selected
                                    => \E j \in 1..Len(stream) : stream[j] = file[k]
<1>1. T1 \in Nat /\ file \in Seq(Change) /\ ByTick(file)
  BY ServedTimes DEF Times, Served
<1>2. Holding(stream, Len(file), T1, selected)
  BY <1>1, BufferedHolds DEF Streamed
<1>. QED
  BY <1>2 DEF Holding, Loaded

(* The values before tick t.                                               *)
Prior(t) == [s \in Sid |-> IF t = 0 THEN Undef ELSE ValueAt(stream, s, t - 1)]

LEMMA PriorIs ==
  ASSUME SetUp, NEW p \in 0..Len(stream), NEW t \in 0..T1,
         \A i \in 1..p : stream[i].tick < t,
         \A i \in (p + 1)..Len(stream) : ~(stream[i].tick < t)
  PROVE  Now(p) = Prior(t)
<1>1. Served /\ Streamed /\ T1 \in Nat /\ t \in Nat
  BY SetUpFacts DEF Times
<1>2. Len(stream) \in Nat /\ \A i \in 1..Len(stream) : stream[i].tick \in Nat
  BY <1>1, StreamFacts
<1>3. CASE t = 0
  <2>1. p = 0
    <3>1. SUFFICES ASSUME p # 0 PROVE FALSE
      OBVIOUS
    <3>2. p \in 1..p /\ p \in 1..Len(stream)
      BY <1>2, <3>1
    <3>. QED
      BY <1>2, <1>3, <3>2
  <2>. QED
    BY <1>1, <1>3, <2>1, NowBegins DEF Prior, AllUndef
<1>4. CASE t # 0
  <2>. DEFINE u == t - 1
  <2>1. u \in Nat /\ \A n \in Nat : n <= u <=> n < t
    BY <1>1, <1>4
  <2>2. (\A i \in 1..p : i \in 1..Len(stream))
        /\ \A i \in (p + 1)..Len(stream) : i \in 1..Len(stream)
    BY <1>2
  <2>. HIDE DEF u
  <2>3. \A i \in 1..p : stream[i].tick <= u
    BY <1>2, <2>1, <2>2
  <2>4. \A i \in (p + 1)..Len(stream) : ~(stream[i].tick <= u)
    BY <1>2, <2>1, <2>2
  <2>5. Now(p) = Then(u)
    BY <1>1, <2>1, <2>3, <2>4, NowIsThen
  <2>. QED
    BY <1>4, <2>5 DEF Prior, Then, StateAt, u
<1>. QED
  BY <1>3, <1>4

(* The change e of tick t is a transition from the values v.               *)
Moves(e, t, v) == (e.sid \in EventSid /\ t # 0) \/ (v[e.sid] # Undef /\ v[e.sid] # e.val)

LEMMA TransitionsAre ==
  ASSUME SetUp, NEW t \in 0..T1, NEW s \in selected
  PROVE  Transitions(s, t)
         <=> \E j \in 1..Len(stream) : /\ stream[j].sid = s /\ stream[j].tick = t
                                       /\ Moves(stream[j], t, Prior(t))
<1>1. Served /\ Streamed /\ T1 \in Nat /\ t \in Nat /\ LineOk /\ Answerable /\ t <= T1
  BY SetUpFacts DEF Times, Served
<1>2. s \in Sid
  BY <1>1, SelectedAreSids
<1>. DEFINE before == IF t = 0 THEN Undef ELSE ValueAt(file, s, t - 1)
<1>3. Prior(t)[s] = before
  <2>1. CASE t = 0
    BY <1>2, <2>1 DEF Prior
  <2>2. CASE t # 0
    <3>1. t - 1 \in 0..T1
      BY <1>1, <2>2
    <3>2. ValueAt(stream, s, t - 1) = ValueAt(file, s, t - 1)
      BY <1>1, <3>1, StreamFacts
    <3>. QED
      BY <1>2, <2>2, <3>2 DEF Prior
  <2>. QED
    BY <2>1, <2>2
<1>4. DOMAIN file = 1..Len(file)
  BY <1>1 DEF Served
<1>5. Transitions(s, t)
      <=> \E i \in DOMAIN file : /\ file[i].sid = s /\ file[i].tick = t
                                 /\ \/ s \in EventSid /\ t # 0
                                    \/ before # Undef /\ file[i].val # before
  BY DEF Transitions
<1>. HIDE DEF before
<1>6. \A e : e.sid = s => (Moves(e, t, Prior(t)) <=> \/ s \in EventSid /\ t # 0
                                                     \/ before # Undef /\ e.val # before)
  BY <1>3 DEF Moves
<1>7. Transitions(s, t)
      <=> \E i \in 1..Len(file) : file[i].sid = s /\ file[i].tick = t /\ Moves(file[i], t, Prior(t))
  BY <1>4, <1>5, <1>6
<1>8. ASSUME NEW i \in 1..Len(file), file[i].sid = s /\ file[i].tick = t
      PROVE  \E j \in 1..Len(stream) : stream[j] = file[i]
  BY <1>1, <1>8, StreamHolds
<1>9. \A j \in 1..Len(stream) : \E i \in 1..Len(file) : stream[j] = file[i]
  BY <1>1, StreamHolds
<1>. HIDE DEF Moves
<1>. QED
  BY <1>7, <1>8, <1>9

(* A tick without a change of the stream does not fire: every clause of an *)
(* event search names a transition.                                        *)
LEMMA NoneFires ==
  ASSUME SetUp, EventMode, NEW t \in T0..T1, \A j \in 1..Len(stream) : stream[j].tick # t
  PROVE  ~Fired(t)
<1>1. SUFFICES ASSUME Fired(t) PROVE FALSE
  OBVIOUS
<1>2. Served /\ LineOk /\ Answerable /\ t \in 0..T1 /\ changed_sids # {}
  BY SetUpFacts DEF Times, Served, EventMode
<1>. DEFINE d == {s \in Sid : Transitions(s, t)}
<1>3. any_clause_holds(At(t), d, clauses)
  BY <1>1, <1>2, Meaning DEF Fired
<1>4. PICK cl \in clauses : ClauseHolds(At(t), d, cl)
  BY <1>3 DEF any_clause_holds
<1>5. HasChanged(cl)
  <2>1. PICK u \in UNION clauses : u.changed
    BY <1>2 DEF changed_sids
  <2>2. \E c \in clauses : HasChanged(c)
    BY <2>1 DEF HasChanged
  <2>3. \A c \in clauses : HasChanged(c)
    BY <1>2, <2>2 DEF Answerable
  <2>. QED
    BY <2>3
<1>6. PICK u \in cl : u.changed
  BY <1>5 DEF HasChanged
<1>7. u.sid \in d
  BY <1>4, <1>6 DEF ClauseHolds
<1>8. u.sid \in selected
  BY <1>2, <1>6, SelectedAreSids
<1>9. Transitions(u.sid, t)
  BY <1>7
<1>10. \E j \in 1..Len(stream) : stream[j].sid = u.sid /\ stream[j].tick = t
  BY <1>2, <1>8, <1>9, TransitionsAre
<1>. QED
  BY <1>10

(* The pending group holds all the changes of its tick.                    *)
Whole == Gathering /\ group # << >> /\ (pos <= Len(stream) => stream[pos].tick # cur_t)

LEMMA WholeFacts ==
  ASSUME SetUp, Whole
  PROVE  /\ Before \in 0..Len(stream) /\ pos - 1 \in 0..Len(stream) /\ Before + Len(group) = pos - 1
         /\ Len(group) \in Nat /\ pos \in Nat /\ pos - 1 \in 1..Len(stream)
         /\ cur_t \in T0..T1 /\ cur_t \in Nat /\ stream[pos - 1].tick = cur_t
         /\ \A i \in 1..Before : stream[i].tick < cur_t
         /\ \A i \in (Before + 1)..(pos - 1) : stream[i].tick = cur_t /\ stream[i] = group[i - Before]
         /\ \A i \in pos..Len(stream) : stream[i].tick > cur_t
<1>1. Served /\ Streamed /\ Times
  BY SetUpFacts
<1>2. Len(stream) \in Nat /\ (\A i \in 1..Len(stream) : stream[i].tick \in Nat)
      /\ \A i, j \in 1..Len(stream) : i <= j => stream[i].tick <= stream[j].tick
  BY <1>1, StreamFacts
<1>3. /\ pos \in 1..(Len(stream) + 1) /\ group \in Seq(Change) /\ Before \in Nat /\ group # << >>
      /\ cur_t \in T0..T1 /\ \A i \in 1..Before : stream[i].tick < cur_t
  BY DEF Whole, Gathering
<1>4. \A i \in 1..Len(group) : group[i] = stream[Before + i] /\ stream[Before + i].tick = cur_t
  BY DEF Whole, Gathering
<1>5. Len(group) \in Nat /\ Len(group) # 0
  BY <1>3
<1>6. pos \in Nat /\ cur_t \in Nat
  BY <1>2, <1>3, <1>1 DEF Times
<1>7. Before + Len(group) = pos - 1
  BY <1>5, <1>6 DEF Before
<1>. DEFINE h == Before
            n == Len(group)
<1>8. h \in Nat /\ n \in Nat /\ n # 0 /\ h + n = pos - 1 /\ pos \in 1..(Len(stream) + 1)
  BY <1>3, <1>5, <1>7
<1>9. \A i \in 1..n : group[i] = stream[h + i] /\ stream[h + i].tick = cur_t
  BY <1>4
<1>. HIDE DEF h, n
<1>10. h \in 0..Len(stream) /\ pos - 1 \in 0..Len(stream) /\ pos - 1 \in 1..Len(stream)
  BY <1>2, <1>6, <1>8
<1>11. ASSUME NEW i \in (h + 1)..(pos - 1)
       PROVE  stream[i].tick = cur_t /\ stream[i] = group[i - h]
  <2>. DEFINE j == i - h
  <2>1. j \in 1..n /\ h + j = i
    BY <1>6, <1>8
  <2>. HIDE DEF j
  <2>2. group[j] = stream[h + j] /\ stream[h + j].tick = cur_t
    BY <1>9, <2>1
  <2>. QED
    BY <2>1, <2>2 DEF j
<1>12. stream[pos - 1].tick = cur_t
  <2>1. pos - 1 \in (h + 1)..(pos - 1)
    BY <1>6, <1>8
  <2>. QED
    BY <1>11, <2>1
<1>13. ASSUME NEW i \in pos..Len(stream) PROVE stream[i].tick > cur_t
  <2>1. pos \in 1..Len(stream) /\ i \in 1..Len(stream) /\ pos <= i /\ pos - 1 <= pos
    BY <1>2, <1>6, <1>8
  <2>2. stream[pos].tick # cur_t
    BY <2>1 DEF Whole
  <2>3. stream[pos - 1].tick <= stream[pos].tick /\ stream[pos].tick <= stream[i].tick
        /\ stream[pos].tick \in Nat /\ stream[i].tick \in Nat
    BY <1>2, <1>10, <2>1
  <2>. QED
    BY <1>6, <1>12, <2>2, <2>3
<1>. QED
  BY <1>3, <1>5, <1>6, <1>7, <1>10, <1>11, <1>12, <1>13 DEF h, n

(* Whose changes count is decided as the file would.                       *)
LEMMA ChangedAre ==
  ASSUME SetUp, Whole
  PROVE  Edges!Changed \cap selected = {s \in Sid : Transitions(s, cur_t)} \cap selected
<1>1. Served /\ Streamed /\ Times /\ LineOk /\ Answerable
  BY SetUpFacts DEF Served
<1>2. cur_t \in T0..T1 /\ cur_t \in 0..T1 /\ cur_t \in Nat
  BY <1>1, WholeFacts DEF Times
<1>3. state = Prior(cur_t)
  <2>1. state = Now(Before)
    BY DEF Whole, Gathering
  <2>. DEFINE h == Before
  <2>2. h \in 0..Len(stream) /\ \A i \in 1..h : stream[i].tick < cur_t
    BY WholeFacts
  <2>3. \A i \in (h + 1)..Len(stream) : ~(stream[i].tick < cur_t)
    <3>1. ASSUME NEW i \in (h + 1)..Len(stream) PROVE ~(stream[i].tick < cur_t)
      <4>1. i \in (h + 1)..(pos - 1) \/ i \in pos..Len(stream)
        BY WholeFacts, <2>2
      <4>2. i \in 1..Len(stream) /\ stream[i].tick \in Nat
        <5>1. i \in 1..Len(stream)
          BY <2>2
        <5>. QED
          BY <1>1, <5>1, StreamFacts
      <4>3. stream[i].tick = cur_t \/ stream[i].tick > cur_t
        BY <4>1, WholeFacts
      <4>. QED
        BY <1>2, <4>2, <4>3
    <3>. QED
      BY <3>1
  <2>. HIDE DEF h
  <2>4. Now(h) = Prior(cur_t)
    BY <1>2, <2>2, <2>3, PriorIs
  <2>. QED
    BY <2>1, <2>4 DEF h
<1>4. group \in Seq(Change) /\ DOMAIN group = 1..Len(group) /\ Len(group) \in Nat
  BY DEF Whole, Gathering
<1>5. ASSUME NEW e \in Change PROVE Edges!IsChange(e, cur_t) <=> Moves(e, cur_t, state)
  <2>1. e.sid \in Sid
    BY DEF Change
  <2>2. cur_t = 0 => state[e.sid] = Undef
    BY <1>3, <2>1 DEF Prior
  <2>. QED
    BY <2>2 DEF Edges!IsChange, Moves
<1>6. \A i \in 1..Len(group) : group[i] \in Change
  BY <1>4
<1>7. \A s : s \in Edges!Changed
             <=> \E i \in 1..Len(group) : group[i].sid = s /\ Edges!IsChange(group[i], cur_t)
  BY <1>4 DEF Edges!Changed
<1>8. \A s : s \in Edges!Changed
             <=> \E i \in 1..Len(group) : group[i].sid = s /\ Moves(group[i], cur_t, state)
  BY <1>5, <1>6, <1>7
<1>9. \A s \in selected :
        s \in Edges!Changed
        <=> \E j \in 1..Len(stream) : /\ stream[j].sid = s /\ stream[j].tick = cur_t
                                      /\ Moves(stream[j], cur_t, state)
  <2>. DEFINE h == Before
              n == Len(group)
  <2>1. \A i \in 1..n : h + i \in 1..Len(stream) /\ group[i] = stream[h + i]
                        /\ stream[h + i].tick = cur_t
    <3>1. \A i \in 1..n : group[i] = stream[h + i] /\ stream[h + i].tick = cur_t
      BY DEF Whole, Gathering
    <3>2. h \in 0..Len(stream) /\ h + n = pos - 1 /\ pos - 1 \in 0..Len(stream) /\ n \in Nat
      BY WholeFacts
    <3>3. Len(stream) \in Nat
      BY <1>1, StreamFacts
    <3>4. \A i \in 1..n : h + i \in 1..Len(stream)
      BY <3>2, <3>3
    <3>. QED
      BY <3>1, <3>4
  <2>2. ASSUME NEW j \in 1..Len(stream), stream[j].tick = cur_t
        PROVE  \E i \in 1..n : stream[j] = group[i]
    <3>1. /\ h \in 0..Len(stream) /\ h + n = pos - 1 /\ n \in Nat /\ pos \in Nat
      BY WholeFacts
    <3>2. ~(j \in 1..h) /\ ~(j \in pos..Len(stream))
      BY <1>2, <2>2, WholeFacts
    <3>3. Len(stream) \in Nat
      BY <1>1, StreamFacts
    <3>4. j \in (h + 1)..(pos - 1) /\ j - h \in 1..n
      BY <3>1, <3>2, <3>3
    <3>5. stream[j] = group[j - h]
      BY <3>4, WholeFacts
    <3>. QED
      BY <3>4, <3>5
  <2>. HIDE DEF h, n
  <2>3. \A s : s \in Edges!Changed
               <=> \E i \in 1..n : group[i].sid = s /\ Moves(group[i], cur_t, state)
    BY <1>8 DEF n
  <2>. HIDE DEF Moves
  <2>4. ASSUME NEW s, s \in Edges!Changed
        PROVE  \E j \in 1..Len(stream) : /\ stream[j].sid = s /\ stream[j].tick = cur_t
                                         /\ Moves(stream[j], cur_t, state)
    <3>1. PICK i \in 1..n : group[i].sid = s /\ Moves(group[i], cur_t, state)
      BY <2>3, <2>4
    <3>. DEFINE j == h + i
    <3>2. j \in 1..Len(stream) /\ group[i] = stream[j] /\ stream[j].tick = cur_t
      BY <2>1
    <3>. HIDE DEF j
    <3>. QED
      BY <3>1, <3>2
  <2>5. ASSUME NEW s, NEW j \in 1..Len(stream), stream[j].sid = s, stream[j].tick = cur_t,
               Moves(stream[j], cur_t, state)
        PROVE  s \in Edges!Changed
    <3>1. PICK i \in 1..n : stream[j] = group[i]
      BY <2>2, <2>5
    <3>. QED
      BY <2>3, <2>5, <3>1
  <2>. QED
    BY <2>4, <2>5
<1>10. \A s \in selected : s \in Edges!Changed <=> Transitions(s, cur_t)
  <2>1. \A s \in selected :
          Transitions(s, cur_t)
          <=> \E j \in 1..Len(stream) : /\ stream[j].sid = s /\ stream[j].tick = cur_t
                                        /\ Moves(stream[j], cur_t, state)
    BY <1>2, <1>3, TransitionsAre
  <2>. QED
    BY <1>9, <2>1
<1>11. \A s \in selected : s \in Sid
  BY <1>1, SelectedAreSids
<1>. QED
  BY <1>10, <1>11

(* process_group fires where the tick does, and shows what it leaves.      *)
LEMMA GroupJudged ==
  ASSUME SetUp, Whole
  PROVE  /\ Edges!AfterGroup = Now(pos - 1)
         /\ Edges!Fires <=> Fired(cur_t)
         /\ Edges!show_values(Edges!AfterGroup, q.show) = V(cur_t)
<1>1. Served /\ Streamed /\ Times /\ q.clauses = clauses /\ q.show = show_sids
  BY SetUpFacts
<1>2. cur_t \in T0..T1 /\ cur_t \in 0..T1 /\ cur_t \in Nat
  BY <1>1, WholeFacts DEF Times
<1>3. Edges!AfterGroup = Now(pos - 1)
  <2>1. Edges!AfterGroup = After(group, state)
    BY DEF Edges!AfterGroup, After, Lasting, LastOf
  <2>. QED
    BY <2>1 DEF Whole, Gathering
<1>4. Now(pos - 1) = Then(cur_t)
  <2>. DEFINE p == pos - 1
  <2>1. p \in 1..Len(stream) /\ stream[p].tick = cur_t
    BY WholeFacts
  <2>2. p < Len(stream) => cur_t < stream[p + 1].tick
    <3>1. SUFFICES ASSUME p < Len(stream) PROVE cur_t < stream[p + 1].tick
      OBVIOUS
    <3>2. p + 1 = pos /\ pos \in pos..Len(stream)
      BY <1>1, <3>1, WholeFacts, StreamFacts
    <3>3. stream[pos].tick > cur_t
      BY <3>2, WholeFacts
    <3>. QED
      BY <3>2, <3>3
  <2>3. cur_t \in cur_t..T1 /\ cur_t \in cur_t..cur_t
    BY <1>1, <1>2 DEF Times
  <2>. HIDE DEF p
  <2>4. \A t \in stream[p].tick..cur_t : Now(p) = Then(t)
    BY <2>1, <2>2, <2>3, QuietUntil
  <2>. QED
    BY <2>1, <2>3, <2>4 DEF p
<1>. DEFINE c == Edges!Changed
            d == {s \in Sid : Transitions(s, cur_t)}
<1>5. c \cap selected = d \cap selected
  BY ChangedAre
<1>6. Edges!Fires <=> any_clause_holds(Then(cur_t), c, clauses)
  BY <1>1, <1>3, <1>4 DEF Edges!Fires, Edges!any_clause_holds, Edges!ClauseHolds,
                          any_clause_holds, ClauseHolds
<1>7. Fired(cur_t) <=> Meant(At(cur_t), d)
  BY DEF Fired
<1>8. Edges!show_values(Edges!AfterGroup, q.show) = show_values(Then(cur_t), show_sids)
  BY <1>1, <1>3, <1>4 DEF Edges!show_values, show_values
<1>. HIDE DEF c, d
<1>. QED
  BY <1>1, <1>2, <1>3, <1>5, <1>6, <1>7, <1>8, Judged

-----------------------------------------------------------------------------
(* The steps of the collector of event mode.                               *)

LEMMA ShotsFixed ==
  ASSUME file' = file, line' = line
  PROVE  /\ \A k, rows : ShotsUpTo(k, rows) => ShotsUpTo(k, rows)'
         /\ \A rows, limit, tot, cut : Scored(rows, limit, tot, cut) => Scored(rows, limit, tot, cut)'
<1>1. T0' = T0 /\ T1' = T1 /\ \A t : V(t)' = V(t)
  BY Fixed
<1>2. \A t : Shot(t)' = Shot(t)
  BY <1>1 DEF Shot
<1>3. Shots' = Shots
  BY <1>1, <1>2 DEF Shots
<1>4. \A t : Fired(t)' <=> Fired(t)
  BY DEF Fired, Meant, At, Transitions
<1>5. ASSUME NEW k, NEW rows, ShotsUpTo(k, rows) PROVE ShotsUpTo(k, rows)'
  <2>1. rows \in Seq(Shots)'
    BY <1>3, <1>5 DEF ShotsUpTo
  <2>2. \A i \in 1..Len(rows) : \E t \in (T0..T1)' : Fired(t)' /\ t < k /\ rows[i] = Shot(t)'
    BY <1>1, <1>2, <1>4, <1>5 DEF ShotsUpTo
  <2>3. \A t \in (T0..T1)' : Fired(t)' /\ t < k => \E i \in 1..Len(rows) : rows[i] = Shot(t)'
    BY <1>1, <1>2, <1>4, <1>5 DEF ShotsUpTo
  <2>4. \A i, j \in 1..Len(rows) : i < j => rows[i].tick < rows[j].tick
    BY <1>5 DEF ShotsUpTo
  <2>. QED
    BY <2>1, <2>2, <2>3, <2>4 DEF ShotsUpTo
<1>6. ASSUME NEW rows, NEW limit, NEW tot, NEW cut, Scored(rows, limit, tot, cut)
      PROVE  Scored(rows, limit, tot, cut)'
  <2>1. rows \in Seq(Shots)'
    BY <1>3, <1>6 DEF Scored
  <2>2. \A i \in 1..Len(rows) : \E t \in (T0..T1)' : Fired(t)' /\ rows[i] = Shot(t)'
    BY <1>1, <1>2, <1>4, <1>6 DEF Scored
  <2>3. \A t \in (T0..T1)' : Fired(t)' => \/ \E i \in 1..Len(rows) : rows[i] = Shot(t)'
                                          \/ cut /\ \A i \in 1..Len(rows) : rows[i].tick < t
    BY <1>1, <1>2, <1>4, <1>6 DEF Scored
  <2>4. cut => \E t \in (T0..T1)' : Fired(t)' /\ \A i \in 1..Len(rows) : rows[i] # Shot(t)'
    BY <1>1, <1>2, <1>4, <1>6 DEF Scored
  <2>5. /\ \A i, j \in 1..Len(rows) : i < j => rows[i].tick < rows[j].tick
        /\ cut \in BOOLEAN
        /\ ~cut => tot = Len(rows)
        /\ cut => limit # 0 /\ Len(rows) = limit /\ tot = Len(rows) + 1
    BY <1>6 DEF Scored
  <2>. QED
    BY <2>1, <2>2, <2>3, <2>4, <2>5 DEF Scored
<1>. QED
  BY <1>5, <1>6

(* A whole group is processed, and nothing fires from it to tick j.        *)
LEMMA Processed ==
  ASSUME SetUp, EventMode, Whole, Edges!ProcessGroup, NEW j \in Nat, cur_t < j,
         \A i \in 1..Len(stream) : ~(cur_t < stream[i].tick /\ stream[i].tick < j)
  PROVE  /\ state' = Now(pos - 1)
         /\ truncated' \in BOOLEAN
         /\ truncated' = TRUE => Scored(results', line.limit, total', TRUE)
         /\ truncated' = FALSE => ShotsUpTo(j, results') /\ Within(results', line.limit, total')
<1>1. Times /\ q.limit = line.limit /\ line.limit \in Nat /\ Len(stream) \in Nat
  BY SetUpFacts, StreamFacts
<1>2. cur_t \in T0..T1 /\ cur_t \in Nat
  BY WholeFacts
<1>3. ShotsUpTo(cur_t, results) /\ Within(results, line.limit, total) /\ truncated = FALSE
  BY DEF Whole, Gathering
<1>4. Edges!AfterGroup = Now(pos - 1) /\ (Edges!Fires <=> Fired(cur_t))
      /\ Edges!show_values(Edges!AfterGroup, q.show) = V(cur_t)
  BY GroupJudged
<1>5. state' = Now(pos - 1)
  BY <1>4 DEF Edges!ProcessGroup
<1>. DEFINE k == cur_t
            m == cur_t + 1
            rows1 == results'
            tot1 == total'
            cut1 == truncated'
<1>6. m \in Nat /\ k \in Nat /\ k <= m /\ m <= j /\ m = k + 1 /\ k \in T0..T1
      /\ (\A t \in T0..T1 : k <= t /\ t < m => t = k)
      /\ \A t \in T0..T1 : m <= t => k < t
  BY <1>1, <1>2 DEF Times
<1>7. \A t \in T0..T1 : m <= t /\ t < j => ~Fired(t)
  <2>1. ASSUME NEW t \in T0..T1, m <= t, t < j PROVE ~Fired(t)
    <3>1. cur_t < t
      BY <1>6, <2>1
    <3>2. \A i \in 1..Len(stream) : stream[i].tick # t
      BY <2>1, <3>1
    <3>. QED
      BY <3>2, NoneFires
  <2>. QED
    BY <2>1
<1>8. CASE Edges!Fires
  <2>1. Fired(k) /\ ShotsUpTo(k, results)
    BY <1>3, <1>4, <1>8
  <2>2. Added(Shot(cur_t), line.limit, results, total, results', total', truncated')
    BY <1>1, <1>3, <1>4, <1>8 DEF Edges!ProcessGroup, Added, Shot
  <2>3. Added(Shot(k), line.limit, results, total, rows1, tot1, cut1)
    BY <2>2
  <2>. HIDE DEF k, m, rows1, tot1, cut1
  <2>4. Shooting(k, m, line.limit, results, total, rows1, tot1, cut1)
    BY <1>1, <1>3, <1>6, <2>1, <2>3 DEF Shooting
  <2>5. cut1 \in BOOLEAN
    BY <1>1, <2>4, ShotAdded
  <2>6. cut1 = TRUE => Scored(rows1, line.limit, tot1, TRUE)
    BY <1>1, <2>4, ShotAdded
  <2>7. cut1 = FALSE => ShotsUpTo(m, rows1) /\ Within(rows1, line.limit, tot1)
    BY <1>1, <2>4, ShotAdded
  <2>8. cut1 = FALSE => ShotsUpTo(j, rows1)
    <3>1. SUFFICES ASSUME cut1 = FALSE PROVE ShotsUpTo(j, rows1)
      OBVIOUS
    <3>2. ShotsUpTo(m, rows1)
      BY <2>7, <3>1
    <3>. QED
      BY <1>1, <1>6, <1>7, <3>2, NoShotListed
  <2>. QED
    BY <1>5, <2>5, <2>6, <2>7, <2>8 DEF rows1, tot1, cut1
<1>9. CASE ~Edges!Fires
  <2>1. results' = results /\ total' = total /\ truncated' = FALSE
    BY <1>3, <1>9 DEF Edges!ProcessGroup
  <2>2. ~Fired(k) /\ ShotsUpTo(k, results)
    BY <1>3, <1>4, <1>9
  <2>. HIDE DEF k, m
  <2>3. \A t \in T0..T1 : k <= t /\ t < m => ~Fired(t)
    BY <1>6, <2>2
  <2>4. ShotsUpTo(m, results)
    BY <1>1, <1>6, <2>2, <2>3, NoShotListed
  <2>5. ShotsUpTo(j, results)
    BY <1>1, <1>6, <1>7, <2>4, NoShotListed
  <2>. QED
    BY <1>3, <1>5, <2>1, <2>5
<1>. QED
  BY <1>8, <1>9

(* The pending group of the next state, from what a step leaves.           *)
LEMMA GatheringNext ==
  ASSUME SetUp, SetUp', file' = file, line' = line, stream' = stream, q' = q,
         NEW p \in 1..Len(stream), pos' = p + 1, pc' = "loop",
         NEW h \in 0..Len(stream), group' \in Seq(Change), group' # << >>, h + Len(group') = p,
         state' = Now(h), After(group', state') = Now(p),
         cur_t' \in T0..T1, \A i \in 1..h : stream[i].tick < cur_t',
         \A i \in 1..Len(group') : group'[i] = stream[h + i] /\ stream[h + i].tick = cur_t',
         ShotsUpTo(cur_t', results'), Within(results', line.limit, total'), truncated' = FALSE
  PROVE  EdgesInv'
<1>1. Len(stream) \in Nat /\ p \in Nat /\ h \in Nat /\ Len(group') \in Nat
  BY StreamFacts DEF SetUp
<1>2. pos' \in 1..(Len(stream') + 1) /\ pos' - 1 = p
  BY <1>1
<1>3. Before' = h
  BY <1>1, <1>2 DEF Before
<1>4. T0' = T0 /\ T1' = T1
  BY Fixed
<1>5. \A u : Now(u)' = Now(u)
  BY StreamFixed
<1>6. Now(Before)' = Now(h) /\ Now(pos - 1)' = Now(p)
  BY <1>2, <1>3, <1>5 DEF Now
<1>7. ShotsUpTo(cur_t, results)'
  BY ShotsFixed
<1>8. Within(results, line.limit, total)'
  BY DEF Within
<1>9. Gathering'
  BY <1>1, <1>2, <1>3, <1>4, <1>6, <1>7, <1>8 DEF Gathering
<1>. QED
  BY <1>9 DEF EdgesInv

LEMMA EdgesStep ==
  ASSUME SetUp, EventMode, EdgesInv, Edges!Next, file' = file, line' = line
  PROVE  SetUp' /\ EdgesInv'
<1>. DEFINE N == Len(stream)
            e == stream[pos]
<1>1. stream' = stream /\ q' = q
  BY DEF Edges!Next, Edges!Baseline, Edges!SameTick, Edges!NextTick, Edges!Finish
<1>2. SetUp' /\ T0' = T0 /\ T1' = T1
  BY <1>1, StreamFixed, Fixed
<1>3. Served /\ Streamed /\ Times /\ q.t0 = T0 /\ q.t1 = T1 /\ q.limit = line.limit
      /\ line.limit \in Nat
  BY SetUpFacts
<1>4. N \in Nat /\ stream \in Seq(Change)
      /\ \A i, j \in 1..N : i <= j => stream[i].tick <= stream[j].tick
  BY <1>3, StreamFacts
<1>5. \A i \in 1..N : stream[i].tick \in Nat /\ stream[i].tick <= T1 /\ stream[i] \in Change
  BY <1>3, StreamFacts
<1>6. \A v, x : Edges!Apply(v, x) = Apply(v, x)
  BY DEF Edges!Apply, Apply
<1>7. Edges!Event = e
  BY DEF Edges!Event
<1>8. pc = "loop" => Gathering
  BY DEF EdgesInv
<1>. DEFINE h == Before
<1>9. ASSUME Gathering
      PROVE  /\ pos \in 1..(N + 1) /\ group \in Seq(Change) /\ Len(group) \in Nat /\ h \in Nat
             /\ h + Len(group) = pos - 1 /\ h \in 0..N /\ pos \in Nat
             /\ state = Now(h) /\ After(group, state) = Now(pos - 1)
             /\ Within(results, line.limit, total) /\ truncated = FALSE
  <2>1. /\ pos \in 1..(N + 1) /\ group \in Seq(Change) /\ h \in Nat
        /\ state = Now(h) /\ After(group, state) = Now(pos - 1)
        /\ Within(results, line.limit, total) /\ truncated = FALSE
    BY <1>9 DEF Gathering
  <2>2. Len(group) \in Nat /\ pos \in Nat
    BY <1>4, <2>1
  <2>3. h + Len(group) = pos - 1
    BY <2>2 DEF Before
  <2>4. h \in 0..N
    <3>. HIDE DEF h, N
    <3>. QED
      BY <2>1, <2>2, <2>3, <1>4
  <2>. QED
    BY <2>1, <2>2, <2>3, <2>4
<1>10. ASSUME Edges!Looping
       PROVE  /\ Gathering /\ pc = "loop" /\ pos \in 1..N /\ pos - 1 \in 0..N /\ pos + 1 - 1 = pos
              /\ Apply(Now(pos - 1), e) = Now(pos) /\ e \in Change
              /\ e.tick \in Nat /\ e.tick <= T1
  <2>1. pc = "loop" /\ pos <= N
    BY <1>10 DEF Edges!Looping
  <2>2. Gathering /\ pos \in 1..(N + 1)
    BY <1>8, <1>9, <2>1
  <2>3. pos \in 1..N /\ pos - 1 \in 0..N /\ pos + 1 - 1 = pos
    BY <1>4, <2>1, <2>2
  <2>4. Apply(Now(pos - 1), e) = Now(pos)
    BY <1>3, <2>3, NowApply
  <2>. QED
    BY <1>5, <2>1, <2>2, <2>3, <2>4
<1>11. ASSUME Gathering, group # << >>
       PROVE  /\ cur_t \in T0..T1 /\ cur_t \in Nat /\ ShotsUpTo(cur_t, results)
              /\ pos - 1 \in 1..N /\ stream[pos - 1].tick = cur_t
              /\ pos \in 1..N => cur_t <= e.tick
              /\ \A i \in 1..h : stream[i].tick < cur_t
              /\ \A i \in 1..Len(group) : group[i] = stream[h + i] /\ stream[h + i].tick = cur_t
  <2>1. /\ cur_t \in T0..T1 /\ ShotsUpTo(cur_t, results)
        /\ \A i \in 1..h : stream[i].tick < cur_t
        /\ \A i \in 1..Len(group) : group[i] = stream[h + i] /\ stream[h + i].tick = cur_t
    BY <1>11 DEF Gathering
  <2>2. Len(group) # 0 /\ Len(group) \in Nat /\ h + Len(group) = pos - 1 /\ pos \in 1..(N + 1)
        /\ h \in Nat /\ pos \in Nat
    BY <1>9, <1>11
  <2>. HIDE DEF h, N
  <2>3. Len(group) \in 1..Len(group) /\ pos - 1 \in 1..N
    BY <1>4, <2>2
  <2>4. stream[pos - 1].tick = cur_t
    BY <2>1, <2>2, <2>3
  <2>5. pos \in 1..N => cur_t <= e.tick
    <3>1. pos - 1 <= pos
      BY <2>2
    <3>. QED
      BY <1>4, <2>3, <2>4, <3>1
  <2>6. cur_t \in Nat
    BY <1>3, <2>1 DEF Times
  <2>. QED
    BY <2>1, <2>3, <2>4, <2>5, <2>6
<1>12. CASE Edges!Baseline
  <2>1. Edges!Looping /\ e.tick < T0 /\ state' = Apply(state, e) /\ pos' = pos + 1
        /\ group' = group /\ cur_t' = cur_t /\ results' = results /\ total' = total
        /\ truncated' = truncated /\ pc' = pc
    BY <1>3, <1>6, <1>7, <1>12 DEF Edges!Baseline, Edges!InBaseline
  <2>2. Gathering /\ pos \in 1..N /\ e.tick \in Nat
    BY <1>10, <2>1
  <2>3. group = << >>
    <3>1. SUFFICES ASSUME group # << >> PROVE FALSE
      OBVIOUS
    <3>2. cur_t <= e.tick /\ cur_t \in T0..T1
      BY <1>11, <2>2, <3>1
    <3>. QED
      BY <1>3, <2>1, <2>2, <3>2 DEF Times
  <2>4. h = pos - 1 /\ Len(group) = 0 /\ pos \in Nat
    BY <1>9, <2>2, <2>3
  <2>5. state' = Now(pos)
    <3>1. state = Now(pos - 1)
      BY <1>9, <2>2, <2>4
    <3>. QED
      BY <1>10, <2>1, <3>1
  <2>6. pos' \in 1..(Len(stream') + 1) /\ Before' = pos /\ pos' - 1 = pos
    <3>1. Before' = pos' - 1 - Len(group')
      BY DEF Before
    <3>. QED
      BY <1>1, <1>4, <2>1, <2>2, <2>3, <2>4, <3>1
  <2>7. Now(pos) \in States
    <3>1. pos \in 0..Len(stream)
      BY <1>4, <2>2
    <3>. QED
      BY <1>3, <3>1, NowType
  <2>8. After(group', state') = Now(pos)
    <3>. DEFINE v == state'
    <3>1. v \in States /\ v = Now(pos)
      BY <2>5, <2>7
    <3>. HIDE DEF v
    <3>2. After(<< >>, v) = v
      BY <3>1, AfterNone
    <3>. QED
      BY <2>1, <2>3, <3>1, <3>2 DEF v
  <2>9. \A u : Now(u)' = Now(u)
    BY <1>1, StreamFixed
  <2>10. Now(Before)' = Now(pos) /\ Now(pos - 1)' = Now(pos)
    BY <2>6, <2>9 DEF Now
  <2>11. cur_t = None /\ ShotsUpTo(T0, results) /\ \A i \in 1..h : stream[i].tick < T0
    BY <2>2, <2>3 DEF Gathering
  <2>12. \A i \in 1..Before' : stream'[i].tick < T0'
    <3>1. \A i \in 1..pos : i = pos \/ i \in 1..(pos - 1)
      BY <2>2, <2>4
    <3>2. \A i \in 1..(pos - 1) : stream[i].tick < T0
      BY <2>4, <2>11
    <3>3. \A i \in 1..pos : stream[i].tick < T0
      BY <2>1, <3>1, <3>2
    <3>. QED
      BY <1>1, <1>2, <2>6, <3>3
  <2>13. ShotsUpTo(T0, results)'
    BY <1>2, <2>1, <2>11, ShotsFixed
  <2>14. Within(results, line.limit, total)' /\ truncated' = FALSE /\ group' \in Seq(Change)
    BY <1>9, <2>1, <2>2 DEF Within
  <2>15. Before' \in Nat
    BY <2>4, <2>6
  <2>16. state' = Now(Before)' /\ After(group', state') = Now(pos - 1)'
    BY <2>5, <2>8, <2>10
  <2>17. Gathering'
    BY <2>1, <2>3, <2>6, <2>11, <2>12, <2>13, <2>14, <2>15, <2>16 DEF Gathering
  <2>18. pc' = "loop"
    BY <1>10, <2>1
  <2>. QED
    BY <1>2, <2>17, <2>18 DEF EdgesInv
<1>13. CASE Edges!SameTick
  <2>1. Edges!Looping /\ ~(e.tick < T0) /\ cur_t \in {None, e.tick} /\ cur_t' = e.tick
        /\ group' = Append(group, e) /\ pos' = pos + 1 /\ state' = state /\ results' = results
        /\ total' = total /\ truncated' = truncated /\ pc' = pc
    BY <1>3, <1>7, <1>13 DEF Edges!SameTick, Edges!InBaseline
  <2>2. Gathering /\ pos \in 1..N /\ e.tick \in Nat /\ e.tick <= T1 /\ e \in Change /\ pc = "loop"
    BY <1>10, <2>1
  <2>3. group \in Seq(Change) /\ Len(group) \in Nat /\ h + Len(group) = pos - 1 /\ h \in 0..N
        /\ pos \in Nat /\ state = Now(h) /\ After(group, state) = Now(pos - 1)
    BY <1>9, <2>2
  <2>. DEFINE n == Len(group)
              g == Append(group, e)
  <2>4. g \in Seq(Change) /\ g # << >> /\ Len(g) = n + 1 /\ g[n + 1] = e
        /\ \A i \in 1..n : g[i] = group[i]
    <3>. HIDE DEF e
    <3>1. g \in Seq(Change) /\ Len(g) = n + 1
      BY <2>2, <2>3
    <3>2. g[n + 1] = e /\ \A i \in 1..n : g[i] = group[i]
      BY <2>2, <2>3
    <3>3. g # << >>
      <4>1. n + 1 # 0
        BY <2>3
      <4>. QED
        BY <3>1, <4>1
    <3>. QED
      BY <3>1, <3>2, <3>3
  <2>5. h + (n + 1) = pos
    BY <2>3
  <2>6. After(g, state) = Now(pos)
    <3>. HIDE DEF e
    <3>1. After(g, state) = Apply(After(group, state), e)
      BY <2>2, <2>3, AfterMore
    <3>. QED
      BY <1>10, <2>1, <2>3, <3>1
  <2>7. e.tick \in T0..T1
    BY <1>3, <2>1, <2>2 DEF Times
  <2>8. CASE group = << >>
    <3>1. ShotsUpTo(T0, results) /\ \A i \in 1..h : stream[i].tick < T0
      BY <2>2, <2>8 DEF Gathering
    <3>2. n = 0 /\ h + 1 = pos /\ h = pos - 1
      BY <2>3, <2>8
    <3>3. \A i \in 1..h : stream[i].tick < e.tick
      <4>1. ASSUME NEW i \in 1..h PROVE stream[i].tick < e.tick
        <5>1. i \in 1..N
          BY <1>4, <2>3
        <5>2. stream[i].tick < T0 /\ stream[i].tick \in Nat
          BY <1>5, <3>1, <5>1
        <5>. QED
          BY <1>3, <2>1, <2>2, <5>2 DEF Times
      <4>. QED
        BY <4>1
    <3>4. \A i \in 1..(n + 1) : g[i] = stream[h + i] /\ stream[h + i].tick = e.tick
      <4>1. \A i \in 1..(n + 1) : i = n + 1 /\ h + i = pos
        BY <3>2, <2>3
      <4>. QED
        BY <2>4, <4>1
    <3>5. ShotsUpTo(e.tick, results)
      <4>1. \A t \in T0..T1 : T0 <= t /\ t < e.tick => ~Fired(t)
        <5>1. ASSUME NEW t \in T0..T1, t < e.tick PROVE ~Fired(t)
          <6>1. \A i \in 1..N : stream[i].tick # t
            <7>1. ASSUME NEW i \in 1..N PROVE stream[i].tick # t
              <8>1. i \in 1..h \/ pos <= i
                BY <1>4, <2>3, <3>2
              <8>2. stream[i].tick < T0 \/ e.tick <= stream[i].tick
                BY <1>4, <2>2, <3>1, <8>1
              <8>3. stream[i].tick \in Nat /\ t \in Nat
                BY <1>3, <1>5 DEF Times
              <8>. QED
                BY <1>3, <2>2, <5>1, <8>2, <8>3 DEF Times
            <7>. QED
              BY <7>1
          <6>. QED
            BY <5>1, <6>1, NoneFires
        <5>. QED
          BY <5>1
      <4>2. T0 \in Nat /\ T0 <= e.tick
        BY <1>3, <2>1, <2>2 DEF Times
      <4>. HIDE DEF e
      <4>. QED
        BY <1>3, <2>2, <3>1, <4>1, <4>2, NoShotListed
    <3>. HIDE DEF h, g, n
    <3>6. EdgesInv'
      BY <1>1, <1>2, <1>9, <2>1, <2>2, <2>3, <2>4, <2>5, <2>6, <2>7, <3>3, <3>4, <3>5,
         GatheringNext DEF g, n
    <3>. QED
      BY <1>2, <3>6
  <2>9. CASE group # << >>
    <3>1. cur_t \in T0..T1 /\ ShotsUpTo(cur_t, results)
          /\ (\A i \in 1..h : stream[i].tick < cur_t)
          /\ \A i \in 1..n : group[i] = stream[h + i] /\ stream[h + i].tick = cur_t
      BY <1>11, <2>2, <2>9
    <3>2. cur_t = e.tick
      <4>1. cur_t \in Nat
        BY <1>11, <2>2, <2>9
      <4>. QED
        BY <2>1, <4>1, SearchAssumption
    <3>3. \A i \in 1..(n + 1) : g[i] = stream[h + i] /\ stream[h + i].tick = e.tick
      <4>1. \A i \in 1..(n + 1) : i \in 1..n \/ i = n + 1
        BY <2>3
      <4>2. g[n + 1] = stream[h + (n + 1)]
        BY <2>4, <2>5
      <4>. QED
        BY <2>4, <2>5, <3>1, <3>2, <4>1, <4>2
    <3>. HIDE DEF h, g, n
    <3>6. EdgesInv'
      BY <1>1, <1>2, <1>9, <2>1, <2>2, <2>3, <2>4, <2>5, <2>6, <2>7, <3>1, <3>2, <3>3,
         GatheringNext DEF g, n
    <3>. QED
      BY <1>2, <3>6
  <2>. QED
    BY <2>8, <2>9
<1>14. CASE Edges!NextTick
  <2>1. /\ Edges!Looping /\ ~(e.tick < T0) /\ cur_t \notin {None, e.tick} /\ Edges!ProcessGroup
        /\ truncated' => pc' = "done"
        /\ ~truncated' => cur_t' = e.tick /\ group' = <<e>> /\ pos' = pos + 1 /\ pc' = pc
    BY <1>3, <1>7, <1>14 DEF Edges!NextTick, Edges!InBaseline
  <2>2. Gathering /\ pos \in 1..N /\ e.tick \in Nat /\ e.tick <= T1 /\ e \in Change /\ pc = "loop"
        /\ pos - 1 \in 0..N /\ Apply(Now(pos - 1), e) = Now(pos)
    BY <1>10, <2>1
  <2>3. group # << >>
    BY <2>1, <2>2 DEF Gathering
  <2>4. Whole
    BY <2>1, <2>2, <2>3 DEF Whole
  <2>5. cur_t \in T0..T1 /\ cur_t \in Nat /\ stream[pos - 1].tick = cur_t /\ cur_t <= e.tick
        /\ pos - 1 \in 1..N
    BY <1>11, <2>2, <2>3
  <2>6. cur_t < e.tick
    BY <2>1, <2>2, <2>5
  <2>7. \A i \in 1..N : ~(cur_t < stream[i].tick /\ stream[i].tick < e.tick)
    <3>1. ASSUME NEW i \in 1..N PROVE ~(cur_t < stream[i].tick /\ stream[i].tick < e.tick)
      <4>1. pos \in Nat /\ (i <= pos - 1 \/ pos <= i)
        BY <1>4, <2>2
      <4>2. stream[i].tick <= cur_t \/ e.tick <= stream[i].tick
        BY <1>4, <2>2, <2>5, <4>1
      <4>3. stream[i].tick \in Nat
        BY <1>5
      <4>. QED
        BY <2>2, <2>5, <4>2, <4>3
    <3>. QED
      BY <3>1
  <2>8. /\ state' = Now(pos - 1) /\ truncated' \in BOOLEAN
        /\ truncated' = TRUE => Scored(results', line.limit, total', TRUE)
        /\ truncated' = FALSE => /\ ShotsUpTo(e.tick, results')
                                 /\ Within(results', line.limit, total')
    <3>. DEFINE j == e.tick
    <3>1. j \in Nat /\ cur_t < j /\ \A i \in 1..N : ~(cur_t < stream[i].tick /\ stream[i].tick < j)
      BY <2>2, <2>6, <2>7
    <3>. HIDE DEF j
    <3>2. /\ state' = Now(pos - 1) /\ truncated' \in BOOLEAN
          /\ truncated' = TRUE => Scored(results', line.limit, total', TRUE)
          /\ truncated' = FALSE => ShotsUpTo(j, results') /\ Within(results', line.limit, total')
      BY <2>1, <2>4, <3>1, Processed
    <3>. QED
      BY <3>2 DEF j
  <2>9. CASE truncated' = TRUE
    <3>1. Scored(results, line.limit, total, truncated)'
      BY <2>8, <2>9, ShotsFixed
    <3>2. pc' = "done"
      BY <2>1, <2>9
    <3>. QED
      BY <1>2, <3>1, <3>2 DEF EdgesInv
  <2>10. CASE truncated' = FALSE
    <3>1. cur_t' = e.tick /\ group' = <<e>> /\ pos' = pos + 1 /\ pc' = "loop"
          /\ ShotsUpTo(e.tick, results') /\ Within(results', line.limit, total')
          /\ state' = Now(pos - 1)
      BY <2>1, <2>2, <2>8, <2>10
    <3>. DEFINE p == pos - 1
                g == <<e>>
    <3>2. g \in Seq(Change) /\ g # << >> /\ Len(g) = 1 /\ g[1] = e /\ g = Append(<< >>, e)
      <4>. HIDE DEF e
      <4>. QED
        BY <2>2
    <3>3. p \in 0..N /\ p + 1 = pos /\ Now(p) \in States /\ p \in 1..N
      <4>1. p \in 0..Len(stream) /\ p + 1 = pos
        BY <1>4, <2>2
      <4>2. Now(p) \in States
        BY <1>3, <4>1, NowType
      <4>. QED
        BY <2>5, <4>1, <4>2
    <3>4. After(g, Now(p)) = Now(pos)
      <4>1. Apply(Now(p), e) = Now(pos)
        BY <2>2
      <4>. HIDE DEF e, p
      <4>2. After(<< >>, Now(p)) = Now(p)
        BY <3>3, AfterNone
      <4>. DEFINE none == << >>
      <4>3. none \in Seq(Change) /\ e \in Change
        BY <2>2
      <4>. HIDE DEF none
      <4>4. After(Append(none, e), Now(p)) = Apply(After(none, Now(p)), e)
        BY <4>3, AfterMore
      <4>. QED
        BY <3>2, <4>1, <4>2, <4>4 DEF none
    <3>5. \A i \in 1..p : stream[i].tick < e.tick
      <4>1. ASSUME NEW i \in 1..p PROVE stream[i].tick < e.tick
        <5>1. i \in 1..N /\ p \in 1..N /\ i <= p
          BY <1>4, <3>3
        <5>2. stream[i].tick <= cur_t /\ stream[i].tick \in Nat
          BY <1>4, <1>5, <2>5, <5>1
        <5>. QED
          BY <2>2, <2>5, <2>6, <5>2
      <4>. QED
        BY <4>1
    <3>6. \A i \in 1..1 : g[i] = stream[p + i] /\ stream[p + i].tick = e.tick
      <4>1. \A i \in 1..1 : i = 1
        OBVIOUS
      <4>. QED
        BY <3>2, <3>3, <4>1
    <3>7. e.tick \in T0..T1
      BY <1>3, <2>1, <2>2 DEF Times
    <3>8. group' \in Seq(Change) /\ group' # << >> /\ Len(group') = 1 /\ p + Len(group') = pos
          /\ \A i \in 1..Len(group') : group'[i] = stream[p + i] /\ stream[p + i].tick = cur_t'
      BY <3>1, <3>2, <3>3, <3>6
    <3>9. state' = Now(p) /\ After(group', state') = Now(pos)
      BY <3>1, <3>4
    <3>10. (\A i \in 1..p : stream[i].tick < cur_t') /\ cur_t' \in T0..T1 /\ ShotsUpTo(cur_t', results')
      BY <3>1, <3>5, <3>7
    <3>. HIDE DEF p, g
    <3>11. EdgesInv'
      BY <1>1, <1>2, <2>2, <2>10, <3>1, <3>3, <3>8, <3>9, <3>10, GatheringNext
    <3>. QED
      BY <1>2, <3>11
  <2>. QED
    BY <2>8, <2>9, <2>10
<1>15. CASE Edges!Finish
  <2>1. /\ pc = "loop" /\ pos > N /\ pc' = "done"
        /\ group # << >> => Edges!ProcessGroup
        /\ group = << >> => results' = results /\ total' = total /\ truncated' = truncated
    BY <1>15 DEF Edges!Finish
  <2>2. Gathering /\ pos = N + 1 /\ pos - 1 = N
    BY <1>4, <1>8, <1>9, <2>1
  <2>. DEFINE j == T1 + 1
  <2>3. j \in Nat /\ j = T1 + 1 /\ \A t \in T0..T1 : t < j
    BY <1>3 DEF Times
  <2>4. CASE group # << >>
    <3>1. Whole
      BY <1>4, <2>2, <2>4 DEF Whole
    <3>2. cur_t < j
      <4>1. cur_t \in T0..T1
        BY <1>11, <2>2, <2>4
      <4>. QED
        BY <2>3, <4>1
    <3>3. \A i \in 1..N : ~(cur_t < stream[i].tick /\ stream[i].tick < j)
      <4>1. ASSUME NEW i \in 1..N PROVE stream[i].tick <= cur_t
        <5>1. N \in 1..N /\ i <= N
          BY <1>4
        <5>2. stream[i].tick <= stream[N].tick
          BY <1>4, <5>1
        <5>. QED
          BY <1>11, <2>2, <2>4, <5>2
      <4>2. \A i \in 1..N : stream[i].tick \in Nat /\ cur_t \in Nat
        BY <1>5, <1>11, <2>2, <2>4
      <4>. QED
        BY <4>1, <4>2
    <3>. HIDE DEF j
    <3>4. truncated' \in BOOLEAN
          /\ (truncated' = TRUE => Scored(results', line.limit, total', TRUE))
          /\ (truncated' = FALSE => ShotsUpTo(j, results') /\ Within(results', line.limit, total'))
      BY <2>1, <2>3, <2>4, <3>1, <3>2, <3>3, Processed
    <3>5. Scored(results', line.limit, total', truncated')
      <4>. DEFINE rows1 == results'
                  tot1 == total'
                  cut1 == truncated'
      <4>1. cut1 \in BOOLEAN /\ (cut1 = TRUE => Scored(rows1, line.limit, tot1, TRUE))
            /\ (cut1 = FALSE => ShotsUpTo(j, rows1) /\ Within(rows1, line.limit, tot1))
        BY <3>4
      <4>. HIDE DEF rows1, tot1, cut1
      <4>2. cut1 = FALSE => Scored(rows1, line.limit, tot1, FALSE)
        BY <1>3, <2>3, <4>1, AllShotsListed
      <4>3. Scored(rows1, line.limit, tot1, cut1)
        BY <4>1, <4>2
      <4>. QED
        BY <4>3 DEF rows1, tot1, cut1
    <3>6. Scored(results, line.limit, total, truncated)'
      BY <3>5, ShotsFixed
    <3>. QED
      BY <1>2, <2>1, <3>6 DEF EdgesInv
  <2>5. CASE group = << >>
    <3>1. ShotsUpTo(T0, results) /\ (\A i \in 1..h : stream[i].tick < T0)
          /\ Within(results, line.limit, total) /\ truncated = FALSE
      BY <2>2, <2>5 DEF Gathering
    <3>2. h = N
      BY <1>4, <1>9, <2>2, <2>5
    <3>3. \A t \in T0..T1 : ~Fired(t)
      <4>1. ASSUME NEW t \in T0..T1 PROVE ~Fired(t)
        <5>1. \A i \in 1..N : stream[i].tick # t
          BY <1>3, <1>5, <3>1, <3>2 DEF Times
        <5>. QED
          BY <5>1, NoneFires
      <4>. QED
        BY <4>1
    <3>4. T0 \in Nat /\ T0 <= j
      BY <1>3 DEF Times
    <3>. HIDE DEF j
    <3>5. ShotsUpTo(j, results)
      BY <1>3, <2>3, <3>1, <3>3, <3>4, NoShotListed
    <3>6. Scored(results, line.limit, total, FALSE)
      BY <1>3, <2>3, <3>1, <3>5, AllShotsListed
    <3>7. Scored(results, line.limit, total, truncated)'
      BY <2>1, <2>5, <3>1, <3>6, ShotsFixed
    <3>. QED
      BY <1>2, <2>1, <3>7 DEF EdgesInv
  <2>. QED
    BY <2>4, <2>5
<1>. QED
  BY <1>12, <1>13, <1>14, <1>15 DEF Edges!Next

-----------------------------------------------------------------------------
(* The whole search.                                                       *)

Running == pc \notin {"setup", "refused"}

SearchInv ==
  /\ file \in Files /\ line \in Lines
  /\ ~Running => q = None
  /\ pc = "setup" => Spans!Locals /\ group = << >>
  /\ Running => SetUp
  /\ Running /\ LevelMode => SpansInv
  /\ Running /\ EventMode => EdgesInv

LEMMA SetupStarts ==
  ASSUME SearchInv, Setup
  PROVE  SearchInv'
<1>1. pc = "setup" /\ Spans!Locals /\ group = << >> /\ file \in Files /\ line \in Lines
  BY DEF SearchInv, Setup
<1>2. /\ Answerable /\ pc' = "loop" /\ q' = Query /\ stream' = Buffered(q'.t1, selected)
      /\ file' = file /\ line' = line
      /\ UNCHANGED <<pos, state, cur_t, results, total, truncated, group, ahead, active,
                     seg_start, seg_values, inited>>
  BY DEF Setup, Locals, Query
<1>3. Served
  <2>1. file \in Seq(Change) /\ ByTick(file)
    BY <1>1, SearchAssumption
  <2>. QED
    BY <1>1, <1>2, <2>1, LinesAreOk DEF Served
<1>4. Served' /\ T0' = T0 /\ T1' = T1 /\ selected' = selected /\ Query' = Query
  BY <1>2, <1>3, Fixed
<1>5. q'.t1 = T1
  BY <1>2 DEF Query, T1
<1>6. Buffered(T1, selected)' = Buffered(T1, selected)
  BY <1>2, <1>4 DEF Buffered
<1>7. SetUp'
  BY <1>2, <1>4, <1>5, <1>6 DEF SetUp, Streamed
<1>8. stream' \in Seq(Change) /\ Len(stream') \in Nat /\ Times /\ line.limit \in Nat
      /\ AllUndef \in States
  <2>1. Times /\ file \in Seq(Change) /\ ByTick(file)
    BY <1>3, ServedTimes DEF Served
  <2>2. Holding(Buffered(T1, selected), Len(file), T1, selected)
    BY <2>1, BufferedHolds DEF Times
  <2>3. stream' \in Seq(Change)
    BY <1>2, <1>5, <2>2 DEF Holding
  <2>4. line.limit \in Nat
    BY <1>1, SearchAssumption
  <2>5. AllUndef \in States
    BY DEF AllUndef, States
  <2>. QED
    BY <2>1, <2>3, <2>4, <2>5
<1>9. /\ pos' = 1 /\ state' = AllUndef /\ ahead' = AllUndef /\ cur_t' = None /\ active' = FALSE
      /\ inited' = FALSE /\ results' = << >> /\ total' = 0 /\ truncated' = FALSE /\ group' = << >>
  BY <1>1, <1>2 DEF Spans!Locals, Spans!AllUndef, AllUndef
<1>10. pos' - 1 = 0 /\ 1..0 = {} /\ pos' \in 1..(Len(stream') + 1) /\ Len(<< >>) = 0
  BY <1>8, <1>9
<1>11. Now(pos - 1)' = AllUndef /\ Now(0)' = AllUndef
  <2>1. Upto(stream', 0) = << >>
    BY <1>8, UptoFacts
  <2>2. \A s : ValueAt(<< >>, s, T1') = Undef
    BY ValueEmpty
  <2>. QED
    BY <1>10, <2>1, <2>2 DEF Now, AllUndef
<1>12. SpansInv'
  <2>1. Base'
    BY <1>9, <1>10, <1>11 DEF Base
  <2>. QED
    BY <1>2, <1>9, <1>10, <2>1 DEF SpansInv
<1>13. EdgesInv'
  <2>1. Before' = 0
    <3>1. Before' = pos' - 1 - Len(group')
      BY DEF Before
    <3>2. Len(group') = 0
      BY <1>9, <1>10
    <3>3. pos' - 1 = 0
      BY <1>10
    <3>. QED
      BY <3>1, <3>2, <3>3
  <2>2. Now(Before)' = AllUndef
    <3>1. Now(Before)' = Now(0)'
      BY <2>1 DEF Now
    <3>. QED
      BY <1>11, <3>1
  <2>3. After(group', state') = AllUndef
    BY <1>8, <1>9, AfterNone
  <2>4. ShotsUpTo(T0, results)'
    <3>1. ShotsUpTo(T0, << >>)
      BY <1>8, NoShotYet
    <3>. QED
      BY <1>2, <1>4, <1>9, <3>1, ShotsFixed
  <2>5. Within(results, line.limit, total)'
    BY <1>2, <1>8, <1>9, <1>10 DEF Within
  <2>6. group' \in Seq(Change)
    BY <1>9
  <2>7. \A i \in 1..Before' : stream'[i].tick < T0'
    BY <1>10, <2>1
  <2>8. Before' \in Nat
    BY <2>1
  <2>9. Gathering'
    BY <1>9, <1>10, <1>11, <2>2, <2>3, <2>4, <2>5, <2>6, <2>7, <2>8 DEF Gathering
  <2>. QED
    BY <1>2, <2>9 DEF EdgesInv
<1>. QED
  BY <1>1, <1>2, <1>7, <1>12, <1>13 DEF SearchInv, Running

(* What holds at every step of a search: a running scan goes by the line   *)
(* as it was typed and the changes of the loaded signals up to the window's*)
(* end (commands/search.rs search_setup); in interval mode the open span is*)
(* the run going on and the rows are those that have ended                 *)
(* (search_interval_collect), in event mode the group is the changes of one*)
(* tick so far and the rows are the firings of the ticks before it         *)
(* (search_event_collect).                                                 *)
THEOREM SearchInvariant == Spec => []SearchInv
<1>1. Init => SearchInv
  BY DEF Init, SearchInv, Running
<1>2. SearchInv /\ [Next]_vars => SearchInv'
  <2>. SUFFICES ASSUME SearchInv, [Next]_vars PROVE SearchInv'
    OBVIOUS
  <2>1. CASE Refuse
    <3>1. pc = "setup" /\ pc' = "refused" /\ q' = q /\ file' = file /\ line' = line /\ q = None
      BY <2>1 DEF Refuse, SearchInv, Running
    <3>. QED
      BY <3>1 DEF SearchInv, Running
  <2>2. CASE Setup
    BY <2>2, SetupStarts
  <2>3. CASE search_event_collect
    <3>1. EventMode /\ Edges!Next /\ file' = file /\ line' = line /\ ~LevelMode
      BY <2>3 DEF search_event_collect, EventMode, LevelMode
    <3>2. Running
      BY <3>1 DEF SearchInv, EventMode
    <3>3. SetUp /\ EdgesInv
      BY <3>1, <3>2 DEF SearchInv
    <3>4. SetUp' /\ EdgesInv'
      BY <3>1, <3>3, EdgesStep
    <3>5. q' = q
      BY <3>1 DEF Edges!Next, Edges!Baseline, Edges!SameTick, Edges!NextTick, Edges!Finish
    <3>6. ~LevelMode' /\ Running'
      BY <3>1, <3>4, <3>5 DEF EventMode, LevelMode, EdgesInv, Running
    <3>7. file' \in Files /\ line' \in Lines
      BY <3>1 DEF SearchInv
    <3>. QED
      BY <3>4, <3>6, <3>7 DEF SearchInv, Running
  <2>4. CASE search_interval_collect
    <3>1. LevelMode /\ Spans!Next /\ file' = file /\ line' = line /\ ~EventMode
      BY <2>4 DEF search_interval_collect, EventMode, LevelMode
    <3>2. Running
      BY <3>1 DEF SearchInv, LevelMode
    <3>3. SetUp /\ SpansInv
      BY <3>1, <3>2 DEF SearchInv
    <3>4. SetUp' /\ SpansInv'
      BY <3>1, <3>3, SpansStep
    <3>5. q' = q
      BY <3>1 DEF Spans!Next, Spans!Baseline, Spans!FirstPastBegin, Spans!SameTick,
                  Spans!NextTick, Spans!LastGroup, Spans!LateInitCheck, Spans!FinalEmit
    <3>6. ~EventMode' /\ Running'
      BY <3>1, <3>4, <3>5 DEF EventMode, LevelMode, SpansInv, Running
    <3>7. file' \in Files /\ line' \in Lines
      BY <3>1 DEF SearchInv
    <3>. QED
      BY <3>4, <3>6, <3>7 DEF SearchInv, Running
  <2>5. CASE UNCHANGED vars
    <3>1. /\ file' = file /\ line' = line /\ stream' = stream /\ q' = q /\ pos' = pos
          /\ state' = state /\ cur_t' = cur_t /\ results' = results /\ total' = total
          /\ truncated' = truncated /\ pc' = pc /\ group' = group /\ ahead' = ahead
          /\ active' = active /\ seg_start' = seg_start /\ seg_values' = seg_values
          /\ inited' = inited
      BY <2>5 DEF vars
    <3>2. Spans!Locals => Spans!Locals'
      BY <3>1 DEF Spans!Locals, Spans!AllUndef
    <3>3. (EventMode' <=> EventMode) /\ (LevelMode' <=> LevelMode) /\ (Running' <=> Running)
      BY <3>1 DEF EventMode, LevelMode, Running
    <3>4. SetUp => SetUp'
      BY <3>1, StreamFixed
    <3>5. SetUp /\ SpansInv => SpansInv'
      <4>. SUFFICES ASSUME SetUp, SpansInv PROVE SpansInv'
        OBVIOUS
      <4>1. T0' = T0 /\ T1' = T1 /\ (\A p : Now(p)' = Now(p)) /\ \A t : Then(t)' = Then(t)
        BY <3>1, Fixed, StreamFixed
      <4>2. Now(pos - 1)' = Now(pos - 1) /\ Then(cur_t - 1)' = Then(cur_t - 1)
        BY <3>1, <4>1 DEF Now, Then
      <4>3. Base => Base'
        BY <3>1, <4>1, <4>2 DEF Base
      <4>4. /\ Lists(cur_t - 1, results) => Lists(cur_t - 1, results)'
            /\ SpanAt(cur_t - 1, active, seg_start, seg_values)
               => SpanAt(cur_t - 1, active, seg_start, seg_values)'
            /\ Lists(T1, results) => Lists(T1, results)'
            /\ SpanAt(T1, active, seg_start, seg_values)
               => SpanAt(T1, active, seg_start, seg_values)'
            /\ Finished(results, line.limit, total, TRUE)
               => Finished(results, line.limit, total, TRUE)'
            /\ Finished(results, line.limit, total, truncated)
               => Finished(results, line.limit, total, truncated)'
        BY <3>1, <4>1, ListsFixed
      <4>5. Within(results, line.limit, total) => Within(results, line.limit, total)'
        BY <3>1 DEF Within
      <4>6. Spanning => Spanning'
        BY <3>1, <4>1, <4>2, <4>4, <4>5 DEF Spanning
      <4>7. Past => Past'
        BY <3>1, <4>1, <4>4, <4>5 DEF Past
      <4>8. Over => Over'
        BY <3>1, <4>1, <4>4 DEF Over
      <4>. QED
        BY <3>1, <4>3, <4>6, <4>7, <4>8 DEF SpansInv
    <3>6. SetUp /\ EdgesInv => EdgesInv'
      <4>. SUFFICES ASSUME SetUp, EdgesInv PROVE EdgesInv'
        OBVIOUS
      <4>1. T0' = T0 /\ T1' = T1 /\ (\A p : Now(p)' = Now(p)) /\ Before' = Before
        BY <3>1, Fixed, StreamFixed DEF Before
      <4>2. Now(pos - 1)' = Now(pos - 1) /\ Now(Before)' = Now(Before)
        BY <3>1, <4>1 DEF Now
      <4>3. /\ ShotsUpTo(cur_t, results) => ShotsUpTo(cur_t, results)'
            /\ ShotsUpTo(T0, results) => ShotsUpTo(T0, results)'
            /\ Scored(results, line.limit, total, truncated)
               => Scored(results, line.limit, total, truncated)'
        BY <3>1, <4>1, ShotsFixed
      <4>4. Within(results, line.limit, total) => Within(results, line.limit, total)'
        BY <3>1 DEF Within
      <4>5. Gathering => Gathering'
        BY <3>1, <4>1, <4>2, <4>3, <4>4 DEF Gathering
      <4>. QED
        BY <3>1, <4>3, <4>5 DEF EdgesInv
    <3>. QED
      BY <3>1, <3>2, <3>3, <3>4, <3>5, <3>6 DEF SearchInv
  <2>. QED
    BY <2>1, <2>2, <2>3, <2>4, <2>5 DEF Next
<1>. QED
  BY <1>1, <1>2, PTL DEF Spec

-----------------------------------------------------------------------------
(* The rows are those the words of the line ask for.                       *)

LEMMA AskedFor ==
  ASSUME SetUp, q # None
  PROVE  /\ \A t : ShownAt(t) = V(t)
         /\ \A a, b : Alike(a, b) <=> Like(a, b)
         /\ q.t0 = T0 /\ q.t1 = T1 /\ q.limit = line.limit
<1>1. LineOk /\ q = Query
  BY DEF SetUp, Served
<1>2. Shown = show_sids
  BY <1>1, ShownAre
<1>3. \A t : ShownAt(t) = V(t)
  BY <1>2 DEF ShownAt, V
<1>4. \A a, b : Alike(a, b) <=> Like(a, b)
  BY <1>3 DEF Alike, Like, M
<1>. QED
  BY <1>3, <1>4, SetUpFacts

(* The maximal runs of the window.                                         *)
LEMMA RunRowsAre ==
  ASSUME SetUp, q # None
  PROVE  /\ T0 = T1 => RunRows = {}
         /\ T0 < T1 => \A r : r \in RunRows <=> \E f, l \in T0..T1 : Run(f, l) /\ r = Row(f, l)
<1>1. Times
  BY SetUpFacts
<1>2. (\A t : ShownAt(t) = V(t)) /\ (\A a, b : Alike(a, b) <=> Like(a, b))
      /\ q.t0 = T0 /\ q.t1 = T1
  BY AskedFor
<1>3. T0 = T1 => RunRows = {}
  BY <1>2 DEF RunRows
<1>4. \A f \in T0..T1, l \in T0..T1 : f <= l /\ IsRun(f, l) <=> Run(f, l)
  <2>1. ASSUME NEW f \in T0..T1, NEW l \in T0..T1 PROVE f <= l /\ IsRun(f, l) <=> Run(f, l)
    <3>1. IsRun(f, l) <=> /\ \A t \in f..l : Like(f, t)
                          /\ f > T0 => ~Like(f - 1, f)
                          /\ l < T1 => ~Like(l, l + 1)
      BY <1>2 DEF IsRun
    <3>2. f \in T0..l <=> f <= l
      BY <1>1 DEF Times
    <3>. QED
      BY <3>1, <3>2 DEF Run, Opening
  <2>. QED
    BY <2>1
<1>5. \A f, l : RowOf(f, l) = Row(f, l)
  BY <1>2 DEF RowOf, Row
<1>6. ASSUME T0 < T1, NEW r
      PROVE  r \in RunRows <=> \E f, l \in T0..T1 : Run(f, l) /\ r = Row(f, l)
  <2>1. T0 # T1
    BY <1>1, <1>6 DEF Times
  <2>2. RunRows = {RowOf(w[1], w[2]) :
           w \in {v \in (T0..T1) \X (T0..T1) : v[1] <= v[2] /\ IsRun(v[1], v[2])}}
    BY <1>2, <2>1 DEF RunRows
  <2>3. ASSUME r \in RunRows PROVE \E f, l \in T0..T1 : Run(f, l) /\ r = Row(f, l)
    <3>1. PICK w \in (T0..T1) \X (T0..T1) :
            w[1] <= w[2] /\ IsRun(w[1], w[2]) /\ r = RowOf(w[1], w[2])
      BY <2>2, <2>3
    <3>2. w[1] \in T0..T1 /\ w[2] \in T0..T1
      BY <3>1
    <3>. QED
      BY <1>4, <1>5, <3>1, <3>2
  <2>4. ASSUME NEW f \in T0..T1, NEW l \in T0..T1, Run(f, l), r = Row(f, l) PROVE r \in RunRows
    <3>1. f <= l /\ IsRun(f, l) /\ r = RowOf(f, l)
      BY <1>4, <1>5, <2>4
    <3>. DEFINE w == <<f, l>>
    <3>2. w \in (T0..T1) \X (T0..T1) /\ w[1] = f /\ w[2] = l
      OBVIOUS
    <3>. HIDE DEF w
    <3>. QED
      BY <2>2, <3>1, <3>2
  <2>. QED
    BY <2>3, <2>4
<1>. QED
  BY <1>3, <1>6

LEMMA FiredRowsAre ==
  ASSUME SetUp, q # None
  PROVE  \A r : r \in FiredRows <=> \E t \in T0..T1 : Fired(t) /\ r = Shot(t)
<1>1. (\A t : ShownAt(t) = V(t)) /\ q.t0 = T0 /\ q.t1 = T1
  BY AskedFor
<1>. QED
  BY <1>1 DEF FiredRows, Fired, Shot

(* A level search ends with the maximal runs of its window over which the  *)
(* typed condition holds, in order, the earliest ones if --limit cuts the  *)
(* list, whatever the file, the line and the limit (commands/search.rs     *)
(* search_setup, search_interval_collect).                                 *)
THEOREM RowsAreRunsAlways == Spec => []RowsAreRuns
<1>1. SearchInv => RowsAreRuns
  <2>. SUFFICES ASSUME SearchInv, LevelMode, pc = "done"
                PROVE  CutRight(RunRows, LAMBDA r : r.begin)
    BY DEF RowsAreRuns
  <2>1. SetUp /\ SpansInv /\ q # None
    BY DEF SearchInv, Running, LevelMode
  <2>2. Over /\ q.limit = line.limit /\ Times
    BY <2>1, SetUpFacts DEF SpansInv
  <2>3. CASE T0 = T1
    <3>1. RunRows = {} /\ results = << >> /\ total = 0 /\ truncated = FALSE
      BY <2>1, <2>2, <2>3, RunRowsAre DEF Over, Times
    <3>2. Listed = {} /\ DOMAIN results = {} /\ Len(results) = 0
      BY <3>1 DEF Listed
    <3>. QED
      BY <3>1, <3>2 DEF CutRight
  <2>4. CASE T0 # T1
    <3>1. T0 < T1
      BY <2>2, <2>4 DEF Times
    <3>2. Finished(results, line.limit, total, truncated)
      BY <2>2, <2>4 DEF Over
    <3>3. \A r : r \in RunRows <=> \E f, l \in T0..T1 : Run(f, l) /\ r = Row(f, l)
      BY <2>1, <3>1, RunRowsAre
    <3>4. DOMAIN results = 1..Len(results)
      BY <3>2 DEF Finished
    <3>5. \A r : r \in Listed <=> \E i \in 1..Len(results) : r = results[i]
      BY <3>4 DEF Listed
    <3>6. Listed \subseteq RunRows
      BY <3>2, <3>3, <3>5 DEF Finished
    <3>7. \A i, j \in DOMAIN results : i < j => results[i].begin < results[j].begin
      BY <3>2, <3>4 DEF Finished
    <3>8. ASSUME NEW r \in RunRows \ Listed, NEW x \in Listed PROVE x.begin < r.begin /\ truncated
      <4>1. PICK f \in T0..T1, l \in T0..T1 : Run(f, l) /\ r = Row(f, l)
        BY <3>3
      <4>2. \A i \in 1..Len(results) : results[i] # Row(f, l)
        BY <3>5, <4>1
      <4>3. truncated /\ \A i \in 1..Len(results) : results[i].begin < f
        BY <3>2, <4>1, <4>2 DEF Finished
      <4>. QED
        BY <3>5, <4>1, <4>3, RowFields
    <3>9. truncated <=> Listed # RunRows
      <4>1. ASSUME truncated PROVE Listed # RunRows
        <5>1. PICK f \in T0..T1, l \in T0..T1 :
                Run(f, l) /\ \A i \in 1..Len(results) : results[i] # Row(f, l)
          BY <3>2, <4>1 DEF Finished
        <5>. QED
          BY <3>3, <3>5, <5>1
      <4>2. ASSUME ~truncated PROVE RunRows \subseteq Listed
        <5>1. \A f, l \in T0..T1 : Run(f, l) => \E i \in 1..Len(results) : results[i] = Row(f, l)
          BY <3>2, <4>2 DEF Finished
        <5>. QED
          BY <3>3, <3>5, <5>1
      <4>. QED
        BY <3>6, <4>1, <4>2
    <3>10. truncated => q.limit # 0 /\ Len(results) = q.limit
      BY <2>2, <3>2 DEF Finished
    <3>11. total = Len(results) + (IF truncated THEN 1 ELSE 0)
      <4>1. results \in Seq(Rows) /\ (truncated => total = Len(results) + 1)
            /\ (~truncated => total = Len(results))
        BY <3>2 DEF Finished
      <4>. QED
        BY <4>1
    <3>. QED
      BY <3>6, <3>7, <3>8, <3>9, <3>10, <3>11 DEF CutRight
  <2>. QED
    BY <2>3, <2>4
<1>. QED
  BY <1>1, SearchInvariant, PTL

(* An event search ends with the ticks of its window at which the typed    *)
(* clauses fire, each with the values it leaves, the earliest ones if      *)
(* --limit cuts the list (commands/search.rs search_event_collect).        *)
THEOREM RowsAreFiringsAlways == Spec => []RowsAreFirings
<1>1. SearchInv => RowsAreFirings
  <2>. SUFFICES ASSUME SearchInv, EventMode, pc = "done"
                PROVE  CutRight(FiredRows, LAMBDA r : r.tick)
    BY DEF RowsAreFirings
  <2>1. SetUp /\ EdgesInv /\ q # None
    BY DEF SearchInv, Running, EventMode
  <2>2. Scored(results, line.limit, total, truncated) /\ q.limit = line.limit
    BY <2>1, SetUpFacts DEF EdgesInv
  <2>3. \A r : r \in FiredRows <=> \E t \in T0..T1 : Fired(t) /\ r = Shot(t)
    BY <2>1, FiredRowsAre
  <2>4. DOMAIN results = 1..Len(results)
    BY <2>2 DEF Scored
  <2>5. \A r : r \in Listed <=> \E i \in 1..Len(results) : r = results[i]
    BY <2>4 DEF Listed
  <2>6. Listed \subseteq FiredRows
    BY <2>2, <2>3, <2>5 DEF Scored
  <2>7. \A i, j \in DOMAIN results : i < j => results[i].tick < results[j].tick
    BY <2>2, <2>4 DEF Scored
  <2>8. ASSUME NEW r \in FiredRows \ Listed, NEW x \in Listed PROVE x.tick < r.tick /\ truncated
    <3>1. PICK t \in T0..T1 : Fired(t) /\ r = Shot(t)
      BY <2>3
    <3>2. \A i \in 1..Len(results) : results[i] # Shot(t)
      BY <2>5, <3>1
    <3>3. truncated /\ \A i \in 1..Len(results) : results[i].tick < t
      BY <2>2, <3>1, <3>2 DEF Scored
    <3>. QED
      BY <2>5, <3>1, <3>3, ShotFields
  <2>9. truncated <=> Listed # FiredRows
    <3>1. ASSUME truncated PROVE Listed # FiredRows
      <4>1. PICK t \in T0..T1 : Fired(t) /\ \A i \in 1..Len(results) : results[i] # Shot(t)
        BY <2>2, <3>1 DEF Scored
      <4>. QED
        BY <2>3, <2>5, <4>1
    <3>2. ASSUME ~truncated PROVE FiredRows \subseteq Listed
      <4>1. \A t \in T0..T1 : Fired(t) => \E i \in 1..Len(results) : results[i] = Shot(t)
        BY <2>2, <3>2 DEF Scored
      <4>. QED
        BY <2>3, <2>5, <4>1
    <3>. QED
      BY <2>6, <3>1, <3>2
  <2>10. truncated => q.limit # 0 /\ Len(results) = q.limit
    BY <2>2 DEF Scored
  <2>11. total = Len(results) + (IF truncated THEN 1 ELSE 0)
    <3>1. results \in Seq(Shots) /\ (truncated => total = Len(results) + 1)
          /\ (~truncated => total = Len(results))
      BY <2>2 DEF Scored
    <3>. QED
      BY <3>1
  <2>. QED
    BY <2>6, <2>7, <2>8, <2>9, <2>10, <2>11 DEF CutRight
<1>. QED
  BY <1>1, SearchInvariant, PTL
==============================================================================
