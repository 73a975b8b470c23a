-------------------------- MODULE DumpProofs --------------------------------
(***************************************************************************)
(* Both ways of dump.  The streaming one keeps the earliest changes it has *)
(* seen and returns what the eager path returns, for every selection,      *)
(* decodable trace, visiting order, window and limit, and a backend that   *)
(* seeks differs at the left edge of its window only.  The eager one, the  *)
(* heap replay, answers every query correctly and implements the one-step  *)
(* promise.                                                                *)
(***************************************************************************)
EXTENDS EventMerge, BoundedDump, FunctionTheorems, FiniteSetTheorems, TLAPS

(***************************************************************************)
(* Ranks.  In a finite set under a strict total order, an element's rank   *)
(* is the number of elements before it; the ranks are 0 up to the size.    *)
(***************************************************************************)
RankIn(I, R, j) == Cardinality({i \in I : <<i, j>> \in R})

StrictTotal(I, R) ==
  /\ \A i \in I : <<i, i>> \notin R
  /\ \A i, j \in I : i # j => <<i, j>> \in R \/ <<j, i>> \in R
  /\ \A i, j, k \in I : <<i, j>> \in R /\ <<j, k>> \in R => <<i, k>> \in R

(* A later element has the greater rank, and every rank is below the size. *)
LEMMA RanksGrow ==
  ASSUME NEW I, IsFiniteSet(I), NEW R, StrictTotal(I, R)
  PROVE  /\ \A j \in I : RankIn(I, R, j) \in 0..(Cardinality(I) - 1)
         /\ \A i, j \in I : <<i, j>> \in R => RankIn(I, R, i) < RankIn(I, R, j)
<1>. DEFINE Before(j) == {i \in I : <<i, j>> \in R}
<1>1. ASSUME NEW j \in I
      PROVE  /\ IsFiniteSet(Before(j)) /\ Cardinality(Before(j)) \in Nat
             /\ Cardinality(Before(j)) < Cardinality(I)
             /\ Cardinality(I) \in Nat
             /\ RankIn(I, R, j) = Cardinality(Before(j))
  <2>1. Before(j) \in SUBSET I /\ j \notin Before(j)
    BY DEF StrictTotal
  <2>2. /\ IsFiniteSet(Before(j))
        /\ Cardinality(Before(j)) <= Cardinality(I)
        /\ Cardinality(I) # Cardinality(Before(j))
    BY <2>1, FS_Subset
  <2>3. Cardinality(Before(j)) \in Nat /\ Cardinality(I) \in Nat
    BY <2>2, FS_CardinalityType
  <2>. QED
    BY <2>2, <2>3 DEF RankIn
<1>2. ASSUME NEW i \in I, NEW j \in I, <<i, j>> \in R
      PROVE  RankIn(I, R, i) < RankIn(I, R, j)
  <2>1. Before(i) \in SUBSET Before(j) /\ i \in Before(j) /\ i \notin Before(i)
    BY <1>2 DEF StrictTotal
  <2>2. /\ Cardinality(Before(i)) <= Cardinality(Before(j))
        /\ Cardinality(Before(i)) # Cardinality(Before(j))
    BY <1>1, <2>1, FS_Subset
  <2>3. /\ RankIn(I, R, i) = Cardinality(Before(i)) /\ RankIn(I, R, i) \in Nat
        /\ RankIn(I, R, j) = Cardinality(Before(j)) /\ RankIn(I, R, j) \in Nat
    BY <1>1
  <2>. HIDE DEF Before
  <2>. QED
    BY <2>2, <2>3
<1>3. ASSUME NEW j \in I
      PROVE  RankIn(I, R, j) \in 0..(Cardinality(I) - 1)
  <2>1. /\ RankIn(I, R, j) = Cardinality(Before(j)) /\ RankIn(I, R, j) \in Nat
        /\ Cardinality(Before(j)) < Cardinality(I)
        /\ Cardinality(I) \in Nat
    BY <1>1
  <2>. HIDE DEF Before
  <2>. QED
    BY <2>1
<1>. QED
  BY <1>2, <1>3

(* Every rank below the size is the rank of one element.                   *)
LEMMA RanksCover ==
  ASSUME NEW I, IsFiniteSet(I), NEW R, StrictTotal(I, R),
         NEW n \in 1..Cardinality(I)
  PROVE  \E j \in I : RankIn(I, R, j) = n - 1
<1>. DEFINE N == Cardinality(I)
            rank == [j \in I |-> RankIn(I, R, j)]
<1>1. N \in Nat
  BY FS_CardinalityType
<1>2. rank \in [I -> 0..(N - 1)]
  BY RanksGrow
<1>3. \A i, j \in I : rank[i] = rank[j] => i = j
  <2>1. SUFFICES ASSUME NEW i \in I, NEW j \in I, i # j PROVE rank[i] # rank[j]
    OBVIOUS
  <2>2. rank[i] < rank[j] \/ rank[j] < rank[i]
    BY <2>1, RanksGrow DEF StrictTotal
  <2>3. rank[i] \in Int /\ rank[j] \in Int
    BY <1>1, <1>2
  <2>. QED
    BY <2>2, <2>3
<1>4. rank \in Injection(I, 0..(N - 1))
  BY <1>2, <1>3, Fun_IsInj
<1>5. IsFiniteSet(0..(N - 1)) /\ Cardinality(0..(N - 1)) = N
  <2>1. 0 \in Int /\ N - 1 \in Int /\ (0 > N - 1 => N = 0)
    BY <1>1
  <2>. HIDE DEF N
  <2>2. IsFiniteSet(0..(N - 1))
    BY <2>1, FS_Interval
  <2>3. Cardinality(0..(N - 1)) = IF 0 > N - 1 THEN 0 ELSE (N - 1) - 0 + 1
    BY <2>1, FS_Interval
  <2>. QED
    BY <1>1, <2>1, <2>2, <2>3
<1>6. rank \in Surjection(I, 0..(N - 1))
  BY <1>4, <1>5, FS_Injection
<1>7. n - 1 \in 0..(N - 1)
  BY <1>1
<1>8. \E j \in I : rank[j] = n - 1
  <2>. HIDE DEF rank, N
  <2>1. \A k \in 0..(N - 1) : \E j \in I : rank[j] = k
    BY <1>6, Fun_SurjectionProperties
  <2>. QED
    BY <1>7, <2>1
<1>. QED
  BY <1>8

FirstOf(r, m) == {r[i] : i \in 1..m}

(* The range of a duplicate-free list has as many members as the list.     *)
LEMMA RangeSize ==
  ASSUME NEW n \in Nat, NEW T, NEW r \in Injection(1..n, T), NEW m \in 0..n
  PROVE  IsFiniteSet(FirstOf(r, m)) /\ Cardinality(FirstOf(r, m)) = m
<1>. DEFINE S == {r[i] : i \in 1..m}
            f == [i \in 1..m |-> r[i]]
<1>. r \in [1..n -> T] /\ \A i, j \in 1..n : r[i] = r[j] => i = j
  BY Fun_InjectionProperties
<1>1. f \in [1..m -> S] /\ \A i, j \in 1..m : f[i] = f[j] => i = j
  OBVIOUS
<1>2. f \in Injection(1..m, S)
  BY <1>1, Fun_IsInj
<1>3. f \in Surjection(1..m, S)
  BY <1>1, Fun_IsSurj
<1>4. IsFiniteSet(1..m) /\ Cardinality(1..m) = m
  BY FS_Interval
<1>. HIDE DEF f, S
<1>5. IsFiniteSet(S) /\ Cardinality(S) = m
  BY <1>2, <1>3, <1>4, FS_Surjection
<1>. QED
  BY <1>5 DEF S, FirstOf

ListsByRank(I, R, r) ==
  /\ r \in [1..Cardinality(I) -> I]
  /\ \A n \in 1..Cardinality(I) : RankIn(I, R, r[n]) = n - 1

(* Listed by rank, the elements come in order, each of them once.          *)
LEMMA ListedByRank ==
  ASSUME NEW I, IsFiniteSet(I), NEW R, StrictTotal(I, R),
         NEW r, ListsByRank(I, R, r)
  PROVE  /\ \A m, n \in 1..Cardinality(I) : m < n => <<r[m], r[n]>> \in R
         /\ \A m, n \in 1..Cardinality(I) : r[m] = r[n] => m = n
         /\ \A i \in I : \E n \in 1..Cardinality(I) : r[n] = i
<1>. DEFINE N == Cardinality(I)
<1>1. N \in Nat
  BY FS_CardinalityType
<1>. r \in [1..N -> I] /\ \A n \in 1..N : RankIn(I, R, r[n]) = n - 1
  BY DEF ListsByRank
<1>2. \A m, n \in 1..N : r[m] = r[n] => m = n
  BY <1>1
<1>3. ASSUME NEW m \in 1..N, NEW n \in 1..N, m < n
      PROVE  <<r[m], r[n]>> \in R
  <2>1. r[m] \in I /\ r[n] \in I /\ r[m] # r[n]
    BY <1>2, <1>3
  <2>2. ASSUME <<r[n], r[m]>> \in R PROVE FALSE
    <3>1. RankIn(I, R, r[n]) < RankIn(I, R, r[m])
      BY <2>1, <2>2, RanksGrow
    <3>. QED
      BY <1>1, <1>3, <3>1
  <2>. QED
    BY <2>1, <2>2 DEF StrictTotal
<1>4. ASSUME NEW i \in I
      PROVE  \E n \in 1..N : r[n] = i
  <2>1. RankIn(I, R, i) \in 0..(N - 1)
    BY RanksGrow
  <2>2. PICK n \in 1..N : n = RankIn(I, R, i) + 1
    BY <1>1, <2>1
  <2>3. RankIn(I, R, r[n]) = RankIn(I, R, i) /\ r[n] \in I
    BY <2>1, <2>2
  <2>4. r[n] # i => RankIn(I, R, r[n]) < RankIn(I, R, i) \/ RankIn(I, R, i) < RankIn(I, R, r[n])
    BY <2>3, RanksGrow DEF StrictTotal
  <2>. QED
    BY <2>1, <2>3, <2>4
<1>. QED
  BY <1>2, <1>3, <1>4

(* A set of naturals that is not empty has a least element.                *)
LEMMA LeastNatural ==
  ASSUME NEW S \in SUBSET Nat, S # {}
  PROVE  \E p \in S : \A r \in S : p <= r
<1>1. PICK p \in S : \A r \in S : ~(<<r, p>> \in OpToRel(<, Nat))
  BY NatLessThanWellFounded, WFMin
<1>2. ASSUME NEW r \in S PROVE p <= r
  <2>1. ~(<<r, p>> \in OpToRel(<, Nat))
    BY <1>1
  <2>2. r < p => <<r, p>> \in OpToRel(<, Nat)
    BY DEF OpToRel
  <2>3. ~(r < p)
    BY <2>1, <2>2, Zenon
  <2>. QED
    BY <2>3
<1>. QED
  BY <1>2

-----------------------------------------------------------------------------

(* What is known of a change of the window.                                *)
LEMMA EventFacts ==
  ASSUME told \in [Sid -> Seq(Int)], NEW e \in WindowEvents(told, query)
  PROVE  /\ e \in EventRecord
         /\ e.pos \in DOMAIN told[e.sid] /\ e.pos \in Nat
         /\ e.tick = told[e.sid][e.pos]
         /\ e.decl = DeclOrder[e.sid]
         /\ e = Event(told, e.sid, e.pos)
         /\ InWindow(e.tick, query)
<1>1. PICK s \in Sid : e \in EventsOf(told, s)
  BY DEF WindowEvents
<1>2. told[s] \in Seq(Int)
  OBVIOUS
<1>3. PICK p \in DOMAIN told[s] : e = Event(told, s, p)
  BY <1>1 DEF EventsOf
<1>4. told[s][p] \in Int /\ DeclOrder[s] \in Nat /\ p \in Nat \ {0}
  BY <1>2, SidAssumption
<1>5. InWindow(e.tick, query)
  BY DEF WindowEvents
<1>. QED
  BY <1>3, <1>4, <1>5 DEF Event, EventRecord

(* A position of a trace whose tick is in the window is such a change.     *)
LEMMA EventAt ==
  ASSUME told \in [Sid -> Seq(Int)], NEW s \in Sid, NEW p \in DOMAIN told[s],
         InWindow(told[s][p], query)
  PROVE  /\ Event(told, s, p) \in WindowEvents(told, query)
         /\ Event(told, s, p).sid = s
         /\ Event(told, s, p).pos = p
<1>1. Event(told, s, p).sid = s /\ Event(told, s, p).pos = p
      /\ Event(told, s, p).tick = told[s][p]
  BY DEF Event
<1>2. Event(told, s, p) \in EventsOf(told, s)
  BY DEF EventsOf
<1>. QED
  BY <1>1, <1>2 DEF WindowEvents

(* The key order is a strict weak order: "not above" is transitive.        *)
LEMMA KeyOrder ==
  ASSUME NEW a \in EventRecord, NEW b \in EventRecord, NEW c \in EventRecord
  PROVE  /\ ~KeyLess(a, a)
         /\ KeyLess(a, b) => ~KeyLess(b, a)
         /\ KeyLess(a, b) /\ KeyLess(b, c) => KeyLess(a, c)
         /\ ~KeyLess(a, b) /\ ~KeyLess(b, c) => ~KeyLess(a, c)
         /\ KeyLess(a, b) \/ KeyLess(b, a) \/ KeyEqual(a, b)
         /\ KeyLess(a, b) => ~KeyEqual(a, b)
         /\ KeyEqual(a, b) <=> ~KeyLess(a, b) /\ ~KeyLess(b, a)
BY DEF KeyLess, KeyEqual, EventRecord

(* The order of the rows is strict, and total on the changes of a window.  *)
LEMMA RowOrder ==
  ASSUME told \in [Sid -> Seq(Int)],
         NEW a \in WindowEvents(told, query), NEW b \in WindowEvents(told, query),
         NEW c \in WindowEvents(told, query)
  PROVE  /\ ~Precedes(a, a)
         /\ Precedes(a, b) /\ Precedes(b, c) => Precedes(a, c)
         /\ a # b => Precedes(a, b) \/ Precedes(b, a)
         /\ Precedes(a, b) => ~KeyLess(b, a)
         /\ KeyEqual(a, b) => a.sid = b.sid
<1>1. /\ a \in EventRecord /\ b \in EventRecord /\ c \in EventRecord
      /\ a.decl = DeclOrder[a.sid] /\ b.decl = DeclOrder[b.sid]
      /\ a = Event(told, a.sid, a.pos) /\ b = Event(told, b.sid, b.pos)
  BY EventFacts
<1>2. a.sid \in Sid /\ b.sid \in Sid
  BY <1>1 DEF EventRecord
<1>3. a.decl = b.decl => a.sid = b.sid
  BY <1>1, <1>2, SidAssumption
<1>4. a.decl = b.decl /\ a.pos = b.pos => a = b
  BY <1>1, <1>3
<1>5. ~Precedes(a, a) /\ (Precedes(a, b) /\ Precedes(b, c) => Precedes(a, c))
      /\ (Precedes(a, b) => ~KeyLess(b, a))
  BY <1>1 DEF Precedes, KeyLess, KeyEqual, EventRecord
<1>6. a # b => Precedes(a, b) \/ Precedes(b, a)
  BY <1>1, <1>4 DEF Precedes, KeyLess, KeyEqual, EventRecord
<1>. QED
  BY <1>3, <1>5, <1>6 DEF KeyEqual

(* A window has finitely many changes.                                     *)
LEMMA WindowIsFinite ==
  ASSUME told \in [Sid -> Seq(Int)]
  PROVE  IsFiniteSet(WindowEvents(told, query))
<1>1. ASSUME NEW s \in Sid
      PROVE  IsFiniteSet(EventsOf(told, s))
  <2>. DEFINE f == [p \in DOMAIN told[s] |-> Event(told, s, p)]
  <2>1. told[s] \in Seq(Int)
    OBVIOUS
  <2>2. IsFiniteSet(1..Len(told[s])) /\ DOMAIN told[s] = 1..Len(told[s])
    BY <2>1, FS_Interval
  <2>3. f \in Surjection(DOMAIN told[s], EventsOf(told, s))
    BY Fun_IsSurj DEF EventsOf
  <2>. QED
    BY <2>2, <2>3, FS_Surjection
<1>2. IsFiniteSet({EventsOf(told, s) : s \in Sid})
  <2>. DEFINE g == [s \in Sid |-> EventsOf(told, s)]
  <2>1. g \in Surjection(Sid, {EventsOf(told, s) : s \in Sid})
    BY Fun_IsSurj
  <2>. QED
    BY <2>1, SidAssumption, FS_Surjection
<1>3. IsFiniteSet(UNION {EventsOf(told, s) : s \in Sid})
  BY <1>1, <1>2, FS_UNION
<1>4. WindowEvents(told, query) \in SUBSET (UNION {EventsOf(told, s) : s \in Sid})
  BY DEF WindowEvents
<1>. QED
  BY <1>3, <1>4, FS_Subset

(* A list of all changes of the window in the order of the rows exists,    *)
(* and InOrder is it.                                                      *)
LEMMA InOrderFacts ==
  ASSUME told \in [Sid -> Seq(Int)]
  PROVE  LET W == WindowEvents(told, query)
             eager == InOrder(W)
         IN  /\ Cardinality(W) \in Nat
             /\ eager \in [1..Cardinality(W) -> W]
             /\ \A m, n \in 1..Cardinality(W) : m < n => Precedes(eager[m], eager[n])
             /\ \A m, n \in 1..Cardinality(W) : eager[m] = eager[n] => m = n
             /\ \A e \in W : \E n \in 1..Cardinality(W) : eager[n] = e
<1>. DEFINE W == WindowEvents(told, query)
            R == {p \in W \X W : Precedes(p[1], p[2])}
            eager == InOrder(W)
            N == Cardinality(W)
<1>1. IsFiniteSet(W) /\ N \in Nat
  BY WindowIsFinite, FS_CardinalityType
<1>2. \A a, b \in W : <<a, b>> \in R <=> Precedes(a, b)
  OBVIOUS
<1>3. StrictTotal(W, R)
  BY <1>2, RowOrder DEF StrictTotal
<1>4. ASSUME NEW e \in W
      PROVE  RankIn(W, R, e) = Cardinality({f \in W : Precedes(f, e)})
  <2>1. {f \in W : <<f, e>> \in R} = {f \in W : Precedes(f, e)}
    BY <1>2
  <2>. QED
    BY <2>1 DEF RankIn
<1>5. ASSUME NEW n \in 1..N
      PROVE  eager[n] \in W /\ RankIn(W, R, eager[n]) = n - 1
  <2>1. \E e \in W : Cardinality({f \in W : Precedes(f, e)}) = n - 1
    <3>1. PICK e \in W : RankIn(W, R, e) = n - 1
      BY <1>1, <1>3, RanksCover
    <3>. QED
      BY <1>4, <3>1
  <2>2. eager[n] = CHOOSE e \in W : Cardinality({f \in W : Precedes(f, e)}) = n - 1
    BY DEF InOrder
  <2>3. eager[n] \in W /\ Cardinality({f \in W : Precedes(f, eager[n])}) = n - 1
    <3>. HIDE DEF W, eager
    <3>. QED
      BY <2>1, <2>2
  <2>. QED
    BY <1>4, <2>3
<1>6. eager \in [1..N -> W]
  BY <1>5 DEF InOrder
<1>. HIDE DEF W, R, eager
<1>7. /\ \A m, n \in 1..N : m < n => <<eager[m], eager[n]>> \in R
      /\ \A m, n \in 1..N : eager[m] = eager[n] => m = n
      /\ \A i \in W : \E n \in 1..N : eager[n] = i
  <2>1. ListsByRank(W, R, eager)
    BY <1>5, <1>6 DEF ListsByRank
  <2>. QED
    BY <1>1, <1>3, <2>1, ListedByRank
<1>8. \A m, n \in 1..N : m < n => Precedes(eager[m], eager[n])
  BY <1>2, <1>6, <1>7
<1>. QED
  BY <1>1, <1>6, <1>7, <1>8 DEF W, eager, N

(* The stable sort returns the list's changes, each as often as the list   *)
(* has it, by ascending key.                                               *)
LEMMA StableSortFacts ==
  ASSUME NEW list \in Seq(EventRecord)
  PROVE  LET r == StablySorted(list)
         IN  /\ r \in Seq(EventRecord) /\ Len(r) = Len(list)
             /\ RowSet(r) = RowSet(list)
             /\ \A i, j \in DOMAIN r : i < j => ~KeyLess(r[j], r[i])
             /\ (\A i, j \in DOMAIN list : list[i] = list[j] => i = j)
                  => \A i, j \in DOMAIN r : r[i] = r[j] => i = j
<1>. DEFINE I == DOMAIN list
            R == {p \in I \X I : SortsBefore(list, p[1], p[2])}
            pick == [n \in I |-> CHOOSE j \in I :
                       Cardinality({i \in I : SortsBefore(list, i, j)}) = n - 1]
            r == StablySorted(list)
<1>1. I = 1..Len(list) /\ Len(list) \in Nat
  OBVIOUS
<1>2. IsFiniteSet(I) /\ Cardinality(I) = Len(list)
  BY <1>1, FS_Interval
<1>3. \A a, b \in I : <<a, b>> \in R <=> SortsBefore(list, a, b)
  OBVIOUS
<1>4. StrictTotal(I, R)
  <2>1. \A i \in I : list[i] \in EventRecord /\ i \in Int
    BY <1>1
  <2>2. \A i \in I : ~SortsBefore(list, i, i)
    BY <2>1, KeyOrder DEF SortsBefore
  <2>3. \A i, j \in I : i # j => SortsBefore(list, i, j) \/ SortsBefore(list, j, i)
    BY <2>1, KeyOrder DEF SortsBefore
  <2>4. ASSUME NEW i \in I, NEW j \in I, NEW k \in I,
               SortsBefore(list, i, j), SortsBefore(list, j, k)
        PROVE  SortsBefore(list, i, k)
    <3>1. /\ list[i] \in EventRecord /\ list[j] \in EventRecord
          /\ list[k] \in EventRecord /\ i \in Int /\ j \in Int /\ k \in Int
      BY <2>1
    <3>. HIDE DEF I
    <3>2. KeyLess(list[i], list[j]) \/ KeyLess(list[j], list[k])
            => KeyLess(list[i], list[k])
      BY <2>4, <3>1, KeyOrder DEF SortsBefore
    <3>3. KeyEqual(list[i], list[j]) /\ KeyEqual(list[j], list[k])
            => KeyEqual(list[i], list[k])
      BY DEF KeyEqual
    <3>. QED
      BY <2>4, <3>1, <3>2, <3>3 DEF SortsBefore
  <2>. QED
    BY <1>3, <2>2, <2>3, <2>4 DEF StrictTotal
<1>5. ASSUME NEW j \in I
      PROVE  RankIn(I, R, j) = Cardinality({i \in I : SortsBefore(list, i, j)})
  <2>1. {i \in I : <<i, j>> \in R} = {i \in I : SortsBefore(list, i, j)}
    BY <1>3
  <2>. QED
    BY <2>1 DEF RankIn
<1>6. ASSUME NEW n \in I
      PROVE  pick[n] \in I /\ RankIn(I, R, pick[n]) = n - 1
  <2>1. \E j \in I : Cardinality({i \in I : SortsBefore(list, i, j)}) = n - 1
    <3>1. PICK j \in I : RankIn(I, R, j) = n - 1
      BY <1>1, <1>2, <1>4, RanksCover
    <3>. QED
      BY <1>5, <3>1
  <2>2. pick[n] = CHOOSE j \in I : Cardinality({i \in I : SortsBefore(list, i, j)}) = n - 1
    OBVIOUS
  <2>3. pick[n] \in I /\ Cardinality({i \in I : SortsBefore(list, i, pick[n])}) = n - 1
    <3>. HIDE DEF I, pick
    <3>. QED
      BY <2>1, <2>2
  <2>. QED
    BY <1>5, <2>3
<1>7. pick \in [I -> I]
  BY <1>6
<1>8. r = [n \in I |-> list[pick[n]]]
  BY DEF StablySorted
<1>9. /\ \A m, n \in I : m < n => <<pick[m], pick[n]>> \in R
      /\ \A m, n \in I : pick[m] = pick[n] => m = n
      /\ \A i \in I : \E n \in I : pick[n] = i
  <2>. HIDE DEF I, R, pick
  <2>1. I = 1..Cardinality(I)
    BY <1>1, <1>2
  <2>2. ListsByRank(I, R, pick)
    BY <1>6, <1>7, <2>1 DEF ListsByRank
  <2>3. /\ \A m, n \in 1..Cardinality(I) : m < n => <<pick[m], pick[n]>> \in R
        /\ \A m, n \in 1..Cardinality(I) : pick[m] = pick[n] => m = n
        /\ \A i \in I : \E n \in 1..Cardinality(I) : pick[n] = i
    BY <1>2, <1>4, <2>2, ListedByRank
  <2>. QED
    BY <2>1, <2>3
<1>. HIDE DEF pick, r, R
<1>10. r \in Seq(EventRecord) /\ Len(r) = Len(list) /\ DOMAIN r = I
  BY <1>1, <1>7, <1>8
<1>11. RowSet(r) = RowSet(list)
  BY <1>7, <1>8, <1>9, <1>10 DEF RowSet
<1>12. ASSUME NEW i \in I, NEW j \in I, i < j PROVE ~KeyLess(r[j], r[i])
  <2>1. SortsBefore(list, pick[i], pick[j])
    BY <1>3, <1>7, <1>9, <1>12
  <2>2. list[pick[i]] \in EventRecord /\ list[pick[j]] \in EventRecord
    BY <1>1, <1>7
  <2>. QED
    BY <1>8, <2>1, <2>2, KeyOrder DEF SortsBefore
<1>13. ASSUME \A i, j \in I : list[i] = list[j] => i = j
       PROVE  \A i, j \in I : r[i] = r[j] => i = j
  BY <1>7, <1>8, <1>9, <1>13
<1>. QED
  BY <1>10, <1>11, <1>12, <1>13 DEF r

AllAmongFewer(a, b, i) == \A j \in 1..i : \E k \in 1..(i - 1) : a[j] = b[k]

(* The first i of one duplicate-free list are not all among the first      *)
(* i - 1 of another.                                                       *)
LEMMA TooManyBelow ==
  ASSUME NEW n \in Nat, NEW m \in Nat, NEW T,
         NEW a \in Injection(1..n, T), NEW b \in Injection(1..m, T),
         NEW i \in 1..n, i \in 1..m
  PROVE  ~AllAmongFewer(a, b, i)
<1>. SUFFICES ASSUME AllAmongFewer(a, b, i) PROVE FALSE
  OBVIOUS
<1>. DEFINE A == FirstOf(a, i)
            B == FirstOf(b, i - 1)
<1>1. IsFiniteSet(A) /\ Cardinality(A) = i
  <2>1. i \in 0..n
    OBVIOUS
  <2>. QED
    BY <2>1, RangeSize
<1>2. IsFiniteSet(B) /\ Cardinality(B) = i - 1
  <2>1. i - 1 \in 0..m
    OBVIOUS
  <2>. QED
    BY <2>1, RangeSize
<1>3. A \in SUBSET B
  BY DEF FirstOf, AllAmongFewer
<1>4. Cardinality(A) <= Cardinality(B)
  BY <1>2, <1>3, FS_Subset
<1>. HIDE DEF A, B
<1>. QED
  BY <1>1, <1>2, <1>4

(* A list by ascending key of changes none of which is above a change left *)
(* out has, place by place, the keys of the list of all of them in order.  *)
LEMMA SamePlaces ==
  ASSUME told \in [Sid -> Seq(Int)],
         NEW N \in Nat, NEW eager \in [1..N -> WindowEvents(told, query)],
         \A i, j \in 1..N : i < j => Precedes(eager[i], eager[j]),
         \A i, j \in 1..N : eager[i] = eager[j] => i = j,
         \A e \in WindowEvents(told, query) : \E i \in 1..N : eager[i] = e,
         NEW n \in 0..N, NEW r \in [1..n -> WindowEvents(told, query)],
         \A i, j \in 1..n : i < j => ~KeyLess(r[j], r[i]),
         \A i, j \in 1..n : r[i] = r[j] => i = j,
         \A e \in WindowEvents(told, query) :
            (\A i \in 1..n : r[i] # e) => \A i \in 1..n : ~KeyLess(e, r[i])
  PROVE  \A i \in 1..n : KeyEqual(r[i], eager[i])
<1>. DEFINE W == WindowEvents(told, query)
<1>. SUFFICES ASSUME NEW i \in 1..n PROVE KeyEqual(r[i], eager[i])
  OBVIOUS
<1>1. \A e \in W : e \in EventRecord
  BY EventFacts
<1>2. \A j, k \in 1..N : j <= k => ~KeyLess(eager[k], eager[j])
  <2>1. \A j, k \in 1..N : j < k => ~KeyLess(eager[k], eager[j])
    BY RowOrder
  <2>2. \A j \in 1..N : ~KeyLess(eager[j], eager[j])
    BY <1>1, KeyOrder
  <2>. QED
    BY <2>1, <2>2
<1>3. \A j, k \in 1..n : j <= k => ~KeyLess(r[k], r[j])
  <2>1. \A j \in 1..n : ~KeyLess(r[j], r[j])
    BY <1>1, KeyOrder
  <2>. QED
    BY <2>1
<1>4. i \in 1..N /\ r[i] \in W /\ eager[i] \in W
  OBVIOUS
<1>5. /\ n \in Nat /\ N \in Nat /\ i \in 1..n /\ i \in 1..N
      /\ r \in Injection(1..n, W) /\ eager \in Injection(1..N, W)
  BY Fun_IsInj
<1>6. ~KeyLess(r[i], eager[i])
  <2>. SUFFICES ASSUME KeyLess(r[i], eager[i]) PROVE FALSE
    OBVIOUS
  <2>. ~AllAmongFewer(r, eager, i)
    BY ONLY <1>5, TooManyBelow
  <2>1. PICK j \in 1..i : \A k \in 1..(i - 1) : r[j] # eager[k]
    BY DEF AllAmongFewer
  <2>2. j \in 1..n /\ r[j] \in W
    OBVIOUS
  <2>3. PICK k \in 1..N : eager[k] = r[j]
    BY <2>2
  <2>4. i <= k
    BY <2>1, <2>3
  <2>5. ~KeyLess(r[j], eager[i])
    BY <1>2, <1>4, <2>3, <2>4
  <2>6. ~KeyLess(r[i], r[j])
    BY <1>3, <2>2
  <2>. QED
    BY <1>1, <1>4, <2>2, <2>5, <2>6, KeyOrder
<1>7. ~KeyLess(eager[i], r[i])
  <2>. SUFFICES ASSUME KeyLess(eager[i], r[i]) PROVE FALSE
    OBVIOUS
  <2>. ~AllAmongFewer(eager, r, i)
    BY ONLY <1>5, TooManyBelow
  <2>1. PICK j \in 1..i : \A k \in 1..(i - 1) : eager[j] # r[k]
    BY DEF AllAmongFewer
  <2>2. j \in 1..N /\ eager[j] \in W
    OBVIOUS
  <2>3. ~KeyLess(eager[i], eager[j])
    BY <1>2, <1>4, <2>2
  <2>4. KeyLess(eager[j], r[i])
    BY <1>1, <1>4, <2>2, <2>3, KeyOrder
  <2>5. PICK k \in 1..n : r[k] = eager[j]
    BY <2>2, <2>4
  <2>6. i <= k
    BY <2>1, <2>5
  <2>. QED
    BY <1>3, <2>4, <2>5, <2>6
<1>. QED
  BY <1>1, <1>4, <1>6, <1>7, KeyOrder

-----------------------------------------------------------------------------

(* The inductive invariant.  What has been scanned is what the cursor and  *)
(* the visits still to come say; it is counted, held whole where there is  *)
(* no limit, and its earliest part is held where there is one.             *)
VisitsOnce == \A i, j \in DOMAIN todo : todo[i] = todo[j] => i = j

CursorIsNext ==
  IF todo = << >> THEN cursor = 0
                  ELSE cursor # 0 => cursor \in InRange(Head(todo))

ListHoldsAll ==
  query.limit = 0 =>
    /\ RowSet(all) = Scanned
    /\ \A i, j \in DOMAIN all : all[i] = all[j] => i = j

ReturnsHeld ==
  pc = "done" =>
    /\ todo = << >>
    /\ IF query.limit = 0 THEN rows = StablySorted(all) ELSE rows \in SortedByKey(keep)
    /\ truncated = (query.limit # 0 /\ total > query.limit)

DecodeSound == \A s \in Sid : told[s] \in Decodes(trace[s])

ScanInv ==
  /\ ScanTypeOK
  /\ DecodeSound
  /\ VisitsOnce
  /\ CursorIsNext
  /\ total = Cardinality(Scanned)
  /\ HeapHoldsEarliest
  /\ ListHoldsAll
  /\ ReturnsHeld

(* The least member chosen is one, and is the least.                       *)
LEMMA ChosenLeast ==
  ASSUME NEW S \in SUBSET Nat, S # {}
  PROVE  LET p == CHOOSE p \in S : \A r \in S : p <= r
         IN  p \in S /\ \A r \in S : p <= r
BY LeastNatural

(* The positions a scan looks at are positions of the trace whose tick is *)
(* in the window; the first of them is where the scan of a signal starts.  *)
LEMMA RangeFacts ==
  ASSUME told \in [Sid -> Seq(Int)], NEW s \in Sid
  PROVE  /\ InRange(s) \in SUBSET Nat /\ 0 \notin InRange(s)
         /\ InRange(s) \subseteq DOMAIN told[s]
         /\ \A p \in InRange(s) : InWindow(told[s][p], query)
         /\ InRange(s) = {} => FirstPosition(s) = 0
         /\ InRange(s) # {} =>
              FirstPosition(s) \in InRange(s) /\ \A r \in InRange(s) : FirstPosition(s) <= r
<1>1. told[s] \in Seq(Int)
  OBVIOUS
<1>2. DOMAIN told[s] \subseteq Nat \ {0}
  BY <1>1
<1>3. /\ InRange(s) \subseteq DOMAIN told[s]
      /\ \A p \in InRange(s) : InWindow(told[s][p], query)
  BY DEF InRange, Delivered
<1>4. InRange(s) \in SUBSET Nat /\ 0 \notin InRange(s)
  BY <1>2, <1>3
<1>5. InRange(s) # {} =>
        FirstPosition(s) \in InRange(s) /\ \A r \in InRange(s) : FirstPosition(s) <= r
  BY <1>4, ChosenLeast DEF FirstPosition
<1>. QED
  BY <1>3, <1>4, <1>5 DEF FirstPosition

(* What a scan looks at depends on the file, the query and the backend.    *)
LEMMA RangeUnchanged ==
  ASSUME UNCHANGED <<trace, query, windowed, told>>
  PROVE  /\ WindowEvents(told, query)' = WindowEvents(told, query)
         /\ \A s : InRange(s)' = InRange(s)
BY DEF InRange, Delivered, WindowEvents, EventsOf, Event, InWindow, WithinUpper

(* So does what the backend may deliver.                                   *)
LEMMA DecodeUnchanged ==
  ASSUME DecodeSound, UNCHANGED <<trace, query, windowed, told>>
  PROVE  DecodeSound'
<1>1. \A tr : Seed(tr)' = Seed(tr)
  BY DEF Seed
<1>2. \A tr, p : Restamped(tr, p)' = Restamped(tr, p)
  BY DEF Restamped
<1>3. \A tr : Decodes(tr)' = Decodes(tr)
  BY <1>1, <1>2 DEF Decodes
<1>. QED
  BY <1>3 DEF DecodeSound

(* A decode has the changes of the history, at their ticks but for a       *)
(* restamped seed.                                                         *)
LEMMA DecodeFacts ==
  ASSUME NEW tr \in Seq(Int), NEW d \in Decodes(tr), query.t0 \in Int
  PROVE  /\ d \in Seq(Int) /\ DOMAIN d = DOMAIN tr
         /\ \A p \in DOMAIN tr :
              d[p] = tr[p] \/ (windowed /\ p \in Seed(tr) /\ d[p] \in Restamped(tr, p))
<1>1. CASE d = tr
  BY <1>1
<1>2. CASE windowed /\ \E p \in Seed(tr) : \E t \in Restamped(tr, p) : d = [tr EXCEPT ![p] = t]
  <2>1. PICK p \in Seed(tr) : \E t \in Restamped(tr, p) : d = [tr EXCEPT ![p] = t]
    BY <1>2
  <2>2. PICK t \in Restamped(tr, p) : d = [tr EXCEPT ![p] = t]
    BY <2>1
  <2>3. p \in DOMAIN tr /\ t \in Int /\ DOMAIN tr = 1..Len(tr) /\ Len(tr) \in Nat
    BY <2>1, <2>2 DEF Seed, Restamped
  <2>4. d \in [1..Len(tr) -> Int]
    BY <2>2, <2>3
  <2>5. d[p] = t /\ \A q \in DOMAIN tr : q # p => d[q] = tr[q]
    BY <2>2, <2>3
  <2>. QED
    BY <1>2, <2>1, <2>2, <2>3, <2>4, <2>5
<1>3. CASE ~windowed
  BY <1>1, <1>3 DEF Decodes
<1>. QED
  BY <1>1, <1>2, <1>3 DEF Decodes

(* What a query, a file and a decode give of one signal.                   *)
LEMMA ToldFacts ==
  ASSUME ScanTypeOK, DecodeSound, NEW s \in Sid
  PROVE  /\ query.t0 \in Int
         /\ trace[s] \in Seq(Int) /\ told[s] \in Seq(Int)
         /\ DOMAIN told[s] = DOMAIN trace[s]
         /\ \A p \in DOMAIN trace[s] :
              \/ told[s][p] = trace[s][p]
              \/ windowed /\ p \in Seed(trace[s]) /\ told[s][p] \in Restamped(trace[s], p)
<1>1. trace[s] \in Seq(Int) /\ query.t0 \in Int /\ told[s] \in Decodes(trace[s])
  BY TracesAssumption, QueriesAssumption DEF ScanTypeOK, DecodeSound
<1>. QED
  BY <1>1, DecodeFacts

(* A decode of whole histories delivers them as they are.                  *)
LEMMA WholeDecode ==
  ASSUME ScanTypeOK, DecodeSound, ~windowed
  PROVE  told = trace
<1>1. told \in [Sid -> Seq(Int)] /\ trace \in [Sid -> Traces]
  BY DEF ScanTypeOK
<1>2. ASSUME NEW s \in Sid PROVE told[s] = trace[s]
  BY DEF DecodeSound, Decodes
<1>. QED
  BY <1>1, <1>2

(* Restamping a seed brings no ties into a history without.                *)
LEMMA ToldRises ==
  ASSUME ScanTypeOK, DecodeSound, NoTies, NEW s \in Sid,
         NEW i \in DOMAIN told[s], NEW j \in DOMAIN told[s], i < j
  PROVE  told[s][i] < told[s][j]
<1>. DEFINE tr == trace[s]
            d == told[s]
<1>1. /\ query.t0 \in Int /\ tr \in Seq(Int) /\ d \in Seq(Int) /\ DOMAIN d = DOMAIN tr
      /\ \A p \in DOMAIN tr :
           d[p] = tr[p] \/ (p \in Seed(tr) /\ d[p] \in Restamped(tr, p))
  BY ToldFacts
<1>2. \A p, r \in DOMAIN tr : p < r => tr[p] < tr[r]
  BY DEF NoTies
<1>3. i \in DOMAIN d /\ j \in DOMAIN d
  OBVIOUS
<1>. HIDE DEF tr, d
<1>4. /\ i \in Nat \ {0} /\ j \in Nat \ {0} /\ i \in DOMAIN tr /\ j \in DOMAIN tr
      /\ tr[i] \in Int /\ tr[j] \in Int /\ d[i] \in Int /\ d[j] \in Int
  BY <1>1, <1>3
<1>5. tr[i] < tr[j] /\ j # 1
  BY <1>2, <1>4
<1>6. d[i] <= tr[i] \/ (i \in Seed(tr) /\ d[i] = query.t0)
  BY <1>1, <1>4 DEF Restamped
<1>7. d[j] >= tr[j]
  BY <1>1, <1>4, <1>5 DEF Restamped
<1>8. i \in Seed(tr) => tr[j] > query.t0
  BY <1>1, <1>4 DEF Seed
<1>9. d[i] < d[j]
  BY <1>1, <1>4, <1>5, <1>6, <1>7, <1>8
<1>. QED
  BY <1>9 DEF d

(* The parts of a visit list without repetitions.                          *)
LEMMA TailFacts ==
  ASSUME NEW list \in Seq(Sid), list # << >>,
         \A i, j \in DOMAIN list : list[i] = list[j] => i = j
  PROVE  /\ Head(list) \in Sid /\ Head(list) \in RowSet(list)
         /\ Tail(list) \in Seq(Sid)
         /\ \A i, j \in DOMAIN Tail(list) : Tail(list)[i] = Tail(list)[j] => i = j
         /\ RowSet(Tail(list)) = RowSet(list) \ {Head(list)}
         /\ Tail(list) # << >> => Head(Tail(list)) \in RowSet(Tail(list))
<1>1. /\ Len(list) \in Nat \ {0} /\ DOMAIN list = 1..Len(list)
      /\ Head(list) = list[1] /\ Head(list) \in Sid
      /\ Tail(list) \in Seq(Sid) /\ Len(Tail(list)) = Len(list) - 1
      /\ DOMAIN Tail(list) = 1..(Len(list) - 1)
      /\ \A i \in 1..(Len(list) - 1) : Tail(list)[i] = list[i + 1]
  OBVIOUS
<1>2. 1 \in DOMAIN list
  BY <1>1
<1>3. \A i, j \in DOMAIN Tail(list) : Tail(list)[i] = Tail(list)[j] => i = j
  BY <1>1
<1>4. ASSUME NEW x PROVE x \in RowSet(Tail(list)) <=> x \in RowSet(list) /\ x # Head(list)
  <2>1. ASSUME NEW i \in 1..(Len(list) - 1), x = Tail(list)[i]
        PROVE  x \in RowSet(list) /\ x # Head(list)
    <3>1. i + 1 \in DOMAIN list /\ i + 1 # 1 /\ x = list[i + 1]
      BY <1>1, <2>1
    <3>. QED
      BY <1>1, <1>2, <3>1 DEF RowSet
  <2>2. ASSUME NEW i \in DOMAIN list, x = list[i], x # Head(list)
        PROVE  x \in RowSet(Tail(list))
    <3>1. i - 1 \in DOMAIN Tail(list) /\ Tail(list)[i - 1] = x
      BY <1>1, <2>2
    <3>. QED
      BY <3>1 DEF RowSet
  <2>. QED
    BY <1>1, <2>1, <2>2 DEF RowSet
<1>5. Tail(list) # << >> => Head(Tail(list)) \in RowSet(Tail(list))
  <2>. SUFFICES ASSUME Tail(list) # << >> PROVE Head(Tail(list)) \in RowSet(Tail(list))
    OBVIOUS
  <2>1. Head(Tail(list)) = Tail(list)[1] /\ 1 \in DOMAIN Tail(list)
    BY <1>1
  <2>. QED
    BY <2>1 DEF RowSet
<1>6. Head(list) \in RowSet(list)
  BY <1>1, <1>2 DEF RowSet
<1>. QED
  BY <1>1, <1>3, <1>4, <1>5, <1>6

(* The initial states satisfy the invariant: nothing is scanned yet.       *)
LEMMA ScanStarts == ScanInit => ScanInv
<1>. SUFFICES ASSUME ScanInit PROVE ScanInv
  OBVIOUS
<1>1. /\ trace \in [Sid -> Traces] /\ query \in Queries /\ windowed \in BOOLEAN
      /\ told \in [Sid -> UNION {Decodes(trace[s]) : s \in Sid}] /\ DecodeSound
      /\ todo \in Seq(Sid) /\ todo # << >> /\ RowSet(todo) = Sid /\ VisitsOnce
      /\ keep = {} /\ all = << >> /\ total = 0 /\ rows = << >> /\ truncated = FALSE
      /\ pc = "scan" /\ cursor = FirstPosition(Head(todo))
  BY VisitsAssumption, SeekingAssumption DEF ScanInit, VisitsOnce, DecodeSound
<1>2. Head(todo) \in Sid /\ told \in [Sid -> Seq(Int)]
  <2>1. query.t0 \in Int /\ \A s \in Sid : trace[s] \in Seq(Int)
    BY <1>1, TracesAssumption, QueriesAssumption
  <2>2. ASSUME NEW s \in Sid PROVE told[s] \in Seq(Int)
    BY <1>1, <2>1, <2>2, DecodeFacts DEF DecodeSound
  <2>. QED
    BY <1>1, <2>2
<1>. DEFINE h == Head(todo)
<1>10. /\ InRange(h) \in SUBSET Nat /\ 0 \notin InRange(h)
       /\ InRange(h) = {} => cursor = 0
       /\ InRange(h) # {} => cursor \in InRange(h) /\ \A r \in InRange(h) : cursor <= r
  BY <1>1, <1>2, RangeFacts
<1>3. ScanTypeOK
  <2>1. cursor \in Nat
    BY <1>10
  <2>2. all \in Seq(EventRecord) /\ rows \in Seq(EventRecord)
    BY <1>1
  <2>. QED
    BY <1>1, <1>2, <2>1, <2>2 DEF ScanTypeOK
<1>4. CursorIsNext
  BY <1>1, <1>10 DEF CursorIsNext
<1>5. Scanned = {}
  <2>. SUFFICES ASSUME NEW e \in Scanned PROVE FALSE
    OBVIOUS
  <2>1. /\ e \in WindowEvents(told, query) /\ e.pos \in InRange(e.sid)
        /\ \/ e.sid \notin RowSet(todo)
           \/ e.sid = Head(todo) /\ (cursor = 0 \/ e.pos < cursor)
    BY DEF Scanned
  <2>2. e.sid \in Sid /\ e.pos \in Nat
    BY <1>1, <1>2, <2>1, EventFacts DEF EventRecord
  <2>3. e.sid = h /\ (cursor = 0 \/ e.pos < cursor)
    BY <1>1, <2>1, <2>2
  <2>4. cursor \in InRange(h) /\ cursor <= e.pos /\ cursor \in Nat
    BY <1>10, <2>1, <2>3
  <2>. QED
    BY <1>10, <2>2, <2>3, <2>4
<1>6. total = Cardinality(Scanned)
  BY <1>1, <1>5, FS_EmptySet
<1>7. HeapHoldsEarliest
  <2>1. query.limit \in Nat /\ Cardinality(keep) = 0
    BY <1>1, QueriesAssumption, FS_EmptySet
  <2>. QED
    BY <1>1, <2>1 DEF HeapHoldsEarliest
<1>8. ListHoldsAll
  BY <1>1, <1>5 DEF ListHoldsAll, RowSet
<1>9. ReturnsHeld
  BY <1>1 DEF ReturnsHeld
<1>. QED
  BY <1>1, <1>3, <1>4, <1>6, <1>7, <1>8, <1>9 DEF ScanInv

(* One more change is scanned: the one the cursor is at.                   *)
LEMMA ScanAddsOne ==
  ASSUME ScanInv, Scan
  PROVE  LET e == Event(told, Head(todo), cursor)
         IN  /\ e \in WindowEvents(told, query) /\ e \in EventRecord
             /\ e \notin Scanned
             /\ Scanned' = Scanned \cup {e}
             /\ cursor' \in Nat
             /\ CursorIsNext'
<1>. DEFINE s == Head(todo)
            e == Event(told, s, cursor)
            later == {p \in InRange(s) : p > cursor}
<1>1. /\ told \in [Sid -> Seq(Int)] /\ todo \in Seq(Sid) /\ todo # << >>
      /\ cursor # 0 /\ cursor \in Nat /\ cursor \in InRange(s)
      /\ UNCHANGED <<trace, query, windowed, told, todo>>
      /\ cursor' = IF later = {} THEN 0
                   ELSE CHOOSE p \in later : \A r \in later : p <= r
  BY DEF ScanInv, ScanTypeOK, CursorIsNext, Scan
<1>2. s \in Sid /\ s \in RowSet(todo)
  <2>1. 1 \in DOMAIN todo /\ s = todo[1]
    BY <1>1
  <2>. QED
    BY <1>1, <2>1 DEF RowSet
<1>3. /\ e \in WindowEvents(told, query) /\ e.sid = s /\ e.pos = cursor
  BY <1>1, <1>2, RangeFacts, EventAt
<1>4. e \in EventRecord
  BY <1>1, <1>3, EventFacts
<1>5. e \notin Scanned
  BY <1>1, <1>2, <1>3 DEF Scanned
<1>6. later \in SUBSET Nat /\ later \subseteq InRange(s)
  BY <1>1, <1>2, RangeFacts
<1>7. /\ later = {} => cursor' = 0
      /\ later # {} => cursor' \in later /\ \A r \in later : cursor' <= r
  BY <1>1, <1>6, ChosenLeast
<1>8. cursor' \in Nat /\ CursorIsNext'
  <2>1. InRange(s)' = InRange(s) /\ s' = s
    BY <1>1, RangeUnchanged
  <2>. QED
    BY <1>1, <1>6, <1>7, <2>1 DEF CursorIsNext
<1>9. ASSUME NEW x \in WindowEvents(told, query)
      PROVE  x \in Scanned' <=> x \in Scanned \/ x = e
  <2>1. /\ x.sid \in Sid /\ x.pos \in Nat /\ x = Event(told, x.sid, x.pos)
    BY <1>1, EventFacts DEF EventRecord
  <2>2. x \in Scanned' <=> /\ x.pos \in InRange(x.sid)
                           /\ \/ x.sid \notin RowSet(todo)
                              \/ x.sid = s /\ (cursor' = 0 \/ x.pos < cursor')
    <3>1. /\ WindowEvents(told, query)' = WindowEvents(told, query)
          /\ InRange(x.sid)' = InRange(x.sid)
          /\ todo' = todo
      BY <1>1, RangeUnchanged
    <3>. QED
      BY <1>1, <3>1 DEF Scanned
  <2>3. x \in Scanned <=> /\ x.pos \in InRange(x.sid)
                          /\ \/ x.sid \notin RowSet(todo)
                             \/ x.sid = s /\ x.pos < cursor
    BY <1>1 DEF Scanned
  <2>4. x = e <=> x.sid = s /\ x.pos = cursor
    BY <1>3, <2>1
  <2>5. CASE x.sid # s
    BY <2>2, <2>3, <2>4, <2>5
  <2>6. CASE x.sid = s /\ x.pos \in InRange(s)
    <3>1. (cursor' = 0 \/ x.pos < cursor') <=> x.pos <= cursor
      <4>1. CASE later = {}
        BY <1>1, <1>7, <2>1, <2>6, <4>1
      <4>2. CASE later # {}
        <5>1. cursor' \in Nat /\ cursor' > cursor /\ (x.pos > cursor => cursor' <= x.pos)
          BY <1>6, <1>7, <2>6, <4>2
        <5>2. cursor \in Nat /\ x.pos \in Nat
          BY <1>1, <2>1
        <5>. HIDE DEF s, e, later
        <5>. QED
          BY <5>1, <5>2
      <4>. QED
        BY <4>1, <4>2
    <3>. QED
      BY <1>1, <1>2, <2>1, <2>2, <2>3, <2>4, <2>6, <3>1
  <2>7. CASE x.sid = s /\ x.pos \notin InRange(s)
    BY <1>1, <2>2, <2>3, <2>4, <2>7
  <2>. QED
    BY <2>5, <2>6, <2>7
<1>10. Scanned' \subseteq WindowEvents(told, query) /\ Scanned \subseteq WindowEvents(told, query)
  BY <1>1, RangeUnchanged DEF Scanned
<1>11. Scanned' = Scanned \cup {e}
  BY <1>3, <1>9, <1>10
<1>. QED
  BY <1>3, <1>4, <1>5, <1>8, <1>11

HoldsEarliest(K, S, L) ==
  /\ K \in SUBSET S
  /\ Cardinality(K) = IF Cardinality(S) < L THEN Cardinality(S) ELSE L
  /\ \A k \in K, x \in S \ K : ~KeyLess(x, k)

Retained(K, e, L, K2) ==
  IF Cardinality(K) < L THEN K2 = K \cup {e}
  ELSE \E top \in K :
         /\ \A f \in K : ~KeyLess(top, f)
         /\ K2 = IF KeyLess(e, top) THEN (K \ {top}) \cup {e} ELSE K

(* The heap after one more change: still the earliest of those scanned.    *)
LEMMA RetainKeepsEarliest ==
  ASSUME NEW S, IsFiniteSet(S), S \subseteq EventRecord,
         NEW L \in Nat \ {0}, NEW e \in EventRecord, e \notin S,
         NEW K, HoldsEarliest(K, S, L), NEW K2, Retained(K, e, L, K2)
  PROVE  HoldsEarliest(K2, S \cup {e}, L)
<1>. USE DEF HoldsEarliest, Retained
<1>1. /\ Cardinality(S) \in Nat /\ Cardinality(S \cup {e}) = Cardinality(S) + 1
      /\ IsFiniteSet(K) /\ Cardinality(K) \in Nat
  BY FS_CardinalityType, FS_AddElement, FS_Subset
<1>2. CASE Cardinality(K) < L
  <2>1. K = S
    BY <1>1, <1>2, FS_Subset
  <2>2. K2 = S \cup {e}
    BY <1>2, <2>1
  <2>. QED
    BY <1>1, <1>2, <2>1, <2>2
<1>3. CASE ~(Cardinality(K) < L)
  <2>1. PICK top \in K : /\ \A f \in K : ~KeyLess(top, f)
                         /\ K2 = IF KeyLess(e, top) THEN (K \ {top}) \cup {e} ELSE K
    BY <1>3
  <2>2. Cardinality(K) = L /\ ~(Cardinality(S) < L)
    BY <1>1, <1>3
  <2>3. CASE KeyLess(e, top)
    <3>1. K2 = (K \ {top}) \cup {e}
      BY <2>1, <2>3
    <3>2. Cardinality(K \ {top}) = L - 1 /\ IsFiniteSet(K \ {top}) /\ e \notin K \ {top}
      BY <1>1, <2>2, FS_RemoveElement
    <3>3. Cardinality(K2) = L
      <4>. DEFINE M == K \ {top}
      <4>1. Cardinality(M) = L - 1 /\ IsFiniteSet(M) /\ e \notin M /\ K2 = M \cup {e}
        BY <3>1, <3>2
      <4>. HIDE DEF M
      <4>2. Cardinality(M \cup {e}) = Cardinality(M) + 1
        BY <4>1, FS_AddElement
      <4>. QED
        BY <4>1, <4>2
    <3>4. ASSUME NEW k \in K2, NEW x \in (S \cup {e}) \ K2 PROVE ~KeyLess(x, k)
      <4>1. x \in S /\ (x = top \/ x \in S \ K) /\ top \in EventRecord /\ x \in EventRecord
        BY <3>1
      <4>2. CASE k = e
        <5>1. ~KeyLess(x, top)
          BY <2>1, <4>1
        <5>. QED
          BY <2>3, <4>1, <4>2, <5>1, KeyOrder
      <4>3. CASE k \in K
        BY <2>1, <4>1, <4>3
      <4>. QED
        BY <3>1, <4>2, <4>3
    <3>. QED
      BY <1>1, <2>2, <3>1, <3>3, <3>4
  <2>4. CASE ~KeyLess(e, top)
    <3>1. K2 = K
      BY <2>1, <2>4
    <3>2. \A k \in K : ~KeyLess(e, k)
      BY <2>1, <2>4, KeyOrder
    <3>. QED
      BY <1>1, <2>2, <3>1, <3>2
  <2>. QED
    BY <2>3, <2>4
<1>. QED
  BY <1>2, <1>3

(* Appending a change a list does not have yet.                            *)
LEMMA AppendOne ==
  ASSUME NEW list \in Seq(EventRecord), NEW e \in EventRecord, e \notin RowSet(list),
         \A i, j \in DOMAIN list : list[i] = list[j] => i = j
  PROVE  /\ Append(list, e) \in Seq(EventRecord)
         /\ RowSet(Append(list, e)) = RowSet(list) \cup {e}
         /\ \A i, j \in DOMAIN Append(list, e) :
              Append(list, e)[i] = Append(list, e)[j] => i = j
<1>. DEFINE n == Len(list)
            l2 == Append(list, e)
<1>1. /\ n \in Nat /\ DOMAIN list = 1..n
      /\ l2 \in Seq(EventRecord) /\ DOMAIN l2 = 1..(n + 1)
      /\ l2[n + 1] = e /\ \A i \in 1..n : l2[i] = list[i]
  OBVIOUS
<1>. HIDE DEF l2, n
<1>2. \A i \in 1..n : l2[i] \in RowSet(list)
  BY <1>1 DEF RowSet
<1>3. RowSet(l2) = RowSet(list) \cup {e}
  <2>1. ASSUME NEW i \in 1..(n + 1) PROVE l2[i] \in RowSet(list) \cup {e}
    <3>1. i \in 1..n \/ i = n + 1
      BY <1>1
    <3>. QED
      BY <1>1, <1>2, <3>1
  <2>2. ASSUME NEW i \in 1..n PROVE list[i] \in RowSet(l2)
    BY <1>1 DEF RowSet
  <2>3. e \in RowSet(l2)
    <3>1. n + 1 \in 1..(n + 1)
      BY <1>1
    <3>. QED
      BY <1>1, <3>1 DEF RowSet
  <2>. QED
    BY <1>1, <2>1, <2>2, <2>3 DEF RowSet
<1>4. ASSUME NEW i \in 1..(n + 1), NEW j \in 1..(n + 1), l2[i] = l2[j]
      PROVE  i = j
  <2>1. (i \in 1..n \/ i = n + 1) /\ (j \in 1..n \/ j = n + 1)
    BY <1>1
  <2>. QED
    BY <1>1, <1>2, <1>4, <2>1
<1>. QED
  BY <1>1, <1>3, <1>4 DEF l2

(* Scan preserves the invariant.                                           *)
LEMMA ScanPreserves == ScanInv /\ Scan => ScanInv'
<1>. SUFFICES ASSUME ScanInv, Scan PROVE ScanInv'
  OBVIOUS
<1>. DEFINE e == Event(told, Head(todo), cursor)
<1>1. /\ ScanTypeOK /\ VisitsOnce /\ HeapHoldsEarliest /\ ListHoldsAll
      /\ total = Cardinality(Scanned) /\ DecodeSound'
  BY DecodeUnchanged DEF ScanInv, Scan
<1>2. /\ total' = total + 1 /\ Retain(e) /\ pc = "scan" /\ pc' = pc
      /\ UNCHANGED <<trace, query, windowed, told, todo, rows, truncated>>
  BY DEF Scan
<1>3. /\ e \in WindowEvents(told, query) /\ e \in EventRecord /\ e \notin Scanned
      /\ Scanned' = Scanned \cup {e} /\ cursor' \in Nat /\ CursorIsNext'
  BY ScanAddsOne
<1>4. /\ IsFiniteSet(Scanned) /\ Scanned \subseteq EventRecord
      /\ query.limit \in Nat /\ total \in Nat
  <2>1. Scanned \in SUBSET WindowEvents(told, query)
    BY DEF Scanned
  <2>2. told \in [Sid -> Seq(Int)]
    BY <1>1 DEF ScanTypeOK
  <2>3. IsFiniteSet(Scanned)
    BY <2>1, <2>2, WindowIsFinite, FS_Subset
  <2>. QED
    BY <1>1, <2>1, <2>2, <2>3, EventFacts, QueriesAssumption DEF ScanTypeOK
<1>. HIDE DEF e
<1>5. Cardinality(Scanned') = Cardinality(Scanned) + 1
  BY <1>3, <1>4, FS_AddElement
<1>6. CASE query.limit = 0
  <2>1. /\ all' = Append(all, e) /\ keep' = keep
    BY <1>2, <1>6 DEF Retain
  <2>2. /\ all \in Seq(EventRecord) /\ RowSet(all) = Scanned
        /\ \A i, j \in DOMAIN all : all[i] = all[j] => i = j
    BY <1>1, <1>6 DEF ScanTypeOK, ListHoldsAll
  <2>3. /\ all' \in Seq(EventRecord) /\ RowSet(all') = Scanned'
        /\ \A i, j \in DOMAIN all' : all'[i] = all'[j] => i = j
    BY <1>3, <2>1, <2>2, AppendOne
  <2>4. ScanTypeOK'
    BY <1>1, <1>2, <1>3, <1>4, <2>1, <2>3 DEF ScanTypeOK
  <2>5. ListHoldsAll' /\ HeapHoldsEarliest'
    BY <1>2, <1>6, <2>3 DEF ListHoldsAll, HeapHoldsEarliest, RowSet
  <2>. QED
    BY <1>1, <1>2, <1>3, <1>5, <2>4, <2>5 DEF ScanInv, VisitsOnce, ReturnsHeld
<1>7. CASE query.limit # 0
  <2>1. /\ all' = all
        /\ Retained(keep, e, query.limit, keep')
    BY <1>2, <1>7 DEF Retain, IsTop, Retained
  <2>2. HoldsEarliest(keep, Scanned, query.limit)
    BY <1>1, <1>7 DEF HeapHoldsEarliest, HoldsEarliest
  <2>3. query.limit \in Nat \ {0}
    BY <1>4, <1>7
  <2>4. HoldsEarliest(keep', Scanned \cup {e}, query.limit)
    BY <1>3, <1>4, <2>1, <2>2, <2>3, RetainKeepsEarliest
  <2>5. HeapHoldsEarliest'
    <3>1. /\ query' = query /\ Scanned' = Scanned \cup {e}
          /\ total' = Cardinality(Scanned \cup {e})
      BY <1>1, <1>2, <1>3, <1>5
    <3>. QED
      BY <2>4, <3>1 DEF HeapHoldsEarliest, HoldsEarliest
  <2>6. ScanTypeOK'
    BY <1>1, <1>2, <1>3, <1>4, <2>1, <2>4 DEF ScanTypeOK, HoldsEarliest
  <2>7. ListHoldsAll'
    BY <1>2, <1>7 DEF ListHoldsAll
  <2>. QED
    BY <1>1, <1>2, <1>3, <1>5, <2>5, <2>6, <2>7 DEF ScanInv, VisitsOnce, ReturnsHeld
<1>. QED
  BY <1>6, <1>7

(* Going on to the next signal scans nothing.                              *)
LEMMA NextSignalPreserves == ScanInv /\ NextSignal => ScanInv'
<1>. SUFFICES ASSUME ScanInv, NextSignal PROVE ScanInv'
  OBVIOUS
<1>. DEFINE s == Head(todo)
            n == Head(Tail(todo))
<1>1. /\ ScanTypeOK /\ VisitsOnce /\ HeapHoldsEarliest /\ ListHoldsAll
      /\ total = Cardinality(Scanned) /\ DecodeSound'
      /\ told \in [Sid -> Seq(Int)] /\ todo \in Seq(Sid)
  BY DecodeUnchanged DEF ScanInv, ScanTypeOK, NextSignal
<1>2. /\ pc = "scan" /\ pc' = pc /\ todo # << >> /\ cursor = 0 /\ todo' = Tail(todo)
      /\ cursor' = IF Tail(todo) = << >> THEN 0 ELSE FirstPosition(n)
      /\ UNCHANGED <<trace, query, windowed, told>>
      /\ UNCHANGED <<keep, all, total, rows, truncated>>
  BY DEF NextSignal
<1>3. /\ s \in Sid /\ s \in RowSet(todo) /\ todo' \in Seq(Sid)
      /\ VisitsOnce' /\ RowSet(todo') = RowSet(todo) \ {s}
      /\ todo' # << >> => n \in RowSet(todo') /\ n \in Sid
  <2>1. Tail(todo) # << >> => n \in Sid
    BY <1>1, <1>2
  <2>. QED
    BY <1>1, <1>2, <2>1, TailFacts DEF VisitsOnce
<1>4. cursor' \in Nat /\ CursorIsNext'
  <2>1. InRange(Head(todo))' = InRange(n)
    BY <1>2 DEF InRange, Delivered, InWindow, WithinUpper
  <2>2. todo' # << >> => /\ cursor' \in Nat
                         /\ cursor' # 0 => cursor' \in InRange(n)
    <3>1. ASSUME NEW r \in Sid
          PROVE  FirstPosition(r) \in Nat /\ (FirstPosition(r) # 0 => FirstPosition(r) \in InRange(r))
      BY <1>1, RangeFacts
    <3>. QED
      BY <1>2, <1>3, <3>1
  <2>3. todo' = << >> => cursor' = 0
    BY <1>2
  <2>. HIDE DEF n, s
  <2>. QED
    BY <2>1, <2>2, <2>3 DEF CursorIsNext
<1>5. Scanned' = Scanned
  <2>1. ASSUME NEW x \in WindowEvents(told, query)
        PROVE  x \in Scanned' <=> x \in Scanned
    <3>1. /\ x.sid \in Sid /\ x.pos \in Nat
      BY <1>1, EventFacts DEF EventRecord
    <3>2. /\ WindowEvents(told, query)' = WindowEvents(told, query)
          /\ InRange(x.sid)' = InRange(x.sid)
      BY <1>2, RangeUnchanged
    <3>3. x \in Scanned' <=> /\ x.pos \in InRange(x.sid)
                             /\ \/ x.sid \notin RowSet(todo')
                                \/ todo' # << >> /\ x.sid = n /\ (cursor' = 0 \/ x.pos < cursor')
      BY <1>2, <3>2 DEF Scanned
    <3>4. x \in Scanned <=> /\ x.pos \in InRange(x.sid)
                            /\ (x.sid \notin RowSet(todo) \/ x.sid = s)
      BY <1>2 DEF Scanned
    <3>5. ~(x.pos \in InRange(x.sid) /\ todo' # << >> /\ x.sid = n
              /\ (cursor' = 0 \/ x.pos < cursor'))
      <4>. SUFFICES ASSUME x.pos \in InRange(n), todo' # << >>, x.sid = n,
                           cursor' = 0 \/ x.pos < cursor'
                    PROVE  FALSE
        OBVIOUS
      <4>1. cursor' \in InRange(n) /\ cursor' <= x.pos /\ 0 \notin InRange(n)
        BY <1>1, <1>2, <1>3, RangeFacts
      <4>2. cursor' \in Nat
        BY <1>4
      <4>. HIDE DEF n, s
      <4>. QED
        BY <3>1, <4>1, <4>2
    <3>. QED
      BY <1>3, <3>3, <3>4, <3>5
  <2>2. Scanned' \subseteq WindowEvents(told, query) /\ Scanned \subseteq WindowEvents(told, query)
    BY <1>2, RangeUnchanged DEF Scanned
  <2>. QED
    BY <2>1, <2>2
<1>6. ScanTypeOK'
  BY <1>1, <1>2, <1>3, <1>4 DEF ScanTypeOK
<1>7. HeapHoldsEarliest' /\ ListHoldsAll'
  BY <1>1, <1>2, <1>5 DEF HeapHoldsEarliest, ListHoldsAll, RowSet
<1>. QED
  BY <1>1, <1>2, <1>3, <1>4, <1>5, <1>6, <1>7 DEF ScanInv, ReturnsHeld

(* Sorting and returning preserves the invariant.                          *)
LEMMA FinishPreserves == ScanInv /\ Finish => ScanInv'
<1>. SUFFICES ASSUME ScanInv, Finish PROVE ScanInv'
  OBVIOUS
<1>1. /\ ScanTypeOK /\ VisitsOnce /\ CursorIsNext /\ HeapHoldsEarliest /\ ListHoldsAll
      /\ total = Cardinality(Scanned) /\ DecodeSound'
  BY DecodeUnchanged DEF ScanInv, Finish
<1>2. /\ todo = << >> /\ pc' = "done"
      /\ IF query.limit = 0 THEN rows' = StablySorted(all) ELSE rows' \in SortedByKey(keep)
      /\ truncated' = (query.limit # 0 /\ total > query.limit)
      /\ UNCHANGED <<trace, query, windowed, told, todo, cursor, keep, all, total>>
  BY DEF Finish
<1>3. UNCHANGED <<trace, query, windowed, told>>
  BY <1>2
<1>4. rows' \in Seq(EventRecord)
  <2>1. CASE query.limit = 0
    BY <1>1, <1>2, <2>1, StableSortFacts DEF ScanTypeOK
  <2>2. CASE query.limit # 0
    <3>1. /\ rows' \in [1..Cardinality(keep) -> keep] /\ keep \subseteq EventRecord
          /\ Cardinality(keep) \in Nat
      <4>1. keep \in SUBSET WindowEvents(told, query)
        BY <1>1, <2>2 DEF HeapHoldsEarliest, Scanned
      <4>2. Cardinality(keep) \in Nat
        BY <1>1, <4>1, WindowIsFinite, FS_Subset, FS_CardinalityType DEF ScanTypeOK
      <4>. QED
        BY <1>1, <1>2, <2>2, <4>2 DEF SortedByKey, ScanTypeOK
    <3>2. rows' \in [1..Cardinality(keep) -> EventRecord]
      BY <3>1
    <3>. QED
      BY <3>1, <3>2
  <2>. QED
    BY <2>1, <2>2
<1>5. ScanTypeOK'
  <2>1. truncated' \in BOOLEAN
    BY <1>2
  <2>. QED
    BY <1>1, <1>2, <1>4, <2>1 DEF ScanTypeOK
<1>6. Scanned' = Scanned
  <2>1. WindowEvents(told, query)' = WindowEvents(told, query)
    BY <1>3, RangeUnchanged
  <2>2. ASSUME NEW x PROVE InRange(x.sid)' = InRange(x.sid)
    BY <1>3, RangeUnchanged
  <2>. QED
    BY <1>2, <2>1, <2>2 DEF Scanned, RowSet
<1>7. CursorIsNext'
  BY <1>1, <1>2 DEF CursorIsNext
<1>8. HeapHoldsEarliest' /\ ListHoldsAll' /\ VisitsOnce'
  BY <1>1, <1>2, <1>6 DEF HeapHoldsEarliest, ListHoldsAll, RowSet, VisitsOnce
<1>9. ReturnsHeld'
  <2>1. (IF query.limit = 0 THEN rows' = StablySorted(all) ELSE rows' \in SortedByKey(keep))
          => (IF query.limit = 0 THEN rows = StablySorted(all) ELSE rows \in SortedByKey(keep))'
    BY <1>2
  <2>. QED
    BY <1>2, <2>1 DEF ReturnsHeld
<1>. QED
  BY <1>1, <1>2, <1>5, <1>6, <1>7, <1>8, <1>9 DEF ScanInv

(* A step that changes nothing preserves it.                               *)
LEMMA ScanStutters == ScanInv /\ UNCHANGED scanvars => ScanInv'
<1>. SUFFICES ASSUME ScanInv, UNCHANGED scanvars PROVE ScanInv'
  OBVIOUS
<1>. USE DEF scanvars
<1>1. DecodeSound' /\ ScanTypeOK' /\ VisitsOnce' /\ CursorIsNext'
  BY DecodeUnchanged DEF ScanInv, ScanTypeOK, VisitsOnce, CursorIsNext, InRange, Delivered, InWindow, WithinUpper
<1>2. Scanned' = Scanned
  BY DEF Scanned, WindowEvents, EventsOf, Event, RowSet,
         InRange, Delivered, InWindow, WithinUpper
<1>3. HeapHoldsEarliest' /\ ListHoldsAll'
  BY <1>2 DEF ScanInv, HeapHoldsEarliest, ListHoldsAll, RowSet
<1>4. ReturnsHeld'
  BY DEF ScanInv, ReturnsHeld
<1>. QED
  BY <1>1, <1>2, <1>3, <1>4 DEF ScanInv

(* So every step preserves it.                                             *)
LEMMA ScanSteps == ScanInv /\ [ScanNext]_scanvars => ScanInv'
BY ScanPreserves, NextSignalPreserves, FinishPreserves, ScanStutters DEF ScanNext

(* What is returned, whatever the limit: the held changes, each once, by   *)
(* ascending key, none above a scanned change left out.                    *)
LEMMA ReturnedFacts ==
  ASSUME ScanInv, pc = "done"
  PROVE  /\ Len(rows) \in Nat /\ DOMAIN rows = 1..Len(rows)
         /\ RowSet(rows) \in SUBSET Scanned
         /\ Cardinality(Scanned) \in Nat
         /\ Len(rows) = IF query.limit # 0 /\ query.limit <= Cardinality(Scanned)
                        THEN query.limit ELSE Cardinality(Scanned)
         /\ \A i, j \in 1..Len(rows) : i < j => ~KeyLess(rows[j], rows[i])
         /\ \A i, j \in 1..Len(rows) : rows[i] = rows[j] => i = j
         /\ \A x \in Scanned \ RowSet(rows), k \in RowSet(rows) : ~KeyLess(x, k)
         /\ truncated <=> Len(rows) # Cardinality(Scanned)
<1>1. /\ rows \in Seq(EventRecord) /\ all \in Seq(EventRecord) /\ query.limit \in Nat
      /\ told \in [Sid -> Seq(Int)] /\ total = Cardinality(Scanned)
      /\ HeapHoldsEarliest /\ ListHoldsAll /\ ReturnsHeld
  BY QueriesAssumption DEF ScanInv, ScanTypeOK
<1>2. Len(rows) \in Nat /\ DOMAIN rows = 1..Len(rows)
  BY <1>1
<1>3. IsFiniteSet(Scanned) /\ Cardinality(Scanned) \in Nat
  <2>1. Scanned \in SUBSET WindowEvents(told, query)
    BY DEF Scanned
  <2>. QED
    BY <1>1, <2>1, WindowIsFinite, FS_Subset, FS_CardinalityType
<1>. DEFINE n == Len(rows)
<1>4. ASSUME \A i, j \in 1..n : rows[i] = rows[j] => i = j
      PROVE  IsFiniteSet(RowSet(rows)) /\ Cardinality(RowSet(rows)) = n
  <2>1. rows \in Injection(1..n, EventRecord)
    <3>1. rows \in [1..n -> EventRecord]
      BY <1>1
    <3>. QED
      BY <1>4, <3>1, Fun_IsInj
  <2>2. RowSet(rows) = FirstOf(rows, n)
    BY <1>2 DEF RowSet, FirstOf
  <2>3. n \in Nat /\ n \in 0..n
    BY <1>2
  <2>. HIDE DEF n
  <2>. QED
    BY <2>1, <2>2, <2>3, RangeSize
<1>5. CASE query.limit = 0
  <2>1. rows = StablySorted(all) /\ RowSet(all) = Scanned
        /\ \A i, j \in DOMAIN all : all[i] = all[j] => i = j
    BY <1>1, <1>5 DEF ReturnsHeld, ListHoldsAll
  <2>2. /\ RowSet(rows) = Scanned
        /\ \A i, j \in 1..n : i < j => ~KeyLess(rows[j], rows[i])
        /\ \A i, j \in 1..n : rows[i] = rows[j] => i = j
    BY <1>1, <1>2, <2>1, StableSortFacts
  <2>3. n = Cardinality(Scanned)
    BY <1>4, <2>2
  <2>. QED
    BY <1>1, <1>2, <1>3, <1>5, <2>2, <2>3 DEF ReturnsHeld
<1>6. CASE query.limit # 0
  <2>1. /\ rows \in SortedByKey(keep) /\ keep \in SUBSET Scanned
        /\ Cardinality(keep) = IF total < query.limit THEN total ELSE query.limit
        /\ \A k \in keep, e \in Scanned \ keep : ~KeyLess(e, k)
    BY <1>1, <1>6 DEF ReturnsHeld, HeapHoldsEarliest
  <2>2. /\ rows \in [1..Cardinality(keep) -> keep] /\ RowSet(rows) = keep
        /\ \A i, j \in DOMAIN rows : i < j => ~KeyLess(rows[j], rows[i])
    BY <2>1 DEF SortedByKey
  <2>3. IsFiniteSet(keep) /\ Cardinality(keep) \in Nat
    BY <1>3, <2>1, FS_Subset, FS_CardinalityType
  <2>4. n = Cardinality(keep)
    BY <1>2, <2>2, <2>3
  <2>5. \A i, j \in 1..n : rows[i] = rows[j] => i = j
    <3>1. rows \in [1..n -> keep] /\ \A k \in keep : \E i \in 1..n : rows[i] = k
      BY <1>2, <2>2, <2>4 DEF RowSet
    <3>2. rows \in Surjection(1..n, keep)
      BY <3>1, Fun_IsSurj
    <3>3. IsFiniteSet(1..n) /\ Cardinality(1..n) = n
      <4>1. n \in Nat
        BY <1>2
      <4>. HIDE DEF n
      <4>. QED
        BY <4>1, FS_Interval
    <3>4. rows \in Injection(1..n, keep)
      BY <2>4, <3>2, <3>3, FS_Surjection
    <3>. QED
      BY <3>4, Fun_InjectionProperties
  <2>6. \A x \in Scanned \ RowSet(rows), k \in RowSet(rows) : ~KeyLess(x, k)
    BY <2>1, <2>2
  <2>7. n = IF query.limit <= Cardinality(Scanned) THEN query.limit ELSE Cardinality(Scanned)
    BY <1>1, <1>3, <2>1, <2>4
  <2>8. truncated = (total > query.limit)
    BY <1>1, <1>6 DEF ReturnsHeld
  <2>9. truncated <=> n # Cardinality(Scanned)
    <3>1. (total > query.limit) <=> n # Cardinality(Scanned)
      BY <1>1, <1>3, <2>7
    <3>. QED
      BY <2>8, <3>1, Zenon
  <2>. QED
    BY <1>2, <1>3, <1>6, <2>1, <2>2, <2>5, <2>6, <2>7, <2>9
<1>. QED
  BY <1>5, <1>6

(* All of the window is scanned in the end, by a backend that decodes      *)
(* whole histories, and by any where no signal changes twice in a tick.    *)
LEMMA AllScanned ==
  ASSUME ScanInv, pc = "done", NoTies \/ ~windowed
  PROVE  Scanned = WindowEvents(told, query)
<1>1. /\ todo = << >> /\ told \in [Sid -> Seq(Int)] /\ query \in Queries
  BY DEF ScanInv, ReturnsHeld, ScanTypeOK
<1>2. Scanned \subseteq WindowEvents(told, query)
  BY DEF Scanned
<1>3. ASSUME NEW e \in WindowEvents(told, query) PROVE e \in Scanned
  <2>1. /\ e.sid \in Sid /\ e.pos \in DOMAIN told[e.sid] /\ e.pos \in Nat
        /\ e.tick = told[e.sid][e.pos] /\ InWindow(e.tick, query)
        /\ e.tick \in Int /\ query.t0 \in Int
    BY <1>1, EventFacts, QueriesAssumption DEF EventRecord
  <2>2. e.pos \in Delivered(e.sid)
    <3>1. CASE ~windowed
      BY <2>1, <3>1 DEF Delivered
    <3>2. CASE NoTies
      <4>1. ASSUME NEW r \in DOMAIN told[e.sid], r > e.pos
            PROVE  ~(told[e.sid][r] <= query.t0)
        <5>1. told[e.sid] \in Seq(Int)
          BY <1>1, <2>1
        <5>2. told[e.sid][r] \in Int /\ r \in Nat
          BY <5>1
        <5>3. told[e.sid][e.pos] < told[e.sid][r]
          BY <2>1, <3>2, <4>1, ToldRises DEF ScanInv
        <5>4. query.t0 <= e.tick
          BY <2>1 DEF InWindow
        <5>. QED
          BY <2>1, <5>2, <5>3, <5>4
      <4>. QED
        BY <2>1, <4>1 DEF Delivered, InWindow
    <3>. QED
      BY <3>1, <3>2
  <2>3. e.pos \in InRange(e.sid)
    BY <2>1, <2>2 DEF InRange
  <2>4. e.sid \notin RowSet(todo)
    BY <1>1 DEF RowSet
  <2>. QED
    BY <2>3, <2>4 DEF Scanned
<1>. QED
  BY <1>2, <1>3

(* The returned rows are the answer the eager path gives where no signal   *)
(* changes twice within a tick.                                            *)
LEMMA DoneWithoutTies == ScanInv => SameRowsWithoutTies
<1>. SUFFICES ASSUME ScanInv, NoTies, pc = "done"
              PROVE  IsAnswer(told, query, rows, truncated)
  BY DEF SameRowsWithoutTies
<1>. DEFINE W == WindowEvents(told, query)
            n == Len(rows)
<1>1. told \in [Sid -> Seq(Int)] /\ query.limit \in Nat /\ truncated \in BOOLEAN
  BY QueriesAssumption DEF ScanInv, ScanTypeOK
<1>2. Scanned = W
  BY AllScanned
<1>3. /\ n \in Nat /\ DOMAIN rows = 1..n /\ RowSet(rows) \in SUBSET W
      /\ Cardinality(W) \in Nat
      /\ n = IF query.limit # 0 /\ query.limit <= Cardinality(W)
             THEN query.limit ELSE Cardinality(W)
      /\ \A i, j \in 1..n : i < j => ~KeyLess(rows[j], rows[i])
      /\ \A i, j \in 1..n : rows[i] = rows[j] => i = j
      /\ \A x \in W \ RowSet(rows), k \in RowSet(rows) : ~KeyLess(x, k)
      /\ truncated <=> n # Cardinality(W)
  BY <1>2, ReturnedFacts
<1>4. ASSUME NEW a \in W, NEW b \in W, a # b, ~KeyLess(b, a)
      PROVE  Precedes(a, b)
  <2>1. a \in EventRecord /\ b \in EventRecord
    BY <1>1, EventFacts
  <2>2. CASE KeyLess(a, b)
    BY <2>2 DEF Precedes
  <2>3. CASE KeyEqual(a, b)
    <3>1. a.sid = b.sid /\ a.tick = b.tick
      BY <1>1, <2>3, RowOrder DEF KeyEqual
    <3>2. /\ a.sid \in Sid /\ a.pos \in DOMAIN told[a.sid] /\ a.tick = told[a.sid][a.pos]
          /\ b.pos \in DOMAIN told[a.sid] /\ b.tick = told[a.sid][b.pos]
          /\ a = Event(told, a.sid, a.pos) /\ b = Event(told, b.sid, b.pos)
      BY <1>1, <2>1, <3>1, EventFacts DEF EventRecord
    <3>3. a.pos # b.pos /\ a.pos \in Nat /\ b.pos \in Nat
      BY <1>1, <1>4, <3>1, <3>2, EventFacts
    <3>4. told[a.sid] \in Seq(Int)
      BY <1>1, <3>2
    <3>5. told[a.sid][a.pos] < told[a.sid][b.pos] \/ told[a.sid][b.pos] < told[a.sid][a.pos]
      BY <3>2, <3>3, ToldRises DEF ScanInv
    <3>6. told[a.sid][a.pos] \in Int
      BY <3>2, <3>4
    <3>7. told[a.sid][a.pos] = told[a.sid][b.pos]
      BY <3>1, <3>2
    <3>. QED
      BY <3>5, <3>6, <3>7
  <2>. QED
    BY <1>4, <2>1, <2>2, <2>3, KeyOrder
<1>5. RowsInOrder(rows)
  <2>. SUFFICES ASSUME NEW i \in 1..n, NEW j \in 1..n, i < j
                PROVE  Precedes(rows[i], rows[j])
    BY <1>3 DEF RowsInOrder
  <2>1. rows[i] \in W /\ rows[j] \in W
    BY <1>3 DEF RowSet
  <2>2. rows[i] # rows[j] /\ ~KeyLess(rows[j], rows[i])
    BY <1>3
  <2>. QED
    BY <1>4, <2>1, <2>2
<1>6. \A e \in W \ RowSet(rows) : \A r \in RowSet(rows) : Precedes(r, e)
  BY <1>3, <1>4
<1>7. IsFiniteSet(RowSet(rows)) /\ Cardinality(RowSet(rows)) = n
  <2>1. rows \in [1..n -> W]
    <3>1. rows \in Seq(EventRecord) /\ \A i \in 1..n : rows[i] \in W
      BY <1>3 DEF ScanInv, ScanTypeOK, RowSet
    <3>. QED
      BY <3>1
  <2>2. rows \in Injection(1..n, W)
    BY <1>3, <2>1, Fun_IsInj
  <2>3. RowSet(rows) = FirstOf(rows, n) /\ n \in 0..n
    BY <1>3 DEF RowSet, FirstOf
  <2>. HIDE DEF n, W
  <2>. QED
    BY <1>3, <2>2, <2>3, RangeSize
<1>8. RowSet(rows) = W <=> n = Cardinality(W)
  <2>1. IsFiniteSet(W)
    BY <1>1, WindowIsFinite
  <2>. HIDE DEF n, W
  <2>. QED
    BY <1>3, <1>7, <2>1, FS_Subset
<1>9. truncated <=> RowSet(rows) # W
  BY <1>3, <1>8
<1>10. query.limit # 0 => n <= query.limit
  BY <1>1, <1>3
<1>11. truncated => query.limit # 0 /\ n = query.limit
  BY <1>1, <1>3
<1>. QED
  BY <1>3, <1>5, <1>6, <1>9, <1>10, <1>11 DEF IsAnswer

(* Against the whole histories, a decode differs at its left edge only.    *)
LEMMA DoneAtEdge == ScanInv => DiffersAtEdgeOnly
<1>. SUFFICES ASSUME ScanInv, NoTies, pc = "done"
              PROVE  LET eager == WindowEvents(trace, query)
                         shown == RowSet(rows)
                     IN  /\ \A e \in shown \ eager :
                              /\ windowed /\ e.tick = query.t0
                              /\ e.pos \in Seed(trace[e.sid]) /\ trace[e.sid][e.pos] < query.t0
                         /\ \A e \in eager \ shown :
                              \/ windowed /\ e.tick = query.t0 /\ e.pos = 1
                              \/ truncated /\ \A r \in shown : Precedes(r, e)
  BY DEF DiffersAtEdgeOnly
<1>. DEFINE eager == WindowEvents(trace, query)
            W == WindowEvents(told, query)
            shown == RowSet(rows)
<1>1. /\ ScanTypeOK /\ DecodeSound /\ query.t0 \in Int
      /\ trace \in [Sid -> Seq(Int)] /\ told \in [Sid -> Seq(Int)]
  BY TracesAssumption, QueriesAssumption DEF ScanInv, ScanTypeOK
<1>2. /\ shown \subseteq W
      /\ \A e \in W \ shown : \A r \in shown : Precedes(r, e)
      /\ truncated <=> shown # W
  BY DoneWithoutTies DEF SameRowsWithoutTies, IsAnswer
<1>3. ASSUME NEW s \in Sid, NEW p \in DOMAIN trace[s]
      PROVE  /\ p \in DOMAIN told[s] /\ trace[s][p] \in Int
             /\ \/ told[s][p] = trace[s][p]
                \/ /\ windowed /\ p \in Seed(trace[s])
                   /\ \/ trace[s][p] < query.t0 /\ told[s][p] = query.t0
                      \/ trace[s][p] = query.t0 /\ p = 1
  <2>1. /\ trace[s] \in Seq(Int) /\ DOMAIN told[s] = DOMAIN trace[s]
        /\ \/ told[s][p] = trace[s][p]
           \/ windowed /\ p \in Seed(trace[s]) /\ told[s][p] \in Restamped(trace[s], p)
    BY <1>1, ToldFacts
  <2>2. trace[s][p] \in Int
    BY <2>1
  <2>3. p \in Seed(trace[s]) => trace[s][p] <= query.t0
    BY DEF Seed
  <2>. QED
    BY <1>1, <2>1, <2>2, <2>3 DEF Restamped
<1>4. ASSUME NEW e \in W, e \notin eager
      PROVE  /\ windowed /\ e.tick = query.t0
             /\ e.pos \in Seed(trace[e.sid]) /\ trace[e.sid][e.pos] < query.t0
  <2>1. /\ e.sid \in Sid /\ e.pos \in DOMAIN told[e.sid] /\ e.tick = told[e.sid][e.pos]
        /\ e = Event(told, e.sid, e.pos) /\ InWindow(e.tick, query)
    BY <1>1, EventFacts DEF EventRecord
  <2>2. e.pos \in DOMAIN trace[e.sid]
    BY <1>1, <2>1, ToldFacts
  <2>3. told[e.sid][e.pos] # trace[e.sid][e.pos]
    <3>. SUFFICES ASSUME told[e.sid][e.pos] = trace[e.sid][e.pos] PROVE e \in eager
      BY <1>4
    <3>. QED
      BY <2>1, <2>2 DEF WindowEvents, EventsOf, Event
  <2>4. ~(trace[e.sid][e.pos] = query.t0 /\ told[e.sid][e.pos] # trace[e.sid][e.pos])
    <3>. SUFFICES ASSUME trace[e.sid][e.pos] = query.t0 PROVE FALSE
      BY <2>3
    <3>1. told[e.sid][e.pos] \in Restamped(trace[e.sid], e.pos)
      BY <1>1, <2>1, <2>2, <2>3, ToldFacts
    <3>2. told[e.sid][e.pos] = query.t0 - 1
      BY <1>1, <3>1 DEF Restamped
    <3>. QED
      BY <1>1, <2>1, <3>2 DEF InWindow
  <2>. QED
    BY <1>3, <2>1, <2>2, <2>3, <2>4
<1>5. ASSUME NEW e \in eager, e \notin W
      PROVE  windowed /\ e.tick = query.t0 /\ e.pos = 1
  <2>1. PICK s \in Sid : e \in EventsOf(trace, s)
    BY <1>5 DEF WindowEvents
  <2>2. PICK p \in DOMAIN trace[s] : e = Event(trace, s, p)
    BY <2>1 DEF EventsOf
  <2>3. /\ e.sid = s /\ e.pos = p /\ e.tick = trace[s][p] /\ InWindow(trace[s][p], query)
    BY <2>2 DEF Event, WindowEvents
  <2>4. told[s][p] # trace[s][p]
    <3>. SUFFICES ASSUME told[s][p] = trace[s][p] PROVE e \in W
      BY <1>5
    <3>. QED
      BY <1>3, <2>2, <2>3 DEF WindowEvents, EventsOf, Event
  <2>. QED
    BY <1>1, <1>3, <2>3, <2>4 DEF InWindow
<1>6. ASSUME NEW e \in eager, e \notin shown
      PROVE  \/ windowed /\ e.tick = query.t0 /\ e.pos = 1
             \/ truncated /\ \A r \in shown : Precedes(r, e)
  BY <1>2, <1>5, <1>6
<1>. QED
  BY <1>2, <1>4, <1>6

(* With ties, a backend that decodes whole histories still makes the       *)
(* streaming path list the eager path's ticks and signals.                 *)
LEMMA DoneWithTies == ScanInv => SameTicksAsEager
<1>. SUFFICES ASSUME ScanInv, ~windowed, pc = "done"
              PROVE  SameTicksAsEager
  BY DEF SameTicksAsEager
<1>. DEFINE W == WindowEvents(trace, query)
            eager == InOrder(W)
            n == Len(rows)
            N == Cardinality(W)
<1>1. /\ query.limit \in Nat /\ truncated \in BOOLEAN
      /\ told = trace /\ trace \in [Sid -> Seq(Int)]
  BY QueriesAssumption, WholeDecode DEF ScanInv, ScanTypeOK
<1>2. Scanned = W
  BY <1>1, AllScanned
<1>3. /\ n \in Nat /\ DOMAIN rows = 1..n /\ RowSet(rows) \in SUBSET W
      /\ N \in Nat
      /\ n = IF query.limit # 0 /\ query.limit <= N THEN query.limit ELSE N
      /\ \A i, j \in 1..n : i < j => ~KeyLess(rows[j], rows[i])
      /\ \A i, j \in 1..n : rows[i] = rows[j] => i = j
      /\ \A x \in W \ RowSet(rows), k \in RowSet(rows) : ~KeyLess(x, k)
      /\ truncated <=> n # N
  BY <1>2, ReturnedFacts
<1>4. /\ eager \in [1..N -> W]
      /\ \A i, j \in 1..N : i < j => Precedes(eager[i], eager[j])
      /\ \A i, j \in 1..N : eager[i] = eager[j] => i = j
      /\ \A e \in W : \E i \in 1..N : eager[i] = e
  BY <1>1, InOrderFacts
<1>5. Len(eager) = N
  BY <1>3, <1>4
<1>6. rows \in [1..n -> W]
  <2>1. rows \in Seq(EventRecord) /\ \A i \in 1..n : rows[i] \in W
    BY <1>3 DEF ScanInv, ScanTypeOK, RowSet
  <2>. QED
    BY <2>1
<1>7. \A e \in W : (\A i \in 1..n : rows[i] # e) => \A i \in 1..n : ~KeyLess(e, rows[i])
  BY <1>3 DEF RowSet
<1>8. n \in 0..N
  BY <1>1, <1>3
<1>9. \A i \in 1..n : KeyEqual(rows[i], eager[i])
  <2>. DEFINE V == WindowEvents(told, query)
  <2>1. V = W /\ told \in [Sid -> Seq(Int)]
    BY <1>1
  <2>. HIDE DEF eager, n, N, W
  <2>. QED
    BY <2>1, <1>3, <1>4, <1>6, <1>7, <1>8, SamePlaces
<1>10. n = IF query.limit = 0 THEN N ELSE IF N < query.limit THEN N ELSE query.limit
  BY <1>1, <1>3
<1>. QED
  BY <1>3, <1>5, <1>9, <1>10 DEF SameTicksAsEager

-----------------------------------------------------------------------------

(* The scan's invariant: what is scanned is counted exactly, and the list  *)
(* or the heap of collect_events_bounded holds the right part of it.       *)
THEOREM ScanInvariant == ScanSpec => []ScanInv
<1>1. ScanInit => ScanInv
  BY ScanStarts
<1>2. ScanInv /\ [ScanNext]_scanvars => ScanInv'
  BY ScanSteps
<1>. QED
  BY <1>1, <1>2, PTL DEF ScanSpec

(* Whatever the selection, the traces, the visiting order and the limit,   *)
(* the heap of collect_events_bounded holds the earliest changes scanned,  *)
(* and the rows returned are those of the eager path: the same where no    *)
(* signal changes twice within a tick, but for what a windowed decode      *)
(* restamps at its left edge, and with the same ticks and signals in the   *)
(* same places wherever the backend decodes whole histories.               *)
THEOREM StreamingMatchesEager == ScanSpec => []StreamsAsEager
<1>1. ScanInv => StreamsAsEager
  BY DoneWithoutTies, DoneAtEdge, DoneWithTies DEF StreamsAsEager, ScanInv
<1>. QED
  BY <1>1, ScanInvariant, PTL

-----------------------------------------------------------------------------

(***************************************************************************)
(* The eager path: Wave::for_each_event under dump's callback.             *)
(***************************************************************************)

Replayed == UNION {EventsOf(trace, s) : s \in Sid}

(* What is known of a change: it has its signal's declaration order and    *)
(* sits at a position of that signal's trace.                              *)
LEMMA EntryFacts ==
  ASSUME trace \in [Sid -> Traces], NEW e \in Replayed
  PROVE  /\ e \in EventRecord
         /\ e.pos \in 1..Len(trace[e.sid])
         /\ e.tick = trace[e.sid][e.pos]
         /\ e.decl = DeclOrder[e.sid]
         /\ e = Event(trace, e.sid, e.pos)
<1>1. PICK s \in Sid : e \in EventsOf(trace, s)
  BY DEF Replayed
<1>2. trace[s] \in Seq(Int)
  BY TracesAssumption
<1>3. PICK p \in 1..Len(trace[s]) : e = Event(trace, s, p)
  BY <1>1, <1>2 DEF EventsOf
<1>4. trace[s][p] \in Int /\ DeclOrder[s] \in Nat
  BY <1>2, SidAssumption
<1>. QED
  BY <1>2, <1>3, <1>4 DEF Event, EventRecord

(* A position of a trace makes an event, and its parts are what they say.  *)
LEMMA EntryAt ==
  ASSUME trace \in [Sid -> Traces],
         NEW s \in Sid, NEW p \in 1..Len(trace[s])
  PROVE  /\ Event(trace, s, p) \in Replayed
         /\ Event(trace, s, p).sid = s
         /\ Event(trace, s, p).pos = p
<1>1. trace[s] \in Seq(Int)
  BY TracesAssumption
<1>. QED
  BY <1>1 DEF Event, EventsOf, Replayed

(* The order of the rows is a strict one.                                  *)
LEMMA PrecedesStrict ==
  ASSUME NEW a \in EventRecord, NEW b \in EventRecord, NEW c \in EventRecord
  PROVE  /\ ~Precedes(a, a)
         /\ Precedes(a, b) => ~Precedes(b, a)
         /\ Precedes(a, b) /\ Precedes(b, c) => Precedes(a, c)
         /\ Precedes(a, b) => a.tick <= b.tick
BY DEF Precedes, KeyLess, KeyEqual, EventRecord

(* Within a signal, the order of the rows is the order of the positions.   *)
LEMMA SameSignalOrder ==
  ASSUME trace \in [Sid -> Traces],
         NEW a \in Replayed, NEW b \in Replayed, a.sid = b.sid
  PROVE  /\ a.pos < b.pos => Precedes(a, b)
         /\ a.pos = b.pos => a = b
<1>1. /\ a \in EventRecord /\ b \in EventRecord
      /\ a.pos \in 1..Len(trace[a.sid]) /\ a.tick = trace[a.sid][a.pos]
      /\ b.pos \in 1..Len(trace[a.sid]) /\ b.tick = trace[a.sid][b.pos]
      /\ a.decl = b.decl
      /\ a = Event(trace, a.sid, a.pos) /\ b = Event(trace, b.sid, b.pos)
  BY EntryFacts
<1>2. /\ trace[a.sid] \in Seq(Int)
      /\ NonDecreasing(trace[a.sid])
  BY <1>1, TracesAssumption DEF EventRecord, NonDecreasing, NonDecreasing
<1>3. a.pos < b.pos => a.tick <= b.tick
  BY <1>1, <1>2 DEF NonDecreasing
<1>4. a.tick \in Int /\ b.tick \in Int
  BY <1>1 DEF EventRecord
<1>. QED
  BY <1>1, <1>3, <1>4 DEF Precedes, KeyLess, KeyEqual

(* The entry popped precedes every other change still to come.             *)
LEMMA PoppedIsFirst ==
  ASSUME trace \in [Sid -> Traces], heap \subseteq Replayed, OneEntryPerSignal,
         NEW e \in heap, Earliest(e),
         NEW x \in Replayed, Pending(x), x # e
  PROVE  Precedes(e, x)
<1>1. PICK h \in heap : h.sid = x.sid /\ h.pos <= x.pos
  BY DEF Pending
<1>2. e \in EventRecord /\ h \in EventRecord /\ x \in EventRecord
  BY EntryFacts
<1>3. h = x \/ Precedes(h, x)
  BY <1>1, <1>2, SameSignalOrder DEF EventRecord
<1>4. h = e \/ Precedes(e, h)
  <2>1. CASE h.sid = e.sid
    BY <2>1 DEF OneEntryPerSignal
  <2>2. CASE h.sid # e.sid
    <3>1. h.decl # e.decl
      BY <1>2, <2>2, EntryFacts, SidAssumption DEF EventRecord
    <3>2. ~KeyLess(h, e)
      BY DEF Earliest
    <3>. QED
      BY <1>2, <3>1, <3>2 DEF Precedes, KeyLess, EventRecord
  <2>. QED
    BY <2>1, <2>2
<1>. QED
  BY <1>2, <1>3, <1>4, PrecedesStrict

(* A pop removes exactly the popped change from what is still to come.     *)
LEMMA PopAdvances ==
  ASSUME trace \in [Sid -> Traces], heap \subseteq Replayed, OneEntryPerSignal,
         NEW e \in heap, heap' = (heap \ {e}) \cup Successor(e)
  PROVE  /\ heap' \subseteq Replayed
         /\ OneEntryPerSignal'
         /\ \A x \in Replayed : Pending(x)' <=> Pending(x) /\ x # e
<1>. DEFINE n == Event(trace, e.sid, e.pos + 1)
<1>1. e \in EventRecord /\ e.pos \in 1..Len(trace[e.sid]) /\ e.sid \in Sid
  BY EntryFacts DEF EventRecord
<1>2. trace[e.sid] \in Seq(Int)
  BY <1>1, TracesAssumption
<1>3. e.pos + 1 <= Len(trace[e.sid]) =>
        /\ Successor(e) = {n}
        /\ n \in Replayed /\ n.sid = e.sid /\ n.pos = e.pos + 1
  BY <1>1, <1>2, EntryAt DEF Successor
<1>4. ~(e.pos + 1 <= Len(trace[e.sid])) => Successor(e) = {}
  BY DEF Successor
<1>5. heap' \subseteq Replayed
  BY <1>3, <1>4
<1>6. OneEntryPerSignal'
  <2>1. \A g \in heap : g.sid = e.sid => g = e
    BY DEF OneEntryPerSignal
  <2>2. \A g, h \in heap' : g.sid = h.sid => g = h
    BY <1>3, <1>4, <2>1 DEF OneEntryPerSignal
  <2>. QED
    BY <2>2 DEF OneEntryPerSignal
<1>7. ASSUME NEW x \in Replayed
      PROVE  Pending(x)' <=> Pending(x) /\ x # e
  <2>1. x \in EventRecord /\ x.pos \in 1..Len(trace[x.sid])
    BY EntryFacts
  <2>2. Pending(x)' <=> \E h \in heap' : h.sid = x.sid /\ h.pos <= x.pos
    BY DEF Pending
  <2>3. CASE x.sid # e.sid
    BY <1>3, <1>4, <2>2, <2>3 DEF Pending
  <2>4. CASE x.sid = e.sid
    <3>1. Pending(x) <=> e.pos <= x.pos
      BY <2>4 DEF Pending, OneEntryPerSignal
    <3>2. Pending(x)' <=> e.pos + 1 <= x.pos
      <4>1. CASE e.pos + 1 <= Len(trace[e.sid])
        BY <1>3, <2>2, <2>4, <4>1 DEF OneEntryPerSignal
      <4>2. CASE ~(e.pos + 1 <= Len(trace[e.sid]))
        BY <1>1, <1>2, <1>4, <2>1, <2>2, <2>4, <4>2 DEF OneEntryPerSignal
      <4>. QED
        BY <4>1, <4>2
    <3>3. x = e <=> x.pos = e.pos
      BY <2>4, SameSignalOrder
    <3>. QED
      BY <1>1, <2>1, <3>1, <3>2, <3>3 DEF EventRecord
  <2>. QED
    BY <2>3, <2>4
<1>. QED
  BY <1>5, <1>6, <1>7

-----------------------------------------------------------------------------

(* Appending a row that comes after every row keeps the rows in order.     *)
LEMMA RowSetAppend ==
  ASSUME rows \in Seq(EventRecord), NEW e \in EventRecord
  PROVE  /\ RowSet(Append(rows, e)) = RowSet(rows) \cup {e}
         /\ Append(rows, e) \in Seq(EventRecord)
         /\ Len(Append(rows, e)) = Len(rows) + 1
         /\ RowsInOrder(rows) /\ (\A r \in RowSet(rows) : Precedes(r, e))
              => RowsInOrder(Append(rows, e))
<1>. DEFINE s == Append(rows, e)
<1>1. /\ s \in Seq(EventRecord)
      /\ Len(s) = Len(rows) + 1
      /\ \A i \in 1..Len(rows) : s[i] = rows[i]
      /\ s[Len(rows) + 1] = e
  OBVIOUS
<1>2. DOMAIN s = 1..(Len(rows) + 1) /\ DOMAIN rows = 1..Len(rows)
  BY <1>1
<1>3. RowSet(s) = RowSet(rows) \cup {e}
  <2>1. ASSUME NEW x \in RowSet(s)  PROVE x \in RowSet(rows) \cup {e}
    BY <1>1, <1>2 DEF RowSet
  <2>2. ASSUME NEW x \in RowSet(rows) \cup {e}  PROVE x \in RowSet(s)
    <3>1. CASE x = e
      BY <1>1, <1>2, <3>1 DEF RowSet
    <3>2. CASE x \in RowSet(rows)
      <4>1. PICK i \in 1..Len(rows) : x = rows[i]
        BY <1>2, <3>2 DEF RowSet
      <4>. QED
        BY <1>1, <1>2, <4>1 DEF RowSet
    <3>. QED
      BY <2>2, <3>1, <3>2
  <2>. QED
    BY <2>1, <2>2
<1>4. ASSUME RowsInOrder(rows), \A r \in RowSet(rows) : Precedes(r, e),
             NEW i \in DOMAIN s, NEW j \in DOMAIN s, i < j
      PROVE  Precedes(s[i], s[j])
  <2>1. i \in 1..Len(rows)
    BY <1>2, <1>4
  <2>2. CASE j = Len(rows) + 1
    BY <1>1, <1>2, <1>4, <2>1, <2>2 DEF RowSet
  <2>3. CASE j # Len(rows) + 1
    BY <1>1, <1>2, <1>4, <2>1, <2>3 DEF RowsInOrder
  <2>. QED
    BY <2>2, <2>3
<1>. QED
  BY <1>1, <1>3, <1>4 DEF RowsInOrder

(* The seeded heap holds the first change in the window of each signal.    *)
LEMMA ReplayStarts == Init => IInv
<1>. SUFFICES ASSUME Init  PROVE IInv
  OBVIOUS
<1>. USE DEF Init
<1>1. ASSUME NEW s \in Sid, trace[s] # << >>
      PROVE  1 \in 1..Len(trace[s])
  BY <1>1, TracesAssumption
<1>2. ASSUME NEW h \in heap
      PROVE  h \in Replayed /\ h.pos = 1 /\ h.sid \in Sid /\ h = Event(trace, h.sid, 1)
  BY <1>1, EntryAt DEF Seeds
<1>3. TypeOK
  <2>1. heap \subseteq Replayed
    BY <1>2
  <2>2. rows \in Seq(EventRecord)
    OBVIOUS
  <2>. QED
    BY <2>1, <2>2 DEF TypeOK, Replayed
<1>4. RowSet(rows) = {} /\ Len(rows) = 0 /\ RowsInOrder(rows)
  BY DEF RowSet, RowsInOrder
<1>5. OneEntryPerSignal
  BY <1>2 DEF OneEntryPerSignal
<1>6. ASSUME NEW x \in Replayed  PROVE Pending(x)
  <2>1. x.sid \in Sid /\ x.pos \in 1..Len(trace[x.sid]) /\ x.pos \in Nat \ {0}
    BY EntryFacts DEF EventRecord
  <2>2. trace[x.sid] # << >>
    BY <2>1
  <2>3. Event(trace, x.sid, 1) \in heap
    BY <2>1, <2>2 DEF Seeds
  <2>4. Event(trace, x.sid, 1).sid = x.sid /\ Event(trace, x.sid, 1).pos = 1
    BY DEF Event
  <2>. QED
    BY <2>1, <2>3, <2>4 DEF Pending
<1>7. TurnedAwayIsLater
  BY <1>6 DEF TurnedAwayIsLater, WindowEvents, Replayed
<1>. QED
  BY <1>3, <1>4, <1>5, <1>7, QueriesAssumption
     DEF IInv, RowsBeforeHeap, FlagMeansCut

(* A pop adds the next row and replaces the entry by its successor.        *)
LEMMA ReplayPreserves == IInv /\ Replay => IInv'
<1>. SUFFICES ASSUME IInv, Replay  PROVE IInv'
  OBVIOUS
<1>1. PICK e \in heap :
        /\ Earliest(e)
        /\ WithinUpper(e.tick, query)
        /\ heap' = (heap \ {e}) \cup Successor(e)
        /\ IF query.t0 <= e.tick THEN Row(e) ELSE UNCHANGED <<rows, truncated>>
  BY DEF Replay
<1>2. /\ pc = "replay" /\ pc' = pc /\ trace' = trace /\ query' = query
      /\ trace \in [Sid -> Traces] /\ query \in Queries /\ heap \subseteq Replayed
      /\ rows \in Seq(EventRecord) /\ truncated \in BOOLEAN
      /\ OneEntryPerSignal
  BY DEF Replay, IInv, TypeOK, Replayed
<1>3. e \in Replayed /\ e \in EventRecord
  BY <1>2, EntryFacts
<1>4. Replayed' = Replayed /\ WindowEvents(trace, query)' = WindowEvents(trace, query)
  BY <1>2 DEF Replayed
<1>5. /\ heap' \subseteq Replayed
      /\ OneEntryPerSignal'
      /\ \A x \in Replayed : Pending(x)' <=> Pending(x) /\ x # e
  BY <1>1, <1>2, PopAdvances
<1>6. Pending(e)
  BY <1>3 DEF Pending, EventRecord
<1>7. ASSUME NEW h \in heap'  PROVE Precedes(e, h) /\ h \in EventRecord
  <2>1. h \in Replayed /\ h \in EventRecord
    BY <1>2, <1>5, EntryFacts
  <2>2. Pending(h)'
    BY <2>1, <1>7 DEF Pending, EventRecord
  <2>3. Pending(h) /\ h # e
    BY <1>5, <2>1, <2>2
  <2>. QED
    BY <1>1, <1>2, <2>1, <2>3, PoppedIsFirst
<1>8. WindowEvents(trace, query) = {x \in Replayed : InWindow(x.tick, query)}
  BY DEF WindowEvents, Replayed
<1>9. \A r \in RowSet(rows) : r \in EventRecord /\ Precedes(r, e)
  BY <1>1, <1>2 DEF IInv, RowsBeforeHeap, RowSet
<1>10. CASE query.t0 <= e.tick /\ ~truncated /\ (query.limit = 0 \/ Len(rows) < query.limit)
  <2>1. rows' = Append(rows, e) /\ truncated' = truncated
    BY <1>1, <1>10 DEF Row
  <2>2. /\ RowSet(rows)' = RowSet(rows) \cup {e}
        /\ rows' \in Seq(EventRecord)
        /\ Len(rows') = Len(rows) + 1
        /\ RowsInOrder(rows)'
    BY <1>2, <1>3, <1>9, <2>1, RowSetAppend DEF IInv
  <2>3. TypeOK'
    BY <1>2, <1>4, <1>5, <2>1, <2>2 DEF TypeOK, Replayed
  <2>4. (RowSet(rows) \subseteq WindowEvents(trace, query))'
    BY <1>1, <1>3, <1>4, <1>8, <1>10, <2>2 DEF IInv, InWindow
  <2>5. RowsBeforeHeap'
    <3>. SUFFICES ASSUME NEW r \in RowSet(rows)', NEW h \in heap'
                  PROVE  Precedes(r, h)
      BY DEF RowsBeforeHeap
    <3>. QED
      BY <1>3, <1>7, <1>9, <2>2, PrecedesStrict
  <2>6. TurnedAwayIsLater'
    <3>. SUFFICES ASSUME NEW x \in WindowEvents(trace, query)
                  PROVE  Pending(x)' \/ x \in RowSet(rows)'
      BY <1>4 DEF TurnedAwayIsLater
    <3>1. Pending(x) \/ x \in RowSet(rows)
      BY <1>10 DEF IInv, TurnedAwayIsLater
    <3>. QED
      BY <1>5, <1>8, <2>2, <3>1
  <2>7. FlagMeansCut'
    BY <1>10, <2>1 DEF FlagMeansCut
  <2>8. query.limit # 0 => Len(rows') <= query.limit
    BY <1>2, <1>10, <2>2, QueriesAssumption
  <2>. QED
    BY <1>2, <1>5, <2>2, <2>3, <2>4, <2>5, <2>6, <2>7, <2>8 DEF IInv
<1>11. CASE /\ query.t0 <= e.tick
            /\ ~(~truncated /\ (query.limit = 0 \/ Len(rows) < query.limit))
  <2>1. rows' = rows /\ truncated' = TRUE
    BY <1>1, <1>11 DEF Row
  <2>2. e \in WindowEvents(trace, query)
    BY <1>1, <1>3, <1>8, <1>11 DEF InWindow
  <2>3. e \notin RowSet(rows)
    BY <1>3, <1>9, PrecedesStrict
  <2>4. query.limit # 0 /\ Len(rows) = query.limit
    BY <1>2, <1>11, QueriesAssumption DEF IInv, FlagMeansCut
  <2>5. RowsBeforeHeap'
    BY <1>3, <1>7, <1>9, <2>1, PrecedesStrict DEF RowsBeforeHeap
  <2>6. TurnedAwayIsLater'
    <3>. SUFFICES ASSUME NEW x \in WindowEvents(trace, query)
                  PROVE  \/ Pending(x)' \/ x \in RowSet(rows)
                         \/ \A r \in RowSet(rows) : Precedes(r, x)
      BY <1>4, <2>1 DEF TurnedAwayIsLater
    <3>1. CASE x = e
      BY <1>9, <3>1
    <3>2. CASE x # e
      BY <1>5, <1>8, <3>2 DEF IInv, TurnedAwayIsLater
    <3>. QED
      BY <3>1, <3>2
  <2>7. FlagMeansCut'
    <3>1. ~Pending(e)'
      BY <1>3, <1>5
    <3>. QED
      BY <1>4, <2>1, <2>2, <2>3, <2>4, <3>1, <1>2 DEF FlagMeansCut
  <2>8. TypeOK'
    BY <1>2, <1>4, <1>5, <2>1 DEF TypeOK, Replayed
  <2>. QED
    BY <1>2, <1>4, <1>5, <2>1, <2>4, <2>5, <2>6, <2>7, <2>8, QueriesAssumption DEF IInv
<1>12. CASE ~(query.t0 <= e.tick)
  <2>1. rows' = rows /\ truncated' = truncated
    BY <1>1, <1>12
  <2>2. e \notin WindowEvents(trace, query)
    BY <1>8, <1>12 DEF InWindow
  <2>3. RowsBeforeHeap'
    BY <1>3, <1>7, <1>9, <2>1, PrecedesStrict DEF RowsBeforeHeap
  <2>4. TurnedAwayIsLater'
    <3>. SUFFICES ASSUME NEW x \in WindowEvents(trace, query)
                  PROVE  \/ Pending(x)' \/ x \in RowSet(rows)
                         \/ truncated /\ \A r \in RowSet(rows) : Precedes(r, x)
      BY <1>4, <2>1 DEF TurnedAwayIsLater
    <3>. QED
      BY <1>5, <1>8, <2>2 DEF IInv, TurnedAwayIsLater
  <2>5. FlagMeansCut'
    BY <1>2, <1>4, <1>5, <1>8, <2>1 DEF IInv, FlagMeansCut
  <2>6. TypeOK'
    BY <1>2, <1>4, <1>5, <2>1 DEF TypeOK, Replayed
  <2>. QED
    BY <1>2, <1>4, <1>5, <2>1, <2>3, <2>4, <2>5, <2>6 DEF IInv
<1>. QED
  BY <1>10, <1>11, <1>12

(* A popped change past the window's end drops out without a row.          *)
LEMMA PassUpperBoundPreserves == IInv /\ PassUpperBound => IInv'
<1>. SUFFICES ASSUME IInv, PassUpperBound  PROVE IInv'
  OBVIOUS
<1>1. PICK e \in heap :
        Earliest(e) /\ ~WithinUpper(e.tick, query) /\ heap' = heap \ {e}
  BY DEF PassUpperBound
<1>2. /\ pc' = "done" /\ trace' = trace /\ query' = query
      /\ rows' = rows /\ truncated' = truncated
      /\ trace \in [Sid -> Traces] /\ query \in Queries /\ heap \subseteq Replayed
      /\ OneEntryPerSignal
  BY DEF PassUpperBound, IInv, TypeOK, Replayed
<1>3. ASSUME NEW x \in Replayed, Pending(x)  PROVE ~WithinUpper(x.tick, query)
  <2>1. e \in EventRecord /\ x \in EventRecord
    BY <1>2, EntryFacts
  <2>2. e.tick <= x.tick
    BY <1>1, <1>2, <1>3, <2>1, PoppedIsFirst, PrecedesStrict DEF EventRecord
  <2>. QED
    BY <1>1, <1>2, <2>1, <2>2, QueriesAssumption DEF WithinUpper, EventRecord
<1>4. \A x \in WindowEvents(trace, query) : x \in Replayed /\ ~Pending(x)
  BY <1>3 DEF WindowEvents, InWindow, Replayed
<1>5. \A h \in heap' : ~WithinUpper(h.tick, query)
  <2>. SUFFICES ASSUME NEW h \in heap  PROVE ~WithinUpper(h.tick, query)
    BY <1>1
  <2>1. h.pos <= h.pos
    BY <1>2, EntryFacts DEF EventRecord
  <2>. QED
    BY <1>2, <1>3, <2>1 DEF Pending
<1>6. \A x : Pending(x)' => Pending(x)
  BY <1>1 DEF Pending
<1>7. TypeOK'
  BY <1>1, <1>2 DEF IInv, TypeOK
<1>8. OneEntryPerSignal' /\ RowsBeforeHeap'
  BY <1>1, <1>2 DEF IInv, OneEntryPerSignal, RowsBeforeHeap
<1>9. TurnedAwayIsLater'
  BY <1>2, <1>4 DEF IInv, TurnedAwayIsLater
<1>10. FlagMeansCut'
  BY <1>2, <1>6 DEF IInv, FlagMeansCut
<1>. QED
  BY <1>2, <1>5, <1>7, <1>8, <1>9, <1>10 DEF IInv

(* An empty heap ends the replay with nothing left to come.                *)
LEMMA ExhaustPreserves == IInv /\ Exhaust => IInv'
BY DEF IInv, Exhaust, TypeOK, OneEntryPerSignal, RowsBeforeHeap,
       TurnedAwayIsLater, FlagMeansCut, Pending

(* IInv is inductive.                                                      *)
LEMMA ReplaySteps == IInv /\ [Next]_vars => IInv'
<1>. SUFFICES ASSUME IInv, [Next]_vars  PROVE IInv'
  OBVIOUS
<1>1. CASE Replay
  BY <1>1, ReplayPreserves
<1>2. CASE PassUpperBound
  BY <1>2, PassUpperBoundPreserves
<1>3. CASE Exhaust
  BY <1>3, ExhaustPreserves
<1>4. CASE UNCHANGED vars
  BY <1>4 DEF vars, IInv, TypeOK, OneEntryPerSignal, RowsBeforeHeap,
              TurnedAwayIsLater, FlagMeansCut, Pending
<1>. QED
  BY <1>1, <1>2, <1>3, <1>4 DEF Next

(* What IInv says once the loop is left: nothing of the window is still to *)
(* come, so every change is listed or comes after a full list.             *)
LEMMA DoneIsAnswer == IInv => AnswerIsRight
<1>. SUFFICES ASSUME IInv, pc = "done"
              PROVE  IsAnswer(trace, query, rows, truncated)
  BY DEF AnswerIsRight
<1>1. /\ trace \in [Sid -> Traces] /\ query \in Queries /\ heap \subseteq Replayed
      /\ truncated \in BOOLEAN
  BY DEF IInv, TypeOK, Replayed
<1>2. ASSUME NEW x \in WindowEvents(trace, query)  PROVE ~Pending(x)
  <2>. SUFFICES ASSUME NEW h \in heap, h.sid = x.sid, h.pos <= x.pos  PROVE FALSE
    BY DEF Pending
  <2>1. x \in Replayed /\ WithinUpper(x.tick, query)
    BY DEF WindowEvents, Replayed, InWindow
  <2>2. h \in EventRecord /\ x \in EventRecord
    BY <1>1, <2>1, EntryFacts
  <2>3. h.tick <= x.tick
    BY <1>1, <2>1, <2>2, SameSignalOrder, PrecedesStrict DEF EventRecord
  <2>4. ~WithinUpper(h.tick, query)
    BY DEF IInv
  <2>. QED
    BY <1>1, <2>1, <2>2, <2>3, <2>4, QueriesAssumption DEF WithinUpper, EventRecord
<1>3. \A x \in WindowEvents(trace, query) \ RowSet(rows) :
        truncated /\ \A r \in RowSet(rows) : Precedes(r, x)
  BY <1>2 DEF IInv, TurnedAwayIsLater
<1>4. truncated <=> RowSet(rows) # WindowEvents(trace, query)
  BY <1>1, <1>3 DEF IInv, FlagMeansCut
<1>. QED
  BY <1>3, <1>4 DEF IInv, IsAnswer, FlagMeansCut

-----------------------------------------------------------------------------

(* The heap, the rows and the flag keep their types on every replay.       *)
THEOREM TypeCorrect == Spec => []TypeOK
<1>1. IInv => TypeOK
  BY DEF IInv
<1>. QED
  BY <1>1, ReplayStarts, ReplaySteps, PTL DEF Spec

(* The strengthened invariant of the replay holds throughout.              *)
THEOREM ReplayInvariant == Spec => []IInv
  BY ReplayStarts, ReplaySteps, PTL DEF Spec

(* dump's eager path returns the earliest changes of the window, in order, *)
(* cut only by --limit: for every set of signals, every trace, every       *)
(* window and every limit.                                                 *)
THEOREM MergeAnswers == Spec => []AnswerIsRight
  BY ReplayInvariant, DoneIsAnswer, PTL

(* DumpAnswer speaks of the same changes and the same order.               *)
LEMMA SameAnswers ==
  ASSUME NEW tr, NEW q, NEW rs, NEW cut, IsAnswer(tr, q, rs, cut)
  PROVE  Promise!IsAnswer(tr, q, rs, cut)
<1>1. Promise!WindowEvents(tr, q) = WindowEvents(tr, q)
  BY DEF WindowEvents, Promise!WindowEvents, EventsOf, Promise!EventsOf,
         Event, Promise!Event, InWindow, Promise!InWindow,
         WithinUpper, Promise!WithinUpper
<1>2. \A a, b : Promise!Precedes(a, b) <=> Precedes(a, b)
  BY DEF Precedes, Promise!Precedes, KeyLess, Promise!KeyLess,
         KeyEqual, Promise!KeyEqual
<1>3. Promise!RowSet(rs) = RowSet(rs)
  BY DEF RowSet, Promise!RowSet
<1>. QED
  BY <1>1, <1>2, <1>3 DEF IsAnswer, Promise!IsAnswer, RowsInOrder, Promise!RowsInOrder

(* The eager path implements the one-step promise of dump.                 *)
THEOREM MergeImplementsDumpAnswer == Spec => ImplementsDumpAnswer
<1>1. Init => Promise!Init
  BY DEF Init, Promise!Init
<1>2. IInv' /\ [Next]_vars => [Promise!Answer]_Promise!vars
  <2>. SUFFICES ASSUME IInv', [Next]_vars  PROVE [Promise!Answer]_Promise!vars
    OBVIOUS
  <2>1. CASE Replay
    BY <2>1 DEF Replay, Promise!vars
  <2>2. CASE PassUpperBound \/ Exhaust
    <3>1. /\ pc = "replay" /\ pc' = "done"
          /\ trace' = trace /\ query' = query
      BY <2>2 DEF PassUpperBound, Exhaust
    <3>2. AnswerIsRight'
      BY DoneIsAnswer, PTL
    <3>3. IsAnswer(trace, query, rows', truncated')
      BY <3>1, <3>2 DEF AnswerIsRight
    <3>4. Promise!IsAnswer(trace, query, rows', truncated')
      BY <3>3, SameAnswers
    <3>5. /\ (IF pc = "done" THEN rows ELSE << >>)' = rows'
          /\ (IF pc = "done" THEN truncated ELSE FALSE)' = truncated'
      BY <3>1
    <3>6. Promise!Answer
      BY <3>1, <3>4, <3>5 DEF Promise!Answer
    <3>. QED
      BY <3>6
  <2>3. CASE UNCHANGED vars
    BY <2>3 DEF vars, Promise!vars
  <2>. QED
    BY <2>1, <2>2, <2>3 DEF Next
<1>. QED
  BY <1>1, <1>2, ReplayInvariant, PTL DEF Spec, ImplementsDumpAnswer, Promise!Spec
==============================================================================
