--------------------------- MODULE ListingProofs ----------------------------
(***************************************************************************)
(* The signal table and the commands that answer from it alone, for every  *)
(* hierarchy, every backend and every command line: a walk leaves no       *)
(* iterator open and declares every leaf once, the table has every         *)
(* declared path, a selection is what `list` shows, and a name means one   *)
(* signal to every command.                                                *)
(***************************************************************************)
EXTENDS Listing, FunctionTheorems, FiniteSetTheorems, SequenceTheorems,
        WellFoundedInduction, TLAPS

(***************************************************************************)
(* Ranks.  In a finite set under a strict total order, an element's rank   *)
(* is the number of elements before it; the ranks are 0 up to the size.    *)
(***************************************************************************)
RankIn(I, R, j) == Cardinality({i \in I : <<i, j>> \in R})

StrictTotal(I, R) ==
  /\ \A i \in I : <<i, i>> \notin R
  /\ \A i, j \in I : i # j => <<i, j>> \in R \/ <<j, i>> \in R
  /\ \A i, j, k \in I : <<i, j>> \in R /\ <<j, k>> \in R => <<i, k>> \in R

(* A later element has the greater rank, and every rank is below the size. *)
LEMMA RanksGrow ==
  ASSUME NEW I, IsFiniteSet(I), NEW R, StrictTotal(I, R)
  PROVE  /\ \A j \in I : RankIn(I, R, j) \in 0..(Cardinality(I) - 1)
         /\ \A i, j \in I : <<i, j>> \in R => RankIn(I, R, i) < RankIn(I, R, j)
<1>. DEFINE Before(j) == {i \in I : <<i, j>> \in R}
<1>1. ASSUME NEW j \in I
      PROVE  /\ IsFiniteSet(Before(j)) /\ Cardinality(Before(j)) \in Nat
             /\ Cardinality(Before(j)) < Cardinality(I)
             /\ Cardinality(I) \in Nat
             /\ RankIn(I, R, j) = Cardinality(Before(j))
  <2>1. Before(j) \in SUBSET I /\ j \notin Before(j)
    BY DEF StrictTotal
  <2>2. /\ IsFiniteSet(Before(j))
        /\ Cardinality(Before(j)) <= Cardinality(I)
        /\ Cardinality(I) # Cardinality(Before(j))
    BY <2>1, FS_Subset
  <2>3. Cardinality(Before(j)) \in Nat /\ Cardinality(I) \in Nat
    BY <2>2, FS_CardinalityType
  <2>. QED
    BY <2>2, <2>3 DEF RankIn
<1>2. ASSUME NEW i \in I, NEW j \in I, <<i, j>> \in R
      PROVE  RankIn(I, R, i) < RankIn(I, R, j)
  <2>1. Before(i) \in SUBSET Before(j) /\ i \in Before(j) /\ i \notin Before(i)
    BY <1>2 DEF StrictTotal
  <2>2. /\ Cardinality(Before(i)) <= Cardinality(Before(j))
        /\ Cardinality(Before(i)) # Cardinality(Before(j))
    BY <1>1, <2>1, FS_Subset
  <2>3. /\ RankIn(I, R, i) = Cardinality(Before(i)) /\ RankIn(I, R, i) \in Nat
        /\ RankIn(I, R, j) = Cardinality(Before(j)) /\ RankIn(I, R, j) \in Nat
    BY <1>1
  <2>. HIDE DEF Before
  <2>. QED
    BY <2>2, <2>3
<1>3. ASSUME NEW j \in I
      PROVE  RankIn(I, R, j) \in 0..(Cardinality(I) - 1)
  <2>1. /\ RankIn(I, R, j) = Cardinality(Before(j)) /\ RankIn(I, R, j) \in Nat
        /\ Cardinality(Before(j)) < Cardinality(I)
        /\ Cardinality(I) \in Nat
    BY <1>1
  <2>. HIDE DEF Before
  <2>. QED
    BY <2>1
<1>. QED
  BY <1>2, <1>3

(* Every rank below the size is the rank of one element.                   *)
LEMMA RanksCover ==
  ASSUME NEW I, IsFiniteSet(I), NEW R, StrictTotal(I, R),
         NEW n \in 1..Cardinality(I)
  PROVE  \E j \in I : RankIn(I, R, j) = n - 1
<1>. DEFINE N == Cardinality(I)
            rank == [j \in I |-> RankIn(I, R, j)]
<1>1. N \in Nat
  BY FS_CardinalityType
<1>2. rank \in [I -> 0..(N - 1)]
  BY RanksGrow
<1>3. \A i, j \in I : rank[i] = rank[j] => i = j
  <2>1. SUFFICES ASSUME NEW i \in I, NEW j \in I, i # j PROVE rank[i] # rank[j]
    OBVIOUS
  <2>2. rank[i] < rank[j] \/ rank[j] < rank[i]
    BY <2>1, RanksGrow DEF StrictTotal
  <2>3. rank[i] \in Int /\ rank[j] \in Int
    BY <1>1, <1>2
  <2>. QED
    BY <2>2, <2>3
<1>4. rank \in Injection(I, 0..(N - 1))
  BY <1>2, <1>3, Fun_IsInj
<1>5. IsFiniteSet(0..(N - 1)) /\ Cardinality(0..(N - 1)) = N
  <2>1. 0 \in Int /\ N - 1 \in Int /\ (0 > N - 1 => N = 0)
    BY <1>1
  <2>. HIDE DEF N
  <2>2. IsFiniteSet(0..(N - 1))
    BY <2>1, FS_Interval
  <2>3. Cardinality(0..(N - 1)) = IF 0 > N - 1 THEN 0 ELSE (N - 1) - 0 + 1
    BY <2>1, FS_Interval
  <2>. QED
    BY <1>1, <2>1, <2>2, <2>3
<1>6. rank \in Surjection(I, 0..(N - 1))
  BY <1>4, <1>5, FS_Injection
<1>7. n - 1 \in 0..(N - 1)
  BY <1>1
<1>8. \E j \in I : rank[j] = n - 1
  <2>. HIDE DEF rank, N
  <2>1. \A k \in 0..(N - 1) : \E j \in I : rank[j] = k
    BY <1>6, Fun_SurjectionProperties
  <2>. QED
    BY <1>7, <2>1
<1>. QED
  BY <1>8

(* What InOrder makes of a finite set: all of it, each once, in the order. *)
LEMMA InOrderFacts ==
  ASSUME NEW I, IsFiniteSet(I), NEW R, StrictTotal(I, R)
  PROVE  /\ Cardinality(I) \in Nat
         /\ DOMAIN InOrder(I, R) = 1..Cardinality(I)
         /\ \A k \in 1..Cardinality(I) : InOrder(I, R)[k] \in I
         /\ \A k, m \in 1..Cardinality(I) :
              k < m => <<InOrder(I, R)[k], InOrder(I, R)[m]>> \in R
         /\ \A x \in I : \E k \in 1..Cardinality(I) : InOrder(I, R)[k] = x
<1>. DEFINE n == Cardinality(I)
            s == InOrder(I, R)
<1>1. n \in Nat
  BY FS_CardinalityType
<1>2. ASSUME NEW k \in 1..n
      PROVE  s[k] \in I /\ RankIn(I, R, s[k]) = k - 1
  <2>1. \E x \in I : RankIn(I, R, x) = k - 1
    BY RanksCover
  <2>2. s[k] = CHOOSE x \in I : Cardinality({y \in I : <<y, x>> \in R}) = k - 1
    BY DEF InOrder
  <2>. QED
    BY <2>1, <2>2 DEF RankIn
<1>3. ASSUME NEW k \in 1..n, NEW m \in 1..n, k < m
      PROVE  <<s[k], s[m]>> \in R
  <2>1. s[k] \in I /\ s[m] \in I /\ RankIn(I, R, s[k]) = k - 1 /\ RankIn(I, R, s[m]) = m - 1
    BY <1>2
  <2>2. s[k] # s[m]
    BY <1>1, <1>3, <2>1
  <2>3. <<s[m], s[k]>> \in R => RankIn(I, R, s[m]) < RankIn(I, R, s[k])
    BY <2>1, RanksGrow
  <2>4. <<s[m], s[k]>> \notin R
    BY <1>1, <1>3, <2>1, <2>3
  <2>. QED
    BY <2>1, <2>2, <2>4 DEF StrictTotal
<1>4. ASSUME NEW x \in I
      PROVE  \E k \in 1..n : s[k] = x
  <2>1. RankIn(I, R, x) \in 0..(n - 1)
    BY RanksGrow
  <2>. DEFINE k == RankIn(I, R, x) + 1
  <2>2. k \in 1..n
    BY <1>1, <2>1
  <2>3. s[k] \in I /\ RankIn(I, R, s[k]) = RankIn(I, R, x)
    BY <1>2, <2>1, <2>2
  <2>4. /\ <<s[k], x>> \in R => RankIn(I, R, s[k]) < RankIn(I, R, x)
        /\ <<x, s[k]>> \in R => RankIn(I, R, x) < RankIn(I, R, s[k])
    BY <2>3, RanksGrow
  <2>5. <<s[k], x>> \notin R /\ <<x, s[k]>> \notin R
    BY <1>1, <2>1, <2>3, <2>4
  <2>6. s[k] = x
    BY <2>3, <2>5 DEF StrictTotal
  <2>. QED
    BY <2>2, <2>6
<1>5. DOMAIN s = 1..n
  BY DEF InOrder
<1>. QED
  BY <1>1, <1>2, <1>3, <1>4, <1>5

(* A set of naturals that is not empty has a least element.                *)
LEMMA LeastNatural ==
  ASSUME NEW S \in SUBSET Nat, S # {}
  PROVE  \E p \in S : \A r \in S : p <= r
<1>1. PICK p \in S : \A r \in S : ~(<<r, p>> \in OpToRel(<, Nat))
  BY NatLessThanWellFounded, WFMin
<1>2. ASSUME NEW r \in S PROVE p <= r
  <2>1. ~(<<r, p>> \in OpToRel(<, Nat))
    BY <1>1
  <2>2. r < p => <<r, p>> \in OpToRel(<, Nat)
    BY DEF OpToRel
  <2>3. ~(r < p)
    BY <2>1, <2>2, Zenon
  <2>. QED
    BY <2>3
<1>. QED
  BY <1>2

(***************************************************************************)
(* Texts: TextLess is a strict total order.                                *)
(***************************************************************************)
Symbol == Letter \cup {Sep}

(* The texts agree before position k.                                      *)
AgreeBefore(a, b, k) == \A i \in 1..(k - 1) : i <= Len(a) /\ i <= Len(b) /\ a[i] = b[i]

(* TextLess, of the position it is decided at.                             *)
LessAt(a, b, k) ==
  /\ k \in 1..Len(b) /\ \A i \in 1..(k - 1) : i <= Len(a) /\ a[i] = b[i]
  /\ k <= Len(a) => Rank[a[k]] < Rank[b[k]]

LEMMA TextFacts ==
  ASSUME NEW a \in Text
  PROVE  Len(a) \in Nat /\ DOMAIN a = 1..Len(a) /\ \A i \in 1..Len(a) : a[i] \in Symbol
BY DEF Text, Symbol

LEMMA RankFacts ==
  /\ \A c \in Symbol : Rank[c] \in Int
  /\ \A c, d \in Symbol : Rank[c] = Rank[d] => c = d
BY RankAssumption DEF Symbol

LEMMA LessHow ==
  ASSUME NEW a, NEW b
  PROVE  TextLess(a, b) <=> \E k \in 1..Len(b) : LessAt(a, b, k)
BY DEF TextLess, LessAt

LEMMA LessIrreflexive ==
  ASSUME NEW a \in Text
  PROVE  ~TextLess(a, a)
<1>1. SUFFICES ASSUME NEW k \in 1..Len(a), LessAt(a, a, k) PROVE FALSE
  BY LessHow
<1>2. Len(a) \in Nat /\ a[k] \in Symbol
  BY TextFacts
<1>3. Rank[a[k]] < Rank[a[k]] /\ Rank[a[k]] \in Int
  BY <1>1, <1>2, RankFacts DEF LessAt
<1>. QED
  BY <1>3

(* Two texts that differ do so first at some position.                     *)
LEMMA FirstDifference ==
  ASSUME NEW a \in Text, NEW b \in Text, a # b
  PROVE  \E k \in Nat \ {0} :
           /\ AgreeBefore(a, b, k)
           /\ ~(k <= Len(a) /\ k <= Len(b) /\ a[k] = b[k])
<1>. DEFINE Same(k) == k <= Len(a) /\ k <= Len(b) /\ a[k] = b[k]
            Bad == {k \in Nat : k # 0 /\ ~Same(k)}
<1>1. Len(a) \in Nat /\ DOMAIN a = 1..Len(a) /\ Len(b) \in Nat /\ DOMAIN b = 1..Len(b)
  BY TextFacts
<1>2. Len(a) + 1 \in Bad
  BY <1>1
<1>3. PICK k \in Bad : \A r \in Bad : k <= r
  <2>1. Bad \in SUBSET Nat /\ Bad # {}
    BY <1>2
  <2>. QED
    BY <2>1, LeastNatural
<1>4. ASSUME NEW i \in 1..(k - 1) PROVE Same(i)
  <2>1. i \in Nat /\ i # 0 /\ ~(k <= i)
    BY <1>3, <1>4
  <2>. QED
    BY <1>3, <2>1
<1>. QED
  BY <1>3, <1>4 DEF AgreeBefore

LEMMA LessTotal ==
  ASSUME NEW a \in Text, NEW b \in Text, a # b
  PROVE  TextLess(a, b) \/ TextLess(b, a)
<1>1. /\ Len(a) \in Nat /\ DOMAIN a = 1..Len(a) /\ \A i \in 1..Len(a) : a[i] \in Symbol
      /\ Len(b) \in Nat /\ DOMAIN b = 1..Len(b) /\ \A i \in 1..Len(b) : b[i] \in Symbol
  BY TextFacts
<1>2. PICK k \in Nat \ {0} : /\ AgreeBefore(a, b, k)
                             /\ ~(k <= Len(a) /\ k <= Len(b) /\ a[k] = b[k])
  BY FirstDifference
<1>3. k - 1 <= Len(a) /\ k - 1 <= Len(b)
  <2>1. CASE k = 1
    BY <1>1, <2>1
  <2>2. CASE k # 1
    <3>1. k - 1 \in 1..(k - 1)
      BY <2>2
    <3>. QED
      BY <1>2, <3>1 DEF AgreeBefore
  <2>. QED
    BY <2>1, <2>2
<1>4. CASE k <= Len(a) /\ k <= Len(b)
  <2>1. k \in 1..Len(a) /\ k \in 1..Len(b) /\ a[k] # b[k]
    BY <1>1, <1>2, <1>4
  <2>2. a[k] \in Symbol /\ b[k] \in Symbol
    BY <1>1, <2>1
  <2>3. Rank[a[k]] < Rank[b[k]] \/ Rank[b[k]] < Rank[a[k]]
    BY <2>1, <2>2, RankFacts
  <2>4. LessAt(a, b, k) \/ LessAt(b, a, k)
    BY <1>2, <2>1, <2>3 DEF LessAt, AgreeBefore
  <2>. QED
    BY <2>1, <2>4, LessHow
<1>5. CASE ~(k <= Len(a)) /\ k <= Len(b)
  <2>1. k \in 1..Len(b) /\ LessAt(a, b, k)
    BY <1>1, <1>2, <1>5 DEF LessAt, AgreeBefore
  <2>. QED
    BY <2>1, LessHow
<1>6. CASE k <= Len(a) /\ ~(k <= Len(b))
  <2>1. k \in 1..Len(a) /\ LessAt(b, a, k)
    BY <1>1, <1>2, <1>6 DEF LessAt, AgreeBefore
  <2>. QED
    BY <2>1, LessHow
<1>7. CASE ~(k <= Len(a)) /\ ~(k <= Len(b))
  <2>1. Len(a) = k - 1 /\ Len(b) = k - 1
    BY <1>1, <1>3, <1>7
  <2>2. \A i \in 1..Len(a) : a[i] = b[i]
    BY <1>2, <2>1 DEF AgreeBefore
  <2>3. a = b
    <3>1. a \in Seq(Symbol) /\ b \in Seq(Symbol) /\ Len(a) = Len(b)
      BY <2>1 DEF Text, Symbol
    <3>. QED
      BY <2>2, <3>1, SeqEqual
  <2>. QED
    BY <2>3
<1>. QED
  BY <1>4, <1>5, <1>6, <1>7

LEMMA LessTransitive ==
  ASSUME NEW a \in Text, NEW b \in Text, NEW c \in Text, TextLess(a, b), TextLess(b, c)
  PROVE  TextLess(a, c)
<1>1. /\ Len(a) \in Nat /\ \A i \in 1..Len(a) : a[i] \in Symbol
      /\ Len(b) \in Nat /\ \A i \in 1..Len(b) : b[i] \in Symbol
      /\ Len(c) \in Nat /\ \A i \in 1..Len(c) : c[i] \in Symbol
  BY TextFacts
<1>2. PICK k \in 1..Len(b) : LessAt(a, b, k)
  BY LessHow
<1>3. PICK m \in 1..Len(c) : LessAt(b, c, m)
  BY LessHow
<1>4. /\ \A i \in 1..(k - 1) : i <= Len(a) /\ a[i] = b[i]
      /\ k <= Len(a) => Rank[a[k]] < Rank[b[k]]
  BY <1>2 DEF LessAt
<1>5. /\ \A i \in 1..(m - 1) : i <= Len(b) /\ b[i] = c[i]
      /\ m <= Len(b) => Rank[b[m]] < Rank[c[m]]
  BY <1>3 DEF LessAt
<1>6. CASE k < m
  <2>1. k \in 1..(m - 1) /\ k \in 1..Len(c)
    BY <1>1, <1>6
  <2>2. b[k] = c[k]
    BY <1>5, <2>1
  <2>3. \A i \in 1..(k - 1) : i <= Len(a) /\ a[i] = c[i]
    <3>1. SUFFICES ASSUME NEW i \in 1..(k - 1) PROVE i <= Len(a) /\ a[i] = c[i]
      OBVIOUS
    <3>2. i \in 1..(m - 1)
      BY <1>6
    <3>. QED
      BY <1>4, <1>5, <3>2
  <2>4. k <= Len(a) => Rank[a[k]] < Rank[c[k]]
    BY <1>4, <2>2
  <2>. QED
    BY <2>1, <2>3, <2>4, LessHow DEF LessAt
<1>7. CASE k = m
  <2>1. \A i \in 1..(m - 1) : i <= Len(a) /\ a[i] = c[i]
    BY <1>4, <1>5, <1>7
  <2>2. m <= Len(a) => Rank[a[m]] < Rank[c[m]]
    <3>1. SUFFICES ASSUME m <= Len(a) PROVE Rank[a[m]] < Rank[c[m]]
      OBVIOUS
    <3>2. m \in 1..Len(a) /\ m \in 1..Len(b) /\ m \in 1..Len(c) /\ m <= Len(b)
      BY <1>1, <1>7, <3>1
    <3>3. a[m] \in Symbol /\ b[m] \in Symbol /\ c[m] \in Symbol
      BY <1>1, <3>2
    <3>4. Rank[a[m]] < Rank[b[m]] /\ Rank[b[m]] < Rank[c[m]]
      BY <1>4, <1>5, <1>7, <3>1, <3>2
    <3>. QED
      BY <3>3, <3>4, RankFacts
  <2>. QED
    BY <2>1, <2>2, LessHow DEF LessAt
<1>8. CASE m < k
  <2>1. m \in 1..(k - 1) /\ m \in 1..Len(b) /\ m <= Len(b)
    BY <1>1, <1>8
  <2>2. a[m] = b[m]
    BY <1>4, <2>1
  <2>3. \A i \in 1..(m - 1) : i <= Len(a) /\ a[i] = c[i]
    <3>1. SUFFICES ASSUME NEW i \in 1..(m - 1) PROVE i <= Len(a) /\ a[i] = c[i]
      OBVIOUS
    <3>2. i \in 1..(k - 1)
      BY <1>8
    <3>. QED
      BY <1>4, <1>5, <3>2
  <2>4. m <= Len(a) => Rank[a[m]] < Rank[c[m]]
    BY <1>5, <2>1, <2>2
  <2>. QED
    BY <2>3, <2>4, LessHow DEF LessAt
<1>. QED
  BY <1>1, <1>6, <1>7, <1>8

(***************************************************************************)
(* Hierarchies.  Under(f, n) are the nodes a walk that enters n visits: n, *)
(* its children, theirs, and so on.                                        *)
(***************************************************************************)
Nodes(f) == {0} \cup DOMAIN f.name
Kin(f, n) == {f.children[n][i] : i \in DOMAIN f.children[n]}
Closed(f, S) == \A n \in S : Kin(f, n) \subseteq S
Under(f, n) == {m \in Nodes(f) : \A S \in SUBSET Nodes(f) : n \in S /\ Closed(f, S) => m \in S}

(* A child is listed by one parent, comes after it, and is no root.        *)
LEMMA TreeFacts ==
  ASSUME NEW f, IsTree(f)
  PROVE  /\ Nodes(f) \subseteq Nat /\ f.scopes \subseteq DOMAIN f.name
         /\ IsFiniteSet(DOMAIN f.name) /\ 0 \notin DOMAIN f.name
         /\ \A n \in Nodes(f) :
              /\ f.children[n] \in Seq(DOMAIN f.name)
              /\ n \notin f.scopes \cup {0} => Kin(f, n) = {}
              /\ Kin(f, n) \subseteq DOMAIN f.name
              /\ \A i, j \in DOMAIN f.children[n] :
                   f.children[n][i] = f.children[n][j] => i = j
         /\ \A n \in Nodes(f) : \A c \in Kin(f, n) :
              c > n /\ \A m \in Nodes(f) : c \in Kin(f, m) => m = n
         /\ \A c \in DOMAIN f.name : \E n \in Nodes(f) : c \in Kin(f, n)
<1>1. /\ f.scopes \subseteq DOMAIN f.name
      /\ DOMAIN f.name \subseteq Nat \ {0} /\ IsFiniteSet(DOMAIN f.name)
      /\ \A n \in Nodes(f) :
           /\ f.children[n] \in Seq(DOMAIN f.name)
           /\ n \notin f.scopes \cup {0} => f.children[n] = << >>
           /\ \A i \in DOMAIN f.children[n] :
                /\ f.children[n][i] > n
                /\ \A m \in Nodes(f) : \A j \in DOMAIN f.children[m] :
                     f.children[m][j] = f.children[n][i] => m = n /\ j = i
      /\ \A c \in DOMAIN f.name : \E n \in Nodes(f) : \E i \in DOMAIN f.children[n] :
           f.children[n][i] = c
  BY DEF IsTree, Nodes
<1>2. Nodes(f) \subseteq Nat /\ 0 \notin DOMAIN f.name
  BY <1>1 DEF Nodes
<1>3. ASSUME NEW n \in Nodes(f)
      PROVE  /\ f.children[n] \in Seq(DOMAIN f.name)
             /\ n \notin f.scopes \cup {0} => Kin(f, n) = {}
             /\ Kin(f, n) \subseteq DOMAIN f.name
             /\ \A i, j \in DOMAIN f.children[n] :
                  f.children[n][i] = f.children[n][j] => i = j
  <2>1. f.children[n] \in Seq(DOMAIN f.name)
    BY <1>1
  <2>2. Kin(f, n) \subseteq DOMAIN f.name
    BY <2>1 DEF Kin
  <2>3. ASSUME n \notin f.scopes \cup {0} PROVE Kin(f, n) = {}
    <3>1. f.children[n] = << >>
      BY <1>1, <2>3
    <3>2. DOMAIN f.children[n] = {}
      BY <3>1
    <3>. QED
      BY <3>2 DEF Kin
  <2>4. \A i, j \in DOMAIN f.children[n] : f.children[n][i] = f.children[n][j] => i = j
    BY <1>1
  <2>. QED
    BY <2>1, <2>2, <2>3, <2>4
<1>4. ASSUME NEW n \in Nodes(f), NEW c \in Kin(f, n)
      PROVE  c > n /\ \A m \in Nodes(f) : c \in Kin(f, m) => m = n
  <2>1. PICK i \in DOMAIN f.children[n] : c = f.children[n][i]
    BY DEF Kin
  <2>2. ASSUME NEW m \in Nodes(f), c \in Kin(f, m) PROVE m = n
    <3>1. PICK j \in DOMAIN f.children[m] : c = f.children[m][j]
      BY <2>2 DEF Kin
    <3>2. \A k \in DOMAIN f.children[m] : f.children[m][k] = f.children[n][i] => m = n
      BY <1>1, <2>1
    <3>. QED
      BY <2>1, <3>1, <3>2
  <2>. QED
    BY <1>1, <2>1, <2>2
<1>5. \A c \in DOMAIN f.name : \E n \in Nodes(f) : c \in Kin(f, n)
  BY <1>1 DEF Kin
<1>. QED
  BY <1>1, <1>2, <1>3, <1>4, <1>5

LEMMA UnderFacts ==
  ASSUME NEW f, IsTree(f), NEW n \in Nodes(f)
  PROVE  /\ n \in Under(f, n) /\ Under(f, n) \subseteq Nodes(f)
         /\ Closed(f, Under(f, n))
         /\ \A m \in Under(f, n) : m >= n
         /\ \A m \in Under(f, n) : m = n \/ \E p \in Under(f, n) : m \in Kin(f, p)
<1>1. n \in Under(f, n) /\ Under(f, n) \subseteq Nodes(f)
  BY DEF Under
<1>2. \A p \in Nodes(f) : Kin(f, p) \subseteq Nodes(f)
  BY TreeFacts DEF Nodes
<1>3. Closed(f, Under(f, n))
  <2>1. SUFFICES ASSUME NEW p \in Under(f, n), NEW m \in Kin(f, p),
                        NEW S \in SUBSET Nodes(f), n \in S, Closed(f, S)
                 PROVE  m \in S
    BY <1>1, <1>2 DEF Closed, Under
  <2>2. p \in S
    BY <2>1 DEF Under
  <2>. QED
    BY <2>1, <2>2 DEF Closed
<1>4. \A m \in Under(f, n) : m >= n
  <2>. DEFINE S == {m \in Nodes(f) : m >= n}
  <2>1. Closed(f, S)
    <3>1. SUFFICES ASSUME NEW p \in S, NEW m \in Kin(f, p) PROVE m \in S
      BY DEF Closed
    <3>2. m > p /\ m \in Nodes(f) /\ p \in Nodes(f) /\ p >= n
      BY <1>2, TreeFacts
    <3>3. m \in Nat /\ p \in Nat /\ n \in Nat
      BY <3>2, TreeFacts
    <3>. QED
      BY <3>2, <3>3
  <2>2. n \in S
    BY TreeFacts
  <2>3. S \in SUBSET Nodes(f)
    OBVIOUS
  <2>. HIDE DEF S
  <2>4. Under(f, n) \subseteq S
    BY <2>1, <2>2, <2>3 DEF Under
  <2>. QED
    BY <2>4 DEF S
<1>5. \A m \in Under(f, n) : m = n \/ \E p \in Under(f, n) : m \in Kin(f, p)
  <2>. DEFINE S == {m \in Nodes(f) : m = n \/ \E p \in Under(f, n) : m \in Kin(f, p)}
  <2>1. S \subseteq Under(f, n)
    BY <1>1, <1>3 DEF Closed
  <2>2. Closed(f, S)
    <3>1. SUFFICES ASSUME NEW p \in S, NEW m \in Kin(f, p) PROVE m \in S
      BY DEF Closed
    <3>2. p \in Under(f, n) /\ m \in Nodes(f)
      BY <1>2, <2>1
    <3>. QED
      BY <3>2
  <2>3. n \in S /\ S \in SUBSET Nodes(f)
    OBVIOUS
  <2>. HIDE DEF S
  <2>4. Under(f, n) \subseteq S
    BY <2>2, <2>3 DEF Under
  <2>. QED
    BY <2>4 DEF S
<1>. QED
  BY <1>1, <1>3, <1>4, <1>5

(* What is under a node is the node and what is under its children.        *)
LEMMA UnderChildren ==
  ASSUME NEW f, IsTree(f), NEW n \in Nodes(f), NEW m
  PROVE  m \in Under(f, n) <=> m = n \/ \E c \in Kin(f, n) : m \in Under(f, c)
<1>1. Kin(f, n) \subseteq Nodes(f) /\ \A p \in Nodes(f) : Kin(f, p) \subseteq Nodes(f)
  BY TreeFacts DEF Nodes
<1>2. ASSUME NEW c \in Kin(f, n) PROVE Under(f, c) \subseteq Under(f, n)
  <2>1. Under(f, n) \in SUBSET Nodes(f) /\ Closed(f, Under(f, n)) /\ c \in Under(f, n)
    BY UnderFacts DEF Closed
  <2>. QED
    BY <2>1 DEF Under
<1>3. n \in Under(f, n)
  BY UnderFacts
<1>4. ASSUME m \in Under(f, n)
      PROVE  m = n \/ \E c \in Kin(f, n) : m \in Under(f, c)
  <2>. DEFINE S == {x \in Nodes(f) : x = n \/ \E c \in Kin(f, n) : x \in Under(f, c)}
  <2>1. Closed(f, S)
    <3>1. SUFFICES ASSUME NEW p \in S, NEW x \in Kin(f, p) PROVE x \in S
      BY DEF Closed
    <3>2. x \in Nodes(f)
      BY <1>1
    <3>3. CASE p = n
      <4>1. x \in Under(f, x)
        BY <3>2, UnderFacts
      <4>. QED
        BY <3>2, <3>3, <4>1
    <3>4. CASE p # n
      <4>1. PICK c \in Kin(f, n) : p \in Under(f, c)
        BY <3>4
      <4>2. x \in Under(f, c)
        BY <1>1, <4>1, UnderFacts DEF Closed
      <4>. QED
        BY <3>2, <4>2
    <3>. QED
      BY <3>3, <3>4
  <2>2. n \in S /\ S \in SUBSET Nodes(f)
    OBVIOUS
  <2>. HIDE DEF S
  <2>3. m \in S
    BY <1>4, <2>1, <2>2 DEF Under
  <2>. QED
    BY <2>3 DEF S
<1>. QED
  BY <1>2, <1>3, <1>4

(* A node is under another only by way of its parent.                      *)
LEMMA UnderByParent ==
  ASSUME NEW f, IsTree(f), NEW y \in Nodes(f), NEW p \in Nodes(f), NEW m \in Kin(f, p),
         m # y, p \notin Under(f, y)
  PROVE  m \notin Under(f, y)
<1>1. SUFFICES ASSUME m \in Under(f, y) PROVE FALSE
  OBVIOUS
<1>2. PICK q \in Under(f, y) : m \in Kin(f, q)
  BY <1>1, UnderFacts
<1>3. q \in Nodes(f)
  BY UnderFacts
<1>4. q = p
  BY <1>2, <1>3, TreeFacts
<1>. QED
  BY <1>2, <1>4

(* A parent is not under its child, nor a node under its sibling.          *)
LEMMA SiblingsApart ==
  ASSUME NEW f, IsTree(f), NEW p \in Nodes(f), NEW y \in Kin(f, p)
  PROVE  /\ p \notin Under(f, y)
         /\ \A m \in Kin(f, p) : m # y => m \notin Under(f, y)
<1>1. y \in Nodes(f) /\ y > p /\ p \in Nat /\ y \in Nat
  BY TreeFacts DEF Nodes
<1>2. p \notin Under(f, y)
  <2>1. p \in Under(f, y) => p >= y
    BY <1>1, UnderFacts
  <2>. QED
    BY <1>1, <2>1
<1>. QED
  BY <1>1, <1>2, UnderByParent

(* The walk that enters the root comes everywhere.                         *)
LEMMA AllUnderRoot ==
  ASSUME NEW f, IsTree(f)
  PROVE  \A m \in Nodes(f) : m \in Under(f, 0)
<1>. DEFINE Lost == {m \in Nodes(f) : m \notin Under(f, 0)}
<1>1. SUFFICES ASSUME Lost # {} PROVE FALSE
  OBVIOUS
<1>2. Lost \in SUBSET Nat
  BY TreeFacts
<1>3. PICK m \in Lost : \A r \in Lost : m <= r
  BY <1>1, <1>2, LeastNatural
<1>4. 0 \in Nodes(f) /\ 0 \in Under(f, 0)
  BY UnderFacts DEF Nodes
<1>5. m \in DOMAIN f.name
  BY <1>4 DEF Nodes
<1>6. PICK p \in Nodes(f) : m \in Kin(f, p)
  BY <1>5, TreeFacts
<1>7. m > p /\ m \in Nat /\ p \in Nat
  BY <1>2, <1>6, TreeFacts
<1>8. p \in Under(f, 0)
  <2>1. p \in Lost => m <= p
    BY <1>3
  <2>. QED
    BY <1>7, <2>1
<1>9. m \in Under(f, 0)
  BY <1>4, <1>6, <1>8, UnderFacts DEF Closed
<1>. QED
  BY <1>9

(***************************************************************************)
(* Walks.  What a call of the walk has in front of it are the nodes it has *)
(* yet to go into; a leaf under one of those is owed.                      *)
(***************************************************************************)
Items(q) == {q[i] : i \in 1..Len(q)}

Ahead(f, fr) ==
  IF f.format = "wlf"
  THEN IF fr.stage = "visit" THEN Items(fr.todo) ELSE Kin(f, fr.node)
  ELSE CASE fr.stage = "enter" -> IF fr.node = 0 THEN Kin(f, 0) \cap f.scopes ELSE Kin(f, fr.node)
         [] fr.stage = "signals" -> Items(fr.todo) \cup (Kin(f, fr.node) \cap f.scopes)
         [] OTHER -> Items(fr.todo)

Leaves(f) == DOMAIN f.name \ f.scopes

Owed(f, st) == {l \in Leaves(f) : \E i \in 1..Len(st) : \E y \in Ahead(f, st[i]) : l \in Under(f, y)}

(* The calls under way go down the tree, and none has in front of it what  *)
(* leads to a call further in.                                             *)
Shape(f, st) ==
  /\ Len(st) \in Nat
  /\ \A i \in 1..Len(st) : /\ st[i].node \in {0} \cup f.scopes
                           /\ Ahead(f, st[i]) \subseteq Kin(f, st[i].node)
  /\ \A i, j \in 1..Len(st) : i < j =>
       /\ st[i].node > st[j].node
       /\ \A y \in Ahead(f, st[j]) : st[i].node \notin Under(f, y)

LEMMA ShapeFacts ==
  ASSUME NEW f, IsTree(f), NEW st, Shape(f, st), NEW i \in 1..Len(st)
  PROVE  /\ st[i].node \in Nodes(f) /\ st[i].node \in Nat
         /\ \A y \in Ahead(f, st[i]) :
              y \in Kin(f, st[i].node) /\ y \in Nodes(f) /\ y \in Nat /\ y > st[i].node
<1>1. st[i].node \in {0} \cup f.scopes /\ Ahead(f, st[i]) \subseteq Kin(f, st[i].node)
  BY DEF Shape
<1>2. f.scopes \subseteq DOMAIN f.name /\ Nodes(f) \subseteq Nat
  BY TreeFacts
<1>3. st[i].node \in Nodes(f) /\ st[i].node \in Nat
  BY <1>1, <1>2 DEF Nodes
<1>4. Kin(f, st[i].node) \subseteq Nodes(f) /\ \A y \in Kin(f, st[i].node) : y > st[i].node
  BY <1>3, TreeFacts DEF Nodes
<1>. QED
  BY <1>1, <1>2, <1>3, <1>4

(* What the innermost call goes into next leads nowhere else: it is under  *)
(* nothing else that is in front.                                          *)
LEMMA NextIsApart ==
  ASSUME NEW f, IsTree(f), NEW st, Shape(f, st), 1 \in 1..Len(st), NEW n \in Ahead(f, st[1])
  PROVE  /\ \A y \in Ahead(f, st[1]) : y # n => n \notin Under(f, y)
         /\ \A j \in 2..Len(st) : \A y \in Ahead(f, st[j]) : n \notin Under(f, y)
<1>1. st[1].node \in Nodes(f) /\ st[1].node \in Nat /\ n \in Kin(f, st[1].node)
      /\ n \in Nodes(f)
  BY ShapeFacts
<1>2. ASSUME NEW y \in Ahead(f, st[1]), y # n PROVE n \notin Under(f, y)
  <2>1. y \in Kin(f, st[1].node)
    BY ShapeFacts
  <2>. QED
    BY <1>1, <1>2, <2>1, SiblingsApart
<1>3. ASSUME NEW j \in 2..Len(st), NEW y \in Ahead(f, st[j]) PROVE n \notin Under(f, y)
  <2>1. j \in 1..Len(st) /\ 1 < j
    BY DEF Shape
  <2>2. st[1].node > st[j].node /\ st[1].node \notin Under(f, y)
    BY <2>1 DEF Shape
  <2>3. st[j].node \in Nodes(f) /\ st[j].node \in Nat /\ y \in Kin(f, st[j].node) /\ y \in Nodes(f)
    BY <2>1, ShapeFacts
  <2>4. st[1].node # st[j].node
    BY <1>1, <2>2, <2>3
  <2>5. n # y
    BY <1>1, <2>3, <2>4, TreeFacts
  <2>. QED
    BY <1>1, <2>2, <2>3, <2>5, UnderByParent
<1>. QED
  BY <1>2, <1>3

(* A call that goes on with the same in front owes the same.               *)
LEMMA GoesOn ==
  ASSUME NEW f, IsTree(f), NEW st, Shape(f, st), NEW st2,
         Len(st2) = Len(st), 1 \in 1..Len(st),
         st2[1].node = st[1].node, Ahead(f, st2[1]) = Ahead(f, st[1]),
         \A i \in 2..Len(st) : st2[i] = st[i]
  PROVE  Shape(f, st2) /\ Owed(f, st2) = Owed(f, st)
<1>1. Len(st) \in Nat
  BY DEF Shape
<1>2. \A i \in 1..Len(st) : st2[i].node = st[i].node /\ Ahead(f, st2[i]) = Ahead(f, st[i])
  <2>1. SUFFICES ASSUME NEW i \in 1..Len(st)
                 PROVE  st2[i].node = st[i].node /\ Ahead(f, st2[i]) = Ahead(f, st[i])
    OBVIOUS
  <2>2. i = 1 \/ i \in 2..Len(st)
    BY <1>1
  <2>. QED
    BY <2>2
<1>3. Shape(f, st2)
  BY <1>1, <1>2 DEF Shape
<1>4. Owed(f, st2) = Owed(f, st)
  BY <1>2 DEF Owed
<1>. QED
  BY <1>3, <1>4

(* A call with nothing in front of it returns, and nothing is lost.        *)
LEMMA ComesBack ==
  ASSUME NEW f, IsTree(f), NEW st, Shape(f, st), NEW st2,
         1 \in 1..Len(st), Len(st2) = Len(st) - 1, Ahead(f, st[1]) = {},
         \A i \in 1..(Len(st) - 1) : st2[i] = st[i + 1]
  PROVE  Shape(f, st2) /\ Owed(f, st2) = Owed(f, st)
<1>1. Len(st) \in Nat /\ Len(st2) \in Nat
  BY DEF Shape
<1>2. \A i \in 1..Len(st2) : i + 1 \in 1..Len(st) /\ st2[i] = st[i + 1]
  BY <1>1
<1>3. Shape(f, st2)
  <2>1. \A i \in 1..Len(st2) : /\ st2[i].node \in {0} \cup f.scopes
                               /\ Ahead(f, st2[i]) \subseteq Kin(f, st2[i].node)
    BY <1>2 DEF Shape
  <2>2. ASSUME NEW i \in 1..Len(st2), NEW j \in 1..Len(st2), i < j
        PROVE  /\ st2[i].node > st2[j].node
               /\ \A y \in Ahead(f, st2[j]) : st2[i].node \notin Under(f, y)
    <3>1. i + 1 \in 1..Len(st) /\ j + 1 \in 1..Len(st) /\ i + 1 < j + 1
      BY <1>1, <2>2
    <3>2. st2[i] = st[i + 1] /\ st2[j] = st[j + 1]
      BY <1>2
    <3>3. /\ st[i + 1].node > st[j + 1].node
          /\ \A y \in Ahead(f, st[j + 1]) : st[i + 1].node \notin Under(f, y)
      BY <3>1 DEF Shape
    <3>. QED
      BY <3>2, <3>3
  <2>. QED
    BY <1>1, <2>1, <2>2 DEF Shape
<1>4. ASSUME NEW l \in Owed(f, st) PROVE l \in Owed(f, st2)
  <2>1. PICK i \in 1..Len(st) : \E y \in Ahead(f, st[i]) : l \in Under(f, y)
    BY DEF Owed
  <2>2. i # 1
    BY <2>1
  <2>3. i - 1 \in 1..Len(st2) /\ (i - 1) + 1 = i
    BY <1>1, <2>2
  <2>4. st2[i - 1] = st[i]
    BY <1>2, <2>3
  <2>5. l \in Leaves(f)
    BY DEF Owed
  <2>6. \E k \in 1..Len(st2) : \E y \in Ahead(f, st2[k]) : l \in Under(f, y)
    BY <2>1, <2>3, <2>4
  <2>. QED
    BY <2>5, <2>6 DEF Owed
<1>5. ASSUME NEW l \in Owed(f, st2) PROVE l \in Owed(f, st)
  <2>1. PICK i \in 1..Len(st2) : \E y \in Ahead(f, st2[i]) : l \in Under(f, y)
    BY DEF Owed
  <2>2. i + 1 \in 1..Len(st) /\ st2[i] = st[i + 1]
    BY <1>2
  <2>3. l \in Leaves(f)
    BY DEF Owed
  <2>4. \E k \in 1..Len(st) : \E y \in Ahead(f, st[k]) : l \in Under(f, y)
    BY <2>1, <2>2
  <2>. QED
    BY <2>3, <2>4 DEF Owed
<1>. QED
  BY <1>3, <1>4, <1>5

(* A leaf that is declared is owed no more, and no other is settled by it. *)
Settles(f, st, st2, n) ==
  /\ Len(st2) = Len(st) /\ 1 \in 1..Len(st)
  /\ n \in Ahead(f, st[1]) /\ n \notin f.scopes
  /\ st2[1].node = st[1].node /\ Ahead(f, st2[1]) = Ahead(f, st[1]) \ {n}
  /\ \A i \in 2..Len(st) : st2[i] = st[i]

LEMMA LeafSettled ==
  ASSUME NEW f, IsTree(f), NEW st, Shape(f, st), NEW st2, NEW n, Settles(f, st, st2, n)
  PROVE  Shape(f, st2) /\ n \in Owed(f, st) /\ Owed(f, st2) = Owed(f, st) \ {n}
<1>0. /\ Len(st2) = Len(st) /\ 1 \in 1..Len(st)
      /\ n \in Ahead(f, st[1]) /\ n \notin f.scopes
      /\ st2[1].node = st[1].node /\ Ahead(f, st2[1]) = Ahead(f, st[1]) \ {n}
      /\ \A i \in 2..Len(st) : st2[i] = st[i]
  BY DEF Settles
<1>. USE <1>0
<1>1. Len(st) \in Nat
  BY DEF Shape
<1>2. \A i \in 1..Len(st) : i = 1 \/ i \in 2..Len(st)
  BY <1>1
<1>3. \A i \in 1..Len(st) : /\ st2[i].node = st[i].node
                            /\ Ahead(f, st2[i]) \subseteq Ahead(f, st[i])
  BY <1>2
<1>4. Shape(f, st2)
  <2>1. \A i \in 1..Len(st) : /\ st2[i].node \in {0} \cup f.scopes
                              /\ Ahead(f, st2[i]) \subseteq Kin(f, st2[i].node)
    BY <1>3 DEF Shape
  <2>2. ASSUME NEW i \in 1..Len(st), NEW j \in 1..Len(st), i < j
        PROVE  /\ st2[i].node > st2[j].node
               /\ \A y \in Ahead(f, st2[j]) : st2[i].node \notin Under(f, y)
    <3>1. /\ st[i].node > st[j].node
          /\ \A y \in Ahead(f, st[j]) : st[i].node \notin Under(f, y)
      BY <2>2 DEF Shape
    <3>2. st2[i].node = st[i].node /\ st2[j].node = st[j].node
          /\ Ahead(f, st2[j]) \subseteq Ahead(f, st[j])
      BY <1>3
    <3>. QED
      BY <3>1, <3>2
  <2>. QED
    BY <1>1, <2>1, <2>2 DEF Shape
<1>5. n \in Kin(f, st[1].node) /\ n \in Nodes(f) /\ n \in Leaves(f) /\ n # 0
  <2>1. n \in Kin(f, st[1].node) /\ n \in Nodes(f) /\ st[1].node \in Nodes(f)
    BY ShapeFacts
  <2>2. n \in DOMAIN f.name /\ 0 \notin DOMAIN f.name
    BY <2>1, TreeFacts
  <2>. QED
    BY <2>1, <2>2 DEF Leaves
<1>6. \A l : l \in Under(f, n) <=> l = n
  <2>1. Kin(f, n) = {}
    BY <1>5, TreeFacts
  <2>. QED
    BY <1>5, <2>1, UnderChildren
<1>7. n \in Owed(f, st)
  BY <1>5, <1>6 DEF Owed
<1>8. ASSUME NEW l \in Owed(f, st), l # n PROVE l \in Owed(f, st2)
  <2>1. PICK i \in 1..Len(st) : \E y \in Ahead(f, st[i]) : l \in Under(f, y)
    BY DEF Owed
  <2>2. PICK y \in Ahead(f, st[i]) : l \in Under(f, y)
    BY <2>1
  <2>3. y # n
    BY <1>6, <1>8, <2>2
  <2>4. y \in Ahead(f, st2[i])
    BY <1>2, <2>3
  <2>. QED
    BY <2>2, <2>4 DEF Owed
<1>9. ASSUME NEW l \in Owed(f, st2) PROVE l \in Owed(f, st) /\ l # n
  <2>1. PICK i \in 1..Len(st) : \E y \in Ahead(f, st2[i]) : l \in Under(f, y)
    BY DEF Owed
  <2>2. PICK y \in Ahead(f, st2[i]) : l \in Under(f, y)
    BY <2>1
  <2>3. y \in Ahead(f, st[i])
    BY <1>3, <2>2
  <2>4. n \notin Under(f, y)
    <3>1. CASE i = 1
      <4>1. y # n
        BY <2>2, <3>1
      <4>. QED
        BY <2>3, <3>1, <4>1, NextIsApart
    <3>2. CASE i \in 2..Len(st)
      BY <2>3, <3>2, NextIsApart
    <3>. QED
      BY <1>2, <3>1, <3>2
  <2>. QED
    BY <2>2, <2>3, <2>4 DEF Owed
<1>. QED
  BY <1>4, <1>7, <1>8, <1>9

(* A call for a scope has in front of it what the scope holds.             *)
Enters(f, st, st2, n) ==
  /\ Len(st2) = Len(st) + 1 /\ 1 \in 1..Len(st)
  /\ n \in Ahead(f, st[1]) /\ n \in f.scopes
  /\ st2[1].node = n /\ Ahead(f, st2[1]) = Kin(f, n)
  /\ st2[2].node = st[1].node /\ Ahead(f, st2[2]) = Ahead(f, st[1]) \ {n}
  /\ \A i \in 2..Len(st) : st2[i + 1] = st[i]

LEMMA GoesIn ==
  ASSUME NEW f, IsTree(f), NEW st, Shape(f, st), NEW st2, NEW n, Enters(f, st, st2, n)
  PROVE  Shape(f, st2) /\ Owed(f, st2) = Owed(f, st)
<1>0. /\ Len(st2) = Len(st) + 1 /\ 1 \in 1..Len(st)
      /\ n \in Ahead(f, st[1]) /\ n \in f.scopes
      /\ st2[1].node = n /\ Ahead(f, st2[1]) = Kin(f, n)
      /\ st2[2].node = st[1].node /\ Ahead(f, st2[2]) = Ahead(f, st[1]) \ {n}
      /\ \A i \in 2..Len(st) : st2[i + 1] = st[i]
  BY DEF Enters
<1>. USE <1>0
<1>1. Len(st) \in Nat /\ Len(st2) \in Nat
  BY <1>0 DEF Shape
<1>2. ASSUME NEW i \in 1..Len(st)
      PROVE  /\ i + 1 \in 1..Len(st2)
             /\ st2[i + 1].node = st[i].node
             /\ Ahead(f, st2[i + 1]) = IF i = 1 THEN Ahead(f, st[1]) \ {n} ELSE Ahead(f, st[i])
  <2>1. i = 1 \/ i \in 2..Len(st)
    BY <1>1
  <2>2. CASE i = 1
    <3>1. i + 1 = 2 /\ 2 \in 1..Len(st2)
      BY <1>1, <2>2
    <3>. QED
      BY <2>2, <3>1
  <2>3. CASE i \in 2..Len(st)
    <3>1. i # 1 /\ i + 1 \in 1..Len(st2)
      BY <1>1, <2>3
    <3>. QED
      BY <2>3, <3>1
  <2>. QED
    BY <2>1, <2>2, <2>3
<1>3. ASSUME NEW k \in 1..Len(st2), k # 1
      PROVE  k - 1 \in 1..Len(st) /\ (k - 1) + 1 = k
  BY <1>1, <1>3
<1>4. ASSUME NEW i \in 1..Len(st) PROVE Ahead(f, st2[i + 1]) \subseteq Ahead(f, st[i])
  BY <1>2
<1>5. n \in Kin(f, st[1].node) /\ n \in Nodes(f) /\ n > st[1].node /\ n \in Nat
      /\ st[1].node \in Nat /\ n # 0
  <2>1. n \in Kin(f, st[1].node) /\ n \in Nodes(f) /\ n > st[1].node /\ n \in Nat
        /\ st[1].node \in Nat
    BY ShapeFacts
  <2>. QED
    BY <2>1
<1>6. \A i \in 1..Len(st) : n > st[i].node /\ st[i].node \in Nat
  <2>1. SUFFICES ASSUME NEW i \in 1..Len(st) PROVE n > st[i].node /\ st[i].node \in Nat
    OBVIOUS
  <2>2. st[i].node \in Nat
    BY ShapeFacts
  <2>3. i = 1 \/ 1 < i
    BY <1>1
  <2>4. 1 < i => st[1].node > st[i].node
    BY DEF Shape
  <2>. QED
    BY <1>5, <2>2, <2>3, <2>4
<1>7. Shape(f, st2)
  <2>1. ASSUME NEW k \in 1..Len(st2)
        PROVE  /\ st2[k].node \in {0} \cup f.scopes
               /\ Ahead(f, st2[k]) \subseteq Kin(f, st2[k].node)
    <3>1. CASE k = 1
      BY <3>1
    <3>2. CASE k # 1
      <4>. DEFINE i == k - 1
      <4>1. i \in 1..Len(st) /\ i + 1 = k
        BY <1>3, <3>2
      <4>2. st[i].node \in {0} \cup f.scopes /\ Ahead(f, st[i]) \subseteq Kin(f, st[i].node)
        BY <4>1 DEF Shape
      <4>3. st2[k].node = st[i].node /\ Ahead(f, st2[k]) \subseteq Ahead(f, st[i])
        BY <1>2, <1>4, <4>1
      <4>. QED
        BY <4>2, <4>3
    <3>. QED
      BY <3>1, <3>2
  <2>2. ASSUME NEW k \in 1..Len(st2), NEW m \in 1..Len(st2), k < m
        PROVE  /\ st2[k].node > st2[m].node
               /\ \A y \in Ahead(f, st2[m]) : st2[k].node \notin Under(f, y)
    <3>. DEFINE j == m - 1
    <3>1. m # 1
      BY <2>2
    <3>2. j \in 1..Len(st) /\ j + 1 = m
      BY <1>3, <3>1
    <3>3. st2[m].node = st[j].node /\ Ahead(f, st2[m]) \subseteq Ahead(f, st[j])
          /\ Ahead(f, st2[m]) = IF j = 1 THEN Ahead(f, st[1]) \ {n} ELSE Ahead(f, st[j])
      BY <1>2, <1>4, <3>2
    <3>4. CASE k = 1
      <4>1. st2[k].node > st2[m].node
        BY <1>6, <3>2, <3>3, <3>4
      <4>2. ASSUME NEW y \in Ahead(f, st2[m]) PROVE n \notin Under(f, y)
        <5>1. CASE j = 1
          BY <3>3, <5>1, NextIsApart
        <5>2. CASE j # 1
          <6>1. j \in 2..Len(st)
            BY <1>1, <3>2, <5>2
          <6>. HIDE DEF j
          <6>. QED
            BY <3>3, <6>1, NextIsApart
        <5>. QED
          BY <5>1, <5>2
      <4>. QED
        BY <3>4, <4>1, <4>2
    <3>5. CASE k # 1
      <4>. DEFINE i == k - 1
      <4>1. i \in 1..Len(st) /\ i + 1 = k
        BY <1>3, <3>5
      <4>2. i < j
        BY <1>1, <2>2
      <4>3. st2[k].node = st[i].node
        BY <1>2, <4>1
      <4>. HIDE DEF i, j
      <4>4. st[i].node > st[j].node /\ \A y \in Ahead(f, st[j]) : st[i].node \notin Under(f, y)
        BY <3>2, <4>1, <4>2 DEF Shape
      <4>. QED
        BY <3>3, <4>3, <4>4
    <3>. QED
      BY <3>4, <3>5
  <2>. QED
    BY <1>1, <2>1, <2>2 DEF Shape
<1>8. ASSUME NEW l \in Owed(f, st) PROVE l \in Owed(f, st2)
  <2>1. PICK i \in 1..Len(st) : \E y \in Ahead(f, st[i]) : l \in Under(f, y)
    BY DEF Owed
  <2>2. PICK y \in Ahead(f, st[i]) : l \in Under(f, y)
    BY <2>1
  <2>3. l \in Leaves(f)
    BY DEF Owed
  <2>4. CASE i = 1 /\ y = n
    <3>1. l # n
      BY <2>3 DEF Leaves
    <3>2. PICK c \in Kin(f, n) : l \in Under(f, c)
      BY <1>5, <2>2, <2>4, <3>1, UnderChildren
    <3>3. 1 \in 1..Len(st2)
      BY <1>1
    <3>. QED
      BY <2>3, <3>2, <3>3 DEF Owed
  <2>5. CASE ~(i = 1 /\ y = n)
    <3>1. y \in Ahead(f, st2[i + 1]) /\ i + 1 \in 1..Len(st2)
      BY <1>2, <2>5
    <3>. QED
      BY <2>2, <2>3, <3>1 DEF Owed
  <2>. QED
    BY <2>4, <2>5
<1>9. ASSUME NEW l \in Owed(f, st2) PROVE l \in Owed(f, st)
  <2>1. PICK k \in 1..Len(st2) : \E y \in Ahead(f, st2[k]) : l \in Under(f, y)
    BY DEF Owed
  <2>2. PICK y \in Ahead(f, st2[k]) : l \in Under(f, y)
    BY <2>1
  <2>3. l \in Leaves(f)
    BY DEF Owed
  <2>4. CASE k = 1
    <3>1. l \in Under(f, n)
      BY <1>5, <2>2, <2>4, UnderChildren
    <3>. QED
      BY <2>3, <3>1 DEF Owed
  <2>5. CASE k # 1
    <3>. DEFINE i == k - 1
    <3>1. i \in 1..Len(st) /\ i + 1 = k
      BY <1>3, <2>5
    <3>2. y \in Ahead(f, st[i])
      BY <1>4, <2>2, <3>1
    <3>. HIDE DEF i
    <3>. QED
      BY <2>2, <2>3, <3>1, <3>2 DEF Owed
  <2>. QED
    BY <2>4, <2>5
<1>. QED
  BY <1>7, <1>8, <1>9

(***************************************************************************)
(* The calls under way, the iterators they hold and what is declared.      *)
(***************************************************************************)
Frames(f) ==
  [node : Nodes(f), path : Text, todo : Seq(DOMAIN f.name),
   stage : {"enter", "drain", "visit", "signals", "scopes"}]

FrameOK(f, fr) ==
  /\ fr \in Frames(f)
  /\ \A i, j \in 1..Len(fr.todo) : fr.todo[i] = fr.todo[j] => i = j
  /\ f.format = "wlf" => fr.stage \in {"enter", "drain", "visit"}
  /\ f.format = "fsdb" =>
       /\ fr.stage \in {"enter", "signals", "scopes"}
       /\ fr.node # 0 => fr.path # << >>
       /\ fr.stage = "signals" => fr.node # 0 /\ Items(fr.todo) \cap f.scopes = {}
       /\ fr.stage = "scopes" => Items(fr.todo) \subseteq f.scopes

(* Whether a call holds an iterator.                                       *)
Held(f, fr) == IF f.format = "wlf" THEN fr.stage = "drain" ELSE fr.stage # "enter"
HeldBy(f, st) == {st[i].node : i \in {k \in 1..Len(st) : Held(f, st[k])}}

IsDecl(d) ==
  d.path \in Text /\ d.scope \in Text /\ {"path", "scope", "sid", "type"} \subseteq DOMAIN d

Declares(ds) ==
  /\ Len(ds) \in Nat /\ DOMAIN ds = 1..Len(ds)
  /\ \A i \in 1..Len(ds) : IsDecl(ds[i])

WalkInv(f, st, its, cached) ==
  /\ st \in Seq(Frames(f))
  /\ \A i \in 1..Len(st) : FrameOK(f, st[i])
  /\ Shape(f, st)
  /\ \A i \in 2..Len(st) : st[i].stage \in {"visit", "scopes"}
  /\ its = HeldBy(f, st)
  /\ Declares(cached) /\ \E S : cached \in Seq(S)
  /\ Len(cached) + Cardinality(Owed(f, st)) = Cardinality(LeavesOf(f))

(* The stack with its innermost call replaced.                             *)
LEMMA Replaced ==
  ASSUME NEW S, NEW st \in Seq(S), st # << >>, NEW fr \in S, NEW st2, st2 = <<fr>> \o Tail(st)
  PROVE  /\ st2 \in Seq(S) /\ Len(st2) = Len(st) /\ Len(st) \in Nat /\ 1 \in 1..Len(st)
         /\ st2[1] = fr /\ \A i \in 2..Len(st) : st2[i] = st[i]
<1>1. Len(st) \in Nat /\ Len(st) # 0
  OBVIOUS
<1>2. Tail(st) \in Seq(S) /\ Len(Tail(st)) = Len(st) - 1
      /\ \A i \in 1..(Len(st) - 1) : Tail(st)[i] = st[i + 1]
  BY <1>1
<1>3. <<fr>> \in Seq(S) /\ Len(<<fr>>) = 1 /\ <<fr>>[1] = fr
  OBVIOUS
<1>4. st2 \in Seq(S) /\ Len(st2) = 1 + (Len(st) - 1)
      /\ \A i \in 1..Len(st2) : st2[i] = IF i <= 1 THEN <<fr>>[i] ELSE Tail(st)[i - 1]
  BY <1>2, <1>3, ConcatProperties
<1>5. Len(st2) = Len(st) /\ 1 \in 1..Len(st)
  BY <1>1, <1>4
<1>6. ASSUME NEW i \in 2..Len(st) PROVE st2[i] = st[i]
  <2>1. i \in 1..Len(st2) /\ ~(i <= 1) /\ i - 1 \in 1..(Len(st) - 1) /\ (i - 1) + 1 = i
    BY <1>1, <1>5
  <2>2. st2[i] = Tail(st)[i - 1] /\ Tail(st)[i - 1] = st[(i - 1) + 1]
    BY <1>2, <1>4, <2>1
  <2>. QED
    BY <2>1, <2>2
<1>. QED
  BY <1>1, <1>3, <1>4, <1>5, <1>6

(* The stack with its innermost call gone into another.                    *)
LEMMA Pushed ==
  ASSUME NEW S, NEW st \in Seq(S), st # << >>, NEW new \in S, NEW fr \in S,
         NEW st2, st2 = <<new, fr>> \o Tail(st)
  PROVE  /\ st2 \in Seq(S) /\ Len(st2) = Len(st) + 1 /\ Len(st) \in Nat /\ 1 \in 1..Len(st)
         /\ st2[1] = new /\ st2[2] = fr /\ \A i \in 2..Len(st) : st2[i + 1] = st[i]
<1>1. Len(st) \in Nat /\ Len(st) # 0
  OBVIOUS
<1>2. Tail(st) \in Seq(S) /\ Len(Tail(st)) = Len(st) - 1
      /\ \A i \in 1..(Len(st) - 1) : Tail(st)[i] = st[i + 1]
  BY <1>1
<1>3. <<new, fr>> \in Seq(S) /\ Len(<<new, fr>>) = 2
      /\ <<new, fr>>[1] = new /\ <<new, fr>>[2] = fr
  OBVIOUS
<1>4. st2 \in Seq(S) /\ Len(st2) = 2 + (Len(st) - 1)
      /\ \A i \in 1..Len(st2) : st2[i] = IF i <= 2 THEN <<new, fr>>[i] ELSE Tail(st)[i - 2]
  BY <1>2, <1>3, ConcatProperties
<1>5. Len(st2) = Len(st) + 1 /\ 1 \in 1..Len(st) /\ 1 \in 1..Len(st2) /\ 2 \in 1..Len(st2)
  BY <1>1, <1>4
<1>6. ASSUME NEW i \in 2..Len(st) PROVE st2[i + 1] = st[i]
  <2>1. i + 1 \in 1..Len(st2) /\ ~(i + 1 <= 2) /\ (i + 1) - 2 = i - 1
        /\ i - 1 \in 1..(Len(st) - 1) /\ (i - 1) + 1 = i
    BY <1>1, <1>5
  <2>2. st2[i + 1] = Tail(st)[(i + 1) - 2]
    BY <1>4, <2>1
  <2>3. Tail(st)[i - 1] = st[(i - 1) + 1]
    BY <1>2, <2>1
  <2>. QED
    BY <2>1, <2>2, <2>3
<1>. QED
  BY <1>1, <1>3, <1>4, <1>5, <1>6

LEMMA Popped ==
  ASSUME NEW S, NEW st \in Seq(S), st # << >>, NEW st2, st2 = Tail(st)
  PROVE  /\ st2 \in Seq(S) /\ Len(st2) = Len(st) - 1 /\ Len(st) \in Nat /\ 1 \in 1..Len(st)
         /\ \A i \in 1..(Len(st) - 1) : st2[i] = st[i + 1]
<1>1. Len(st) \in Nat /\ Len(st) # 0
  OBVIOUS
<1>. QED
  BY <1>1

(* The iterators held before and after, told apart by node.                *)
LEMMA HeldReplaced ==
  ASSUME NEW f, IsTree(f), NEW st, Shape(f, st), NEW st2, Len(st2) = Len(st), 1 \in 1..Len(st),
         st2[1].node = st[1].node, \A i \in 2..Len(st) : st2[i] = st[i]
  PROVE  \A x : x \in HeldBy(f, st2) <=>
                  IF x = st[1].node THEN Held(f, st2[1]) ELSE x \in HeldBy(f, st)
<1>1. Len(st) \in Nat /\ \A i \in 1..Len(st) : i = 1 \/ (i \in 2..Len(st) /\ 1 < i)
  BY DEF Shape
<1>2. \A i \in 2..Len(st) : st[i].node # st[1].node
  <2>1. SUFFICES ASSUME NEW i \in 2..Len(st) PROVE st[i].node # st[1].node
    OBVIOUS
  <2>2. i \in 1..Len(st) /\ 1 < i
    BY <1>1
  <2>3. st[1].node > st[i].node
    BY <2>2 DEF Shape
  <2>4. st[1].node \in Nat /\ st[i].node \in Nat
    BY <2>2, ShapeFacts
  <2>. QED
    BY <2>3, <2>4
<1>3. SUFFICES ASSUME NEW x
               PROVE  x \in HeldBy(f, st2) <=>
                        IF x = st[1].node THEN Held(f, st2[1]) ELSE x \in HeldBy(f, st)
  OBVIOUS
<1>4. x \in HeldBy(f, st2) <=> \E i \in 1..Len(st) : Held(f, st2[i]) /\ x = st2[i].node
  BY DEF HeldBy
<1>5. x \in HeldBy(f, st) <=> \E i \in 1..Len(st) : Held(f, st[i]) /\ x = st[i].node
  BY DEF HeldBy
<1>6. CASE x = st[1].node
  BY <1>1, <1>2, <1>4, <1>6
<1>7. CASE x # st[1].node
  BY <1>1, <1>4, <1>5, <1>7
<1>. QED
  BY <1>6, <1>7

GoesInHolding(f, st, st2) ==
  /\ Len(st) \in Nat /\ Len(st2) = Len(st) + 1 /\ 1 \in 1..Len(st)
  /\ ~Held(f, st2[1]) /\ st2[2].node = st[1].node
  /\ Held(f, st2[2]) <=> Held(f, st[1])
  /\ \A i \in 2..Len(st) : st2[i + 1] = st[i]

LEMMA HeldPushed ==
  ASSUME NEW f, NEW st, NEW st2, GoesInHolding(f, st, st2)
  PROVE  HeldBy(f, st2) = HeldBy(f, st)
<1>0. /\ Len(st) \in Nat /\ Len(st2) = Len(st) + 1 /\ 1 \in 1..Len(st)
      /\ ~Held(f, st2[1]) /\ st2[2].node = st[1].node
      /\ Held(f, st2[2]) <=> Held(f, st[1])
      /\ \A i \in 2..Len(st) : st2[i + 1] = st[i]
  BY DEF GoesInHolding
<1>. USE <1>0
<1>1. \A i \in 1..Len(st) : /\ i + 1 \in 1..Len(st2)
                            /\ st2[i + 1].node = st[i].node
                            /\ Held(f, st2[i + 1]) <=> Held(f, st[i])
  <2>1. SUFFICES ASSUME NEW i \in 1..Len(st)
                 PROVE  /\ i + 1 \in 1..Len(st2)
                        /\ st2[i + 1].node = st[i].node
                        /\ Held(f, st2[i + 1]) <=> Held(f, st[i])
    OBVIOUS
  <2>2. CASE i = 1
    <3>1. i + 1 = 2
      BY <2>2
    <3>. QED
      BY <2>2, <3>1
  <2>3. CASE i # 1
    <3>1. i \in 2..Len(st) /\ i + 1 \in 1..Len(st2)
      BY <2>3
    <3>. QED
      BY <3>1
  <2>. QED
    BY <2>2, <2>3
<1>2. \A k \in 1..Len(st2) : k = 1 \/ (k - 1 \in 1..Len(st) /\ (k - 1) + 1 = k)
  OBVIOUS
<1>3. ASSUME NEW x \in HeldBy(f, st2) PROVE x \in HeldBy(f, st)
  <2>1. PICK k \in 1..Len(st2) : Held(f, st2[k]) /\ x = st2[k].node
    BY DEF HeldBy
  <2>2. k # 1
    BY <2>1
  <2>. DEFINE i == k - 1
  <2>3. i \in 1..Len(st) /\ i + 1 = k
    BY <1>2, <2>2
  <2>. HIDE DEF i
  <2>4. Held(f, st[i]) /\ x = st[i].node
    BY <1>1, <2>1, <2>3
  <2>. QED
    BY <2>3, <2>4 DEF HeldBy
<1>4. ASSUME NEW x \in HeldBy(f, st) PROVE x \in HeldBy(f, st2)
  <2>1. PICK i \in 1..Len(st) : Held(f, st[i]) /\ x = st[i].node
    BY DEF HeldBy
  <2>2. i + 1 \in 1..Len(st2) /\ Held(f, st2[i + 1]) /\ x = st2[i + 1].node
    BY <1>1, <2>1
  <2>. QED
    BY <2>2 DEF HeldBy
<1>. QED
  BY <1>3, <1>4

LEMMA HeldPopped ==
  ASSUME NEW f, IsTree(f), NEW st, Shape(f, st), NEW st2, 1 \in 1..Len(st),
         Len(st2) = Len(st) - 1, \A i \in 1..(Len(st) - 1) : st2[i] = st[i + 1]
  PROVE  \A x : x \in HeldBy(f, st2) <=> x # st[1].node /\ x \in HeldBy(f, st)
<1>1. Len(st) \in Nat /\ Len(st2) \in Nat
  BY DEF Shape
<1>2. \A i \in 1..Len(st2) : i + 1 \in 1..Len(st) /\ st2[i] = st[i + 1] /\ 1 < i + 1
  BY <1>1
<1>3. ASSUME NEW x \in HeldBy(f, st2) PROVE x # st[1].node /\ x \in HeldBy(f, st)
  <2>1. PICK k \in 1..Len(st2) : Held(f, st2[k]) /\ x = st2[k].node
    BY DEF HeldBy
  <2>2. k + 1 \in 1..Len(st) /\ st2[k] = st[k + 1] /\ 1 < k + 1
    BY <1>2
  <2>3. st[1].node > st[k + 1].node
    BY <2>2 DEF Shape
  <2>4. st[1].node \in Nat /\ st[k + 1].node \in Nat
    BY <2>2, ShapeFacts
  <2>5. x # st[1].node
    BY <2>1, <2>2, <2>3, <2>4
  <2>. QED
    BY <2>1, <2>2, <2>5 DEF HeldBy
<1>4. ASSUME NEW x \in HeldBy(f, st), x # st[1].node PROVE x \in HeldBy(f, st2)
  <2>1. PICK i \in 1..Len(st) : Held(f, st[i]) /\ x = st[i].node
    BY DEF HeldBy
  <2>2. i # 1
    BY <1>4, <2>1
  <2>. DEFINE k == i - 1
  <2>3. k \in 1..Len(st2) /\ k + 1 = i
    BY <1>1, <2>2
  <2>. HIDE DEF k
  <2>4. Held(f, st2[k]) /\ x = st2[k].node
    BY <1>2, <2>1, <2>3
  <2>. QED
    BY <2>3, <2>4 DEF HeldBy
<1>. QED
  BY <1>3, <1>4

(***************************************************************************)
(* The four things a step of a walk does: it goes on in the same call,     *)
(* returns, declares a leaf or goes into a scope.                          *)
(***************************************************************************)
LEMMA OwedFinite ==
  ASSUME NEW f, IsTree(f), NEW st
  PROVE  IsFiniteSet(Owed(f, st)) /\ Cardinality(Owed(f, st)) \in Nat
<1>1. Owed(f, st) \in SUBSET DOMAIN f.name /\ IsFiniteSet(DOMAIN f.name)
  BY TreeFacts DEF Owed, Leaves
<1>2. IsFiniteSet(Owed(f, st))
  BY <1>1, FS_Subset
<1>. QED
  BY <1>2, FS_CardinalityType

LEMMA StepOn ==
  ASSUME NEW f, IsTree(f), NEW st, NEW its, NEW cached, WalkInv(f, st, its, cached), st # << >>,
         NEW fr, FrameOK(f, fr), fr.node = st[1].node, Ahead(f, fr) = Ahead(f, st[1]),
         NEW st2, st2 = <<fr>> \o Tail(st),
         NEW its2, its2 = IF Held(f, fr) THEN its \cup {fr.node} ELSE its \ {fr.node}
  PROVE  WalkInv(f, st2, its2, cached)
<1>1. /\ st \in Seq(Frames(f)) /\ Shape(f, st) /\ its = HeldBy(f, st)
      /\ \A i \in 1..Len(st) : FrameOK(f, st[i])
      /\ \A i \in 2..Len(st) : st[i].stage \in {"visit", "scopes"}
      /\ Declares(cached) /\ \E S : cached \in Seq(S)
      /\ Len(cached) + Cardinality(Owed(f, st)) = Cardinality(LeavesOf(f))
  BY DEF WalkInv
<1>2. fr \in Frames(f)
  BY DEF FrameOK
<1>3. /\ st2 \in Seq(Frames(f)) /\ Len(st2) = Len(st) /\ Len(st) \in Nat /\ 1 \in 1..Len(st)
      /\ st2[1] = fr /\ \A i \in 2..Len(st) : st2[i] = st[i]
  BY <1>1, <1>2, Replaced
<1>4. Shape(f, st2) /\ Owed(f, st2) = Owed(f, st)
  BY <1>1, <1>3, GoesOn
<1>5. \A x : x \in HeldBy(f, st2) <=>
               IF x = st[1].node THEN Held(f, st2[1]) ELSE x \in HeldBy(f, st)
  BY <1>1, <1>3, HeldReplaced
<1>6. its2 = HeldBy(f, st2)
  BY <1>1, <1>3, <1>5
<1>7. \A i \in 1..Len(st2) : FrameOK(f, st2[i])
  <2>1. \A i \in 1..Len(st2) : i = 1 \/ i \in 2..Len(st)
    BY <1>3
  <2>. QED
    BY <1>1, <1>3, <2>1
<1>8. \A i \in 2..Len(st2) : st2[i].stage \in {"visit", "scopes"}
  BY <1>1, <1>3
<1>. QED
  BY <1>1, <1>3, <1>4, <1>6, <1>7, <1>8 DEF WalkInv

LEMMA StepBack ==
  ASSUME NEW f, IsTree(f), NEW st, NEW its, NEW cached, WalkInv(f, st, its, cached), st # << >>,
         Ahead(f, st[1]) = {}, NEW st2, st2 = Tail(st), NEW its2, its2 = its \ {st[1].node}
  PROVE  WalkInv(f, st2, its2, cached)
<1>1. /\ st \in Seq(Frames(f)) /\ Shape(f, st) /\ its = HeldBy(f, st)
      /\ \A i \in 1..Len(st) : FrameOK(f, st[i])
      /\ \A i \in 2..Len(st) : st[i].stage \in {"visit", "scopes"}
      /\ Declares(cached) /\ \E S : cached \in Seq(S)
      /\ Len(cached) + Cardinality(Owed(f, st)) = Cardinality(LeavesOf(f))
  BY DEF WalkInv
<1>2. /\ st2 \in Seq(Frames(f)) /\ Len(st2) = Len(st) - 1 /\ Len(st) \in Nat /\ 1 \in 1..Len(st)
      /\ \A i \in 1..(Len(st) - 1) : st2[i] = st[i + 1]
  BY <1>1, Popped
<1>3. Shape(f, st2) /\ Owed(f, st2) = Owed(f, st)
  BY <1>1, <1>2, ComesBack
<1>4. \A x : x \in HeldBy(f, st2) <=> x # st[1].node /\ x \in HeldBy(f, st)
  BY <1>1, <1>2, HeldPopped
<1>5. its2 = HeldBy(f, st2)
  BY <1>1, <1>4
<1>6. \A i \in 1..Len(st2) : i + 1 \in 2..Len(st) /\ i + 1 \in 1..Len(st) /\ st2[i] = st[i + 1]
  BY <1>2
<1>7. \A i \in 1..Len(st2) : FrameOK(f, st2[i])
  BY <1>1, <1>6
<1>8. \A i \in 2..Len(st2) : st2[i].stage \in {"visit", "scopes"}
  <2>1. \A i \in 2..Len(st2) : i \in 1..Len(st2)
    BY <1>2
  <2>. QED
    BY <1>1, <1>6, <2>1
<1>. QED
  BY <1>1, <1>2, <1>3, <1>5, <1>7, <1>8 DEF WalkInv

LEMMA StepLeaf ==
  ASSUME NEW f, IsTree(f), NEW st, NEW its, NEW cached, WalkInv(f, st, its, cached), st # << >>,
         NEW n \in Ahead(f, st[1]), n \notin f.scopes,
         NEW fr, FrameOK(f, fr), fr.node = st[1].node, Ahead(f, fr) = Ahead(f, st[1]) \ {n},
         Held(f, fr) <=> Held(f, st[1]),
         NEW st2, st2 = <<fr>> \o Tail(st),
         NEW d, IsDecl(d),
         NEW cached2, cached2 = Append(cached, d)
  PROVE  WalkInv(f, st2, its, cached2)
<1>1. /\ st \in Seq(Frames(f)) /\ Shape(f, st) /\ its = HeldBy(f, st)
      /\ \A i \in 1..Len(st) : FrameOK(f, st[i])
      /\ \A i \in 2..Len(st) : st[i].stage \in {"visit", "scopes"}
      /\ Declares(cached) /\ \E S : cached \in Seq(S)
      /\ Len(cached) + Cardinality(Owed(f, st)) = Cardinality(LeavesOf(f))
  BY DEF WalkInv
<1>2. fr \in Frames(f)
  BY DEF FrameOK
<1>3. /\ st2 \in Seq(Frames(f)) /\ Len(st2) = Len(st) /\ Len(st) \in Nat /\ 1 \in 1..Len(st)
      /\ st2[1] = fr /\ \A i \in 2..Len(st) : st2[i] = st[i]
  BY <1>1, <1>2, Replaced
<1>4. Shape(f, st2) /\ n \in Owed(f, st) /\ Owed(f, st2) = Owed(f, st) \ {n}
  <2>1. Shape(f, st)
    BY <1>1
  <2>2. Len(st2) = Len(st) /\ 1 \in 1..Len(st)
    BY <1>3
  <2>3. st2[1].node = st[1].node
    BY <1>3
  <2>4. Ahead(f, st2[1]) = Ahead(f, st[1]) \ {n}
    BY <1>3
  <2>5. \A i \in 2..Len(st) : st2[i] = st[i]
    BY <1>3
  <2>. QED
    <3>1. Settles(f, st, st2, n)
      BY <2>2, <2>3, <2>4, <2>5 DEF Settles
    <3>. QED
      BY <2>1, <3>1, LeafSettled
<1>5. \A x : x \in HeldBy(f, st2) <=>
               IF x = st[1].node THEN Held(f, st2[1]) ELSE x \in HeldBy(f, st)
  BY <1>1, <1>3, HeldReplaced
<1>6. st[1].node \in HeldBy(f, st) <=> Held(f, st[1])
  <2>1. \A x : x \in HeldBy(f, st) <=>
               IF x = st[1].node THEN Held(f, st[1]) ELSE x \in HeldBy(f, st)
    BY <1>1, <1>3, HeldReplaced
  <2>. QED
    BY <2>1
<1>7. its = HeldBy(f, st2)
  <2>1. \A x : x \in HeldBy(f, st2) <=> x \in HeldBy(f, st)
    BY <1>3, <1>5, <1>6
  <2>. QED
    BY <1>1, <2>1
<1>8. \A i \in 1..Len(st2) : FrameOK(f, st2[i])
  <2>1. \A i \in 1..Len(st2) : i = 1 \/ i \in 2..Len(st)
    BY <1>3
  <2>. QED
    BY <1>1, <1>3, <2>1
<1>9. \A i \in 2..Len(st2) : st2[i].stage \in {"visit", "scopes"}
  BY <1>1, <1>3
<1>10. /\ Declares(cached2) /\ \E S : cached2 \in Seq(S)
       /\ Len(cached2) = Len(cached) + 1 /\ Len(cached) \in Nat
  <2>1. PICK S : cached \in Seq(S)
    BY <1>1
  <2>2. cached \in Seq(S \cup {d}) /\ d \in S \cup {d}
    BY <2>1
  <2>3. /\ cached2 \in Seq(S \cup {d}) /\ Len(cached2) = Len(cached) + 1 /\ Len(cached) \in Nat
        /\ cached2[Len(cached) + 1] = d
        /\ \A i \in 1..Len(cached) : cached2[i] = cached[i]
    BY <2>2
  <2>4. DOMAIN cached2 = 1..Len(cached2)
    BY <2>3
  <2>5. \A i \in 1..Len(cached2) : IsDecl(cached2[i])
    <3>1. \A i \in 1..Len(cached2) : i \in 1..Len(cached) \/ i = Len(cached) + 1
      BY <2>3
    <3>2. \A i \in 1..Len(cached) : IsDecl(cached[i])
      BY <1>1 DEF Declares
    <3>. QED
      BY <2>3, <3>1, <3>2
  <2>6. Declares(cached2)
    BY <2>3, <2>4, <2>5 DEF Declares
  <2>. QED
    BY <2>3, <2>6
<1>11. Cardinality(Owed(f, st2)) = Cardinality(Owed(f, st)) - 1
  BY <1>4, OwedFinite, FS_RemoveElement
<1>12. Cardinality(Owed(f, st)) \in Nat /\ Cardinality(Owed(f, st2)) \in Nat
  BY OwedFinite
<1>13. Len(cached2) + Cardinality(Owed(f, st2)) = Cardinality(LeavesOf(f))
  BY <1>1, <1>10, <1>11, <1>12
<1>. QED
  BY <1>3, <1>4, <1>7, <1>8, <1>9, <1>10, <1>13 DEF WalkInv

LEMMA StepIn ==
  ASSUME NEW f, IsTree(f), NEW st, NEW its, NEW cached, WalkInv(f, st, its, cached), st # << >>,
         NEW n \in Ahead(f, st[1]), n \in f.scopes,
         NEW fr, FrameOK(f, fr), fr.node = st[1].node, Ahead(f, fr) = Ahead(f, st[1]) \ {n},
         Held(f, fr) <=> Held(f, st[1]), fr.stage \in {"visit", "scopes"},
         NEW new, FrameOK(f, new), new.node = n, new.stage = "enter",
         NEW st2, st2 = <<new, fr>> \o Tail(st)
  PROVE  WalkInv(f, st2, its, cached)
<1>1. /\ st \in Seq(Frames(f)) /\ Shape(f, st) /\ its = HeldBy(f, st)
      /\ \A i \in 1..Len(st) : FrameOK(f, st[i])
      /\ \A i \in 2..Len(st) : st[i].stage \in {"visit", "scopes"}
      /\ Declares(cached) /\ \E S : cached \in Seq(S)
      /\ Len(cached) + Cardinality(Owed(f, st)) = Cardinality(LeavesOf(f))
  BY DEF WalkInv
<1>2. fr \in Frames(f) /\ new \in Frames(f)
  BY DEF FrameOK
<1>3. /\ st2 \in Seq(Frames(f)) /\ Len(st2) = Len(st) + 1 /\ Len(st) \in Nat /\ 1 \in 1..Len(st)
      /\ st2[1] = new /\ st2[2] = fr /\ \A i \in 2..Len(st) : st2[i + 1] = st[i]
  BY <1>1, <1>2, Pushed
<1>4. n # 0
  BY TreeFacts
<1>5. Ahead(f, new) = Kin(f, n) /\ ~Held(f, new)
  BY <1>4 DEF Ahead, Held
<1>6. Shape(f, st2) /\ Owed(f, st2) = Owed(f, st)
  <2>1. Shape(f, st)
    BY <1>1
  <2>2. Len(st2) = Len(st) + 1 /\ 1 \in 1..Len(st)
    BY <1>3
  <2>3. st2[1].node = n
    BY <1>3
  <2>4. Ahead(f, st2[1]) = Kin(f, n)
    BY <1>3, <1>5
  <2>5. st2[2].node = st[1].node
    BY <1>3
  <2>6. Ahead(f, st2[2]) = Ahead(f, st[1]) \ {n}
    BY <1>3
  <2>7. \A i \in 2..Len(st) : st2[i + 1] = st[i]
    BY <1>3
  <2>. QED
    <3>1. Enters(f, st, st2, n)
      BY <2>2, <2>3, <2>4, <2>5, <2>6, <2>7 DEF Enters
    <3>. QED
      BY <2>1, <3>1, GoesIn
<1>7. HeldBy(f, st2) = HeldBy(f, st)
  <2>1. Len(st) \in Nat
    BY <1>3
  <2>2. Len(st2) = Len(st) + 1 /\ 1 \in 1..Len(st)
    BY <1>3
  <2>3. ~Held(f, st2[1])
    BY <1>3, <1>5
  <2>4. st2[2].node = st[1].node
    BY <1>3
  <2>5. Held(f, st2[2]) <=> Held(f, st[1])
    BY <1>3
  <2>6. \A i \in 2..Len(st) : st2[i + 1] = st[i]
    BY <1>3
  <2>. QED
    <3>1. GoesInHolding(f, st, st2)
      BY <2>1, <2>2, <2>3, <2>4, <2>5, <2>6 DEF GoesInHolding
    <3>. QED
      BY <3>1, HeldPushed
<1>8. \A k \in 3..Len(st2) : st2[k] = st[k - 1] /\ k - 1 \in 2..Len(st) /\ k - 1 \in 1..Len(st)
  <2>1. SUFFICES ASSUME NEW k \in 3..Len(st2)
                 PROVE  st2[k] = st[k - 1] /\ k - 1 \in 2..Len(st) /\ k - 1 \in 1..Len(st)
    OBVIOUS
  <2>2. k - 1 \in 2..Len(st) /\ (k - 1) + 1 = k /\ k - 1 \in 1..Len(st)
    BY <1>3
  <2>3. st2[(k - 1) + 1] = st[k - 1]
    BY <1>3, <2>2
  <2>. QED
    BY <2>2, <2>3
<1>9. \A k \in 1..Len(st2) : k = 1 \/ k = 2 \/ k \in 3..Len(st2)
  BY <1>3
<1>10. \A k \in 1..Len(st2) : FrameOK(f, st2[k])
  BY <1>1, <1>3, <1>8, <1>9
<1>11. \A k \in 2..Len(st2) : st2[k].stage \in {"visit", "scopes"}
  <2>1. \A k \in 2..Len(st2) : k = 2 \/ k \in 3..Len(st2)
    BY <1>3
  <2>. QED
    BY <1>1, <1>3, <1>8, <2>1
<1>. QED
  BY <1>1, <1>3, <1>6, <1>7, <1>10, <1>11 DEF WalkInv

(***************************************************************************)
(* What the walks put together: paths, declarations, lists of children.    *)
(***************************************************************************)
LEMMA JoinFacts ==
  ASSUME NEW p \in Text, NEW n \in Text
  PROVE  Join(p, n) \in Text /\ (p # << >> \/ n # << >> => Join(p, n) # << >>)
<1>1. CASE p = << >>
  BY <1>1 DEF Join
<1>2. CASE p # << >> /\ n = << >>
  BY <1>2 DEF Join
<1>3. CASE p # << >> /\ n # << >>
  <2>1. Join(p, n) = p \o <<Sep>> \o n
    BY <1>3 DEF Join
  <2>2. <<Sep>> \in Text /\ Len(<<Sep>>) = 1
    BY DEF Text
  <2>3. p \o <<Sep>> \in Text /\ Len(p \o <<Sep>>) = Len(p) + 1
    BY <2>2, ConcatProperties DEF Text
  <2>4. (p \o <<Sep>>) \o n \in Text /\ Len((p \o <<Sep>>) \o n) = Len(p) + 1 + Len(n)
    BY <2>3, ConcatProperties DEF Text
  <2>5. Len(p) \in Nat /\ Len(n) \in Nat
    BY TextFacts
  <2>6. Len(Join(p, n)) # 0
    BY <2>1, <2>4, <2>5
  <2>7. Join(p, n) \in Text
    BY <2>1, <2>4
  <2>8. Len(<< >>) = 0
    OBVIOUS
  <2>. QED
    BY <2>6, <2>7, <2>8
<1>. QED
  BY <1>1, <1>2, <1>3

(* A set of naturals with an upper bound has a greatest element.           *)
LEMMA GreatestNatural ==
  ASSUME NEW S \in SUBSET Nat, S # {}, NEW n \in Nat, \A x \in S : x <= n
  PROVE  \E p \in S : \A r \in S : r <= p
<1>. DEFINE T == {n - x : x \in S}
<1>1. T \in SUBSET Nat /\ T # {}
  <2>1. \A x \in S : n - x \in Nat
    OBVIOUS
  <2>2. PICK x \in S : TRUE
    OBVIOUS
  <2>3. n - x \in T
    BY <2>2
  <2>. QED
    BY <2>1, <2>3
<1>2. PICK q \in T : \A r \in T : q <= r
  <2>. HIDE DEF T
  <2>. QED
    BY <1>1, LeastNatural
<1>3. PICK p \in S : q = n - p
  BY <1>2
<1>4. \A r \in S : n - p <= n - r
  BY <1>2, <1>3
<1>5. \A r \in S : r \in Nat /\ p \in Nat
  OBVIOUS
<1>6. \A r \in S : r <= p
  BY <1>4, <1>5
<1>. QED
  BY <1>6

LEMMA SubText ==
  ASSUME NEW s \in Text, NEW k \in Int, k <= Len(s)
  PROVE  SubSeq(s, 1, k) \in Text
<1>1. s \in Seq(Symbol) /\ Len(s) \in Nat
  BY TextFacts DEF Text, Symbol
<1>2. CASE k < 1
  BY <1>1, <1>2, SubSeqEmpty DEF Text
<1>3. CASE k >= 1
  <2>1. 1 \in 1..(Len(s) + 1) /\ k \in 0..Len(s)
    BY <1>1, <1>3
  <2>2. SubSeq(s, 1, k) \in Seq(Symbol)
    BY <1>1, <2>1, SubSeqProperties
  <2>. QED
    BY <2>2 DEF Text, Symbol
<1>. QED
  BY <1>2, <1>3

LEMMA LeafIsDecl ==
  ASSUME NEW n, NEW path \in Text, NEW scope \in Text
  PROVE  IsDecl(leaf_to_decl(n, path, scope))
BY DEF IsDecl, leaf_to_decl

LEMMA RecordIsDecl ==
  ASSUME NEW n, NEW full \in Text
  PROVE  IsDecl(RecordSig(n, full))
<1>. DEFINE seps == {i \in DOMAIN full : full[i] = Sep}
            last == CHOOSE i \in seps : \A j \in seps : j <= i
            scope == IF seps = {} THEN << >> ELSE SubSeq(full, 1, last - 1)
<1>1. Len(full) \in Nat /\ DOMAIN full = 1..Len(full) /\ \A i \in 1..Len(full) : full[i] \in Symbol
  BY TextFacts
<1>2. scope \in Text
  <2>1. CASE seps = {}
    BY <2>1 DEF Text
  <2>2. CASE seps # {}
    <3>1. \E i \in seps : \A j \in seps : j <= i
      <4>1. seps \in SUBSET Nat /\ \A i \in seps : i <= Len(full)
        BY <1>1
      <4>. HIDE DEF seps
      <4>. QED
        BY <1>1, <2>2, <4>1, GreatestNatural
    <3>2. last \in seps
      BY <3>1
    <3>3. last \in 1..Len(full)
      BY <1>1, <3>2
    <3>4. scope = SubSeq(full, 1, last - 1)
      BY <2>2
    <3>. HIDE DEF last, seps, scope
    <3>5. last - 1 \in Int /\ last - 1 <= Len(full)
      BY <1>1, <3>3
    <3>. QED
      BY <3>4, <3>5, SubText
  <2>. QED
    BY <2>1, <2>2
<1>3. /\ RecordSig(n, full).path = full /\ RecordSig(n, full).scope = scope
      /\ {"path", "scope", "sid", "type"} \subseteq DOMAIN RecordSig(n, full)
  BY DEF RecordSig
<1>. QED
  BY <1>2, <1>3 DEF IsDecl

LEMMA WellenIsDecl ==
  ASSUME NEW v, v.full \in Text, v.local \in Text, v.range \in Text
  PROVE  IsDecl(WellenDecl(v))
<1>. DEFINE scope == SubSeq(v.full, 1, Len(v.full) - Len(v.local) - 1)
            kept == IF v.full = scope \o <<Sep>> \o v.local THEN scope ELSE << >>
            path == IF v.width > 1 THEN v.full \o v.range ELSE v.full
<1>1. Len(v.full) \in Nat /\ Len(v.local) \in Nat
  BY TextFacts
<1>2. scope \in Text
  <2>1. Len(v.full) - Len(v.local) - 1 \in Int
        /\ Len(v.full) - Len(v.local) - 1 <= Len(v.full)
    <3>1. \A a, b \in Nat : a - b - 1 \in Int /\ a - b - 1 <= a
      OBVIOUS
    <3>. QED
      BY <1>1, <3>1, Zenon
  <2>. QED
    BY <2>1, SubText
<1>3. kept \in Text
  <2>1. << >> \in Text
    BY DEF Text
  <2>. HIDE DEF scope
  <2>. QED
    BY <1>2, <2>1
<1>4. path \in Text
  BY ConcatProperties DEF Text
<1>5. /\ WellenDecl(v).path = path /\ WellenDecl(v).scope = kept
      /\ {"path", "scope", "sid", "type"} \subseteq DOMAIN WellenDecl(v)
  BY DEF WellenDecl
<1>. QED
  BY <1>3, <1>4, <1>5 DEF IsDecl

(* Kids lists the children of one sort, each once.                         *)
LEMMA KidsFacts ==
  ASSUME IsTree(file), NEW n \in Nodes(file), NEW wanted \in BOOLEAN
  PROVE  /\ Kids(n, wanted) \in Seq(DOMAIN file.name)
         /\ \A i, j \in 1..Len(Kids(n, wanted)) :
              Kids(n, wanted)[i] = Kids(n, wanted)[j] => i = j
         /\ \A c : c \in Items(Kids(n, wanted)) <=>
                     c \in Kin(file, n) /\ ((c \in file.scopes) = wanted)
<1>. DEFINE kids == file.children[n]
            at == {i \in DOMAIN kids : (kids[i] \in file.scopes) = wanted}
            R == {p \in at \X at : p[1] < p[2]}
            order == InOrder(at, R)
            size == Cardinality(at)
<1>1. /\ kids \in Seq(DOMAIN file.name)
      /\ \A i, j \in DOMAIN kids : kids[i] = kids[j] => i = j
  BY TreeFacts
<1>2. Len(kids) \in Nat /\ DOMAIN kids = 1..Len(kids)
      /\ \A i \in 1..Len(kids) : kids[i] \in DOMAIN file.name
  <2>. HIDE DEF kids
  <2>. QED
    BY <1>1
<1>3. IsFiniteSet(at)
  <2>1. IsFiniteSet(1..Len(kids))
    <3>1. 1 \in Int /\ Len(kids) \in Int
      BY <1>2
    <3>. HIDE DEF kids
    <3>. QED
      BY <3>1, FS_Interval
  <2>2. at \in SUBSET (1..Len(kids))
    BY <1>2
  <2>. HIDE DEF at
  <2>. QED
    BY <2>1, <2>2, FS_Subset
<1>4. StrictTotal(at, R)
  <2>1. at \subseteq Nat
    BY <1>2
  <2>2. \A i, j \in at : <<i, j>> \in R <=> i < j
    OBVIOUS
  <2>. HIDE DEF at, R
  <2>. QED
    BY <2>1, <2>2 DEF StrictTotal
<1>5. /\ size \in Nat /\ DOMAIN order = 1..size
      /\ \A k \in 1..size : order[k] \in at
      /\ \A k, m \in 1..size : k < m => <<order[k], order[m]>> \in R
      /\ \A x \in at : \E k \in 1..size : order[k] = x
  <2>. HIDE DEF at, R
  <2>. QED
    BY <1>3, <1>4, InOrderFacts
<1>6. Kids(n, wanted) = [k \in 1..size |-> kids[order[k]]]
  <2>1. Kids(n, wanted) = [k \in DOMAIN order |-> kids[order[k]]]
    BY DEF Kids
  <2>. HIDE DEF order, kids
  <2>. QED
    BY <1>5, <2>1
<1>7. \A k \in 1..size : order[k] \in DOMAIN kids
  BY <1>5
<1>8. \A k, m \in 1..size : order[k] = order[m] => k = m
  <2>1. SUFFICES ASSUME NEW k \in 1..size, NEW m \in 1..size, k < m PROVE order[k] # order[m]
    <3>. HIDE DEF order, size
    <3>1. size \in Nat
      BY <1>5
    <3>2. \A k, m \in 1..size : k = m \/ k < m \/ m < k
      BY <3>1
    <3>. QED
      BY <3>2
  <2>2. <<order[k], order[m]>> \in R
    BY <1>5, <2>1
  <2>3. order[k] < order[m] /\ order[k] \in Nat /\ order[m] \in Nat
    <3>1. order[k] \in 1..Len(kids) /\ order[m] \in 1..Len(kids)
      BY <1>2, <1>7
    <3>2. order[k] < order[m]
      <4>. HIDE DEF order, at
      <4>. QED
        BY <2>2
    <3>3. \A x \in 1..Len(kids) : x \in Nat
      BY <1>2
    <3>. HIDE DEF order, kids
    <3>. QED
      BY <3>1, <3>2, <3>3
  <2>. HIDE DEF order
  <2>. QED
    BY <2>3
<1>9. \A c : c \in Kin(file, n) /\ ((c \in file.scopes) = wanted) <=> \E i \in at : kids[i] = c
  BY DEF Kin
<1>. HIDE DEF order, at, R, size, kids
<1>10. Kids(n, wanted) \in [1..size -> DOMAIN file.name]
  BY <1>1, <1>2, <1>6, <1>7
<1>11. Kids(n, wanted) \in Seq(DOMAIN file.name) /\ Len(Kids(n, wanted)) = size
  BY <1>5, <1>10
<1>12. \A k \in 1..size : Kids(n, wanted)[k] = kids[order[k]]
  BY <1>6
<1>13. \A i, j \in 1..Len(Kids(n, wanted)) : Kids(n, wanted)[i] = Kids(n, wanted)[j] => i = j
  <2>1. SUFFICES ASSUME NEW i \in 1..size, NEW j \in 1..size,
                        Kids(n, wanted)[i] = Kids(n, wanted)[j]
                 PROVE  i = j
    BY <1>11
  <2>2. kids[order[i]] = kids[order[j]]
    BY <1>12, <2>1
  <2>3. order[i] = order[j]
    BY <1>1, <1>7, <2>2
  <2>. QED
    BY <1>8, <2>3
<1>14. \A c : c \in Items(Kids(n, wanted)) <=> \E i \in at : kids[i] = c
  <2>1. \A c : c \in Items(Kids(n, wanted)) <=> \E k \in 1..size : c = kids[order[k]]
    BY <1>11, <1>12 DEF Items
  <2>. QED
    BY <1>5, <2>1
<1>. QED
  BY <1>9, <1>11, <1>13, <1>14

(***************************************************************************)
(* Each step of a walk is one of the four.                                 *)
(***************************************************************************)
Walks == file \in Files /\ file.format # "wellen" /\ WalkInv(file, stack, iterators, cache)

LEMMA FileFacts ==
  ASSUME NEW f \in Files
  PROVE  /\ f.format \in {"wlf", "fsdb", "wellen"}
         /\ f.format # "wellen" =>
              IsTree(f) /\ \A n \in DOMAIN f.name : f.name[n] \in Text
         /\ f.format = "fsdb" => \A n \in f.scopes : f.name[n] # << >>
BY FilesAssumption

(* The list of what a call has yet to visit, one taken off.                *)
LEMMA TodoFacts ==
  ASSUME NEW S, NEW q \in Seq(S), q # << >>, \A i, j \in 1..Len(q) : q[i] = q[j] => i = j
  PROVE  /\ Head(q) \in Items(q) /\ Head(q) \in S /\ Tail(q) \in Seq(S)
         /\ \A i, j \in 1..Len(Tail(q)) : Tail(q)[i] = Tail(q)[j] => i = j
         /\ Items(Tail(q)) = Items(q) \ {Head(q)}
<1>1. Len(q) \in Nat /\ Len(q) # 0 /\ Head(q) = q[1]
  OBVIOUS
<1>2. /\ Tail(q) \in Seq(S) /\ Len(Tail(q)) = Len(q) - 1
      /\ \A i \in 1..(Len(q) - 1) : Tail(q)[i] = q[i + 1]
  BY <1>1
<1>3. 1 \in 1..Len(q) /\ Head(q) \in Items(q) /\ Head(q) \in S
  BY <1>1 DEF Items
<1>4. ASSUME NEW i \in 1..Len(Tail(q)), NEW j \in 1..Len(Tail(q)), Tail(q)[i] = Tail(q)[j]
      PROVE  i = j
  <2>1. i \in 1..(Len(q) - 1) /\ j \in 1..(Len(q) - 1)
    BY <1>2
  <2>2. q[i + 1] = q[j + 1] /\ i + 1 \in 1..Len(q) /\ j + 1 \in 1..Len(q)
    BY <1>1, <1>2, <1>4, <2>1
  <2>3. i + 1 = j + 1
    BY <2>2
  <2>. QED
    BY <2>1, <2>3
<1>5. \A x : x \in Items(Tail(q)) <=> x \in Items(q) /\ x # Head(q)
  <2>1. ASSUME NEW x \in Items(Tail(q)) PROVE x \in Items(q) /\ x # Head(q)
    <3>1. PICK i \in 1..Len(Tail(q)) : x = Tail(q)[i]
      BY DEF Items
    <3>2. i \in 1..(Len(q) - 1)
      BY <1>2, <3>1
    <3>3. x = q[i + 1] /\ i + 1 \in 1..Len(q) /\ i + 1 # 1
      BY <1>1, <1>2, <3>1, <3>2
    <3>4. x \in Items(q)
      BY <3>3 DEF Items
    <3>5. x # q[1]
      BY <1>3, <3>3
    <3>. QED
      BY <1>1, <3>4, <3>5
  <2>2. ASSUME NEW x \in Items(q), x # Head(q) PROVE x \in Items(Tail(q))
    <3>1. PICK i \in 1..Len(q) : x = q[i]
      BY DEF Items
    <3>2. i # 1
      BY <1>1, <2>2, <3>1
    <3>3. i - 1 \in 1..(Len(q) - 1) /\ (i - 1) + 1 = i
      BY <1>1, <3>2
    <3>4. Tail(q)[i - 1] = q[(i - 1) + 1] /\ i - 1 \in 1..Len(Tail(q))
      BY <1>2, <3>3
    <3>5. x = Tail(q)[i - 1]
      BY <3>1, <3>3, <3>4
    <3>. QED
      BY <3>4, <3>5 DEF Items
  <2>. QED
    BY <2>1, <2>2
<1>. QED
  BY <1>2, <1>3, <1>4, <1>5

LEMMA TopFacts ==
  ASSUME Walks, stack # << >>
  PROVE  /\ IsTree(file) /\ Top = stack[1] /\ FrameOK(file, Top) /\ Top \in Frames(file)
         /\ Top.node \in Nodes(file) /\ Top.path \in Text /\ Top.todo \in Seq(DOMAIN file.name)
         /\ Ahead(file, Top) \subseteq Kin(file, Top.node)
         /\ Top.node \in iterators <=> Held(file, Top)
<1>1. IsTree(file)
  BY FileFacts DEF Walks
<1>2. /\ stack \in Seq(Frames(file)) /\ Shape(file, stack) /\ iterators = HeldBy(file, stack)
      /\ \A i \in 1..Len(stack) : FrameOK(file, stack[i])
  BY DEF Walks, WalkInv
<1>3. Len(stack) \in Nat /\ 1 \in 1..Len(stack)
  BY <1>2
<1>4. Top = stack[1] /\ FrameOK(file, Top)
  BY <1>2, <1>3 DEF Top
<1>5. Top \in Frames(file)
  BY <1>4 DEF FrameOK
<1>6. Ahead(file, Top) \subseteq Kin(file, Top.node)
  BY <1>2, <1>3, <1>4 DEF Shape
<1>7. stack[1].node \in HeldBy(file, stack) <=> Held(file, stack[1])
  <2>1. Len(stack) = Len(stack) /\ stack[1].node = stack[1].node
        /\ \A i \in 2..Len(stack) : stack[i] = stack[i]
    OBVIOUS
  <2>2. \A x : x \in HeldBy(file, stack) <=>
                 IF x = stack[1].node THEN Held(file, stack[1]) ELSE x \in HeldBy(file, stack)
    BY <1>1, <1>2, <1>3, <2>1, HeldReplaced
  <2>. QED
    BY <2>2
<1>. QED
  BY <1>1, <1>2, <1>4, <1>5, <1>6, <1>7 DEF Frames

(* The children of a node, as a list to visit.                             *)
LEMMA ChildrenFacts ==
  ASSUME NEW f, IsTree(f), NEW n \in Nodes(f)
  PROVE  /\ f.children[n] \in Seq(DOMAIN f.name) /\ Items(f.children[n]) = Kin(f, n)
         /\ \A i, j \in 1..Len(f.children[n]) : f.children[n][i] = f.children[n][j] => i = j
<1>1. /\ f.children[n] \in Seq(DOMAIN f.name)
      /\ \A i, j \in DOMAIN f.children[n] : f.children[n][i] = f.children[n][j] => i = j
  BY TreeFacts
<1>2. DOMAIN f.children[n] = 1..Len(f.children[n])
  BY <1>1
<1>. QED
  BY <1>1, <1>2 DEF Items, Kin

LEMMA WlfOpens ==
  ASSUME Walks, WlfOpenIterator
  PROVE  WalkInv(file, stack', iterators', cache')
<1>. DEFINE fr == [Top EXCEPT !.stage = "drain"]
<1>1. /\ stack # << >> /\ file.format = "wlf" /\ Top.stage = "enter"
      /\ iterators' = iterators \cup {Top.node} /\ stack' = <<fr>> \o Tail(stack)
      /\ cache' = cache
  BY DEF WlfOpenIterator, Walking, Replace
<1>2. /\ IsTree(file) /\ Top = stack[1] /\ FrameOK(file, Top) /\ Top \in Frames(file)
  BY <1>1, TopFacts
<1>3. /\ fr \in Frames(file) /\ fr.node = Top.node /\ fr.todo = Top.todo /\ fr.path = Top.path
      /\ fr.stage = "drain"
  BY <1>2 DEF Frames
<1>. HIDE DEF fr
<1>4. FrameOK(file, fr) /\ Ahead(file, fr) = Ahead(file, Top) /\ Held(file, fr)
  BY <1>1, <1>2, <1>3 DEF FrameOK, Ahead, Held
<1>5. iterators' = IF Held(file, fr) THEN iterators \cup {fr.node} ELSE iterators \ {fr.node}
  BY <1>1, <1>3, <1>4
<1>6. fr.node = stack[1].node /\ Ahead(file, fr) = Ahead(file, stack[1])
  BY <1>2, <1>3, <1>4
<1>7. WalkInv(file, stack, iterators, cache)
  BY DEF Walks
<1>8. WalkInv(file, stack', iterators', cache)
  BY <1>1, <1>2, <1>4, <1>5, <1>6, <1>7, StepOn
<1>. QED
  BY <1>1, <1>8

LEMMA NextToVisit ==
  ASSUME Walks, stack # << >>, Top.todo # << >>
  PROVE  /\ Head(Top.todo) \in Items(Top.todo) /\ Head(Top.todo) \in DOMAIN file.name
         /\ Tail(Top.todo) \in Seq(DOMAIN file.name)
         /\ \A i, j \in 1..Len(Tail(Top.todo)) : Tail(Top.todo)[i] = Tail(Top.todo)[j] => i = j
         /\ Items(Tail(Top.todo)) = Items(Top.todo) \ {Head(Top.todo)}
<1>1. PICK q : q = Top.todo
  OBVIOUS
<1>2. q \in Seq(DOMAIN file.name) /\ q # << >> /\ \A i, j \in 1..Len(q) : q[i] = q[j] => i = j
  BY <1>1, TopFacts DEF FrameOK
<1>3. /\ Head(q) \in Items(q) /\ Head(q) \in DOMAIN file.name
      /\ Tail(q) \in Seq(DOMAIN file.name)
      /\ \A i, j \in 1..Len(Tail(q)) : Tail(q)[i] = Tail(q)[j] => i = j
      /\ Items(Tail(q)) = Items(q) \ {Head(q)}
  BY <1>2, TodoFacts
<1>. QED
  BY <1>1, <1>3

LEMMA WlfDrains ==
  ASSUME Walks, WlfDrain
  PROVE  WalkInv(file, stack', iterators', cache')
<1>. DEFINE fr == [Top EXCEPT !.stage = "visit", !.todo = file.children[Top.node]]
<1>1. /\ stack # << >> /\ file.format = "wlf" /\ Top.stage = "drain"
      /\ iterators' = iterators \ {Top.node} /\ stack' = <<fr>> \o Tail(stack)
      /\ cache' = cache
  BY DEF WlfDrain, Walking, Replace
<1>2. /\ IsTree(file) /\ Top = stack[1] /\ FrameOK(file, Top) /\ Top \in Frames(file)
      /\ Top.node \in Nodes(file)
  BY <1>1, TopFacts
<1>. DEFINE q == file.children[Top.node]
<1>3. /\ q \in Seq(DOMAIN file.name) /\ Items(q) = Kin(file, Top.node)
      /\ \A i, j \in 1..Len(q) : q[i] = q[j] => i = j
  BY <1>2, ChildrenFacts
<1>. HIDE DEF q
<1>4. /\ fr \in Frames(file) /\ fr.node = Top.node /\ fr.todo = q /\ fr.path = Top.path
      /\ fr.stage = "visit"
  BY <1>2, <1>3 DEF Frames, q
<1>. HIDE DEF fr
<1>5. FrameOK(file, fr)
  BY <1>1, <1>3, <1>4 DEF FrameOK
<1>6. Ahead(file, fr) = Ahead(file, Top) /\ ~Held(file, fr)
  BY <1>1, <1>3, <1>4 DEF Ahead, Held
<1>7. iterators' = IF Held(file, fr) THEN iterators \cup {fr.node} ELSE iterators \ {fr.node}
  BY <1>1, <1>4, <1>6
<1>8. fr.node = stack[1].node /\ Ahead(file, fr) = Ahead(file, stack[1])
  BY <1>2, <1>4, <1>6
<1>9. WalkInv(file, stack, iterators, cache)
  BY DEF Walks
<1>10. WalkInv(file, stack', iterators', cache)
  BY <1>1, <1>2, <1>5, <1>7, <1>8, <1>9, StepOn
<1>. QED
  BY <1>1, <1>10

LEMMA WlfVisits ==
  ASSUME Walks, WlfVisit
  PROVE  WalkInv(file, stack', iterators', cache')
<1>. DEFINE n == Head(Top.todo)
            fr == [Top EXCEPT !.todo = Tail(Top.todo)]
            path == Join(Top.path, file.name[n])
            new == Frame(n, path, << >>, "enter")
            d == leaf_to_decl(n, path, Top.path)
<1>1. /\ stack # << >> /\ file.format = "wlf" /\ Top.stage = "visit" /\ Top.todo # << >>
      /\ iterators' = iterators
      /\ n \in file.scopes => stack' = <<new, fr>> \o Tail(stack) /\ cache' = cache
      /\ n \notin file.scopes => stack' = <<fr>> \o Tail(stack) /\ cache' = Append(cache, d)
  BY DEF WlfVisit, Walking, Replace
<1>2. /\ IsTree(file) /\ Top = stack[1] /\ FrameOK(file, Top) /\ Top \in Frames(file)
      /\ Top.path \in Text /\ Top.todo \in Seq(DOMAIN file.name)
  BY <1>1, TopFacts
<1>3. /\ n \in Items(Top.todo) /\ n \in DOMAIN file.name
      /\ Tail(Top.todo) \in Seq(DOMAIN file.name)
      /\ \A i, j \in 1..Len(Tail(Top.todo)) : Tail(Top.todo)[i] = Tail(Top.todo)[j] => i = j
      /\ Items(Tail(Top.todo)) = Items(Top.todo) \ {n}
  BY <1>1, NextToVisit
<1>4. path \in Text
  <2>1. file.name[n] \in Text
    BY <1>1, <1>3, FileFacts DEF Walks
  <2>. QED
    BY <1>2, <2>1, JoinFacts
<1>5. /\ fr \in Frames(file) /\ fr.node = Top.node /\ fr.todo = Tail(Top.todo)
      /\ fr.path = Top.path /\ fr.stage = "visit"
  BY <1>1, <1>2, <1>3 DEF Frames
<1>6. /\ new \in Frames(file) /\ new.node = n /\ new.todo = << >> /\ new.stage = "enter"
  BY <1>3, <1>4 DEF Frames, Frame, Nodes
<1>7. IsDecl(d)
  BY <1>2, <1>4, LeafIsDecl
<1>. HIDE DEF n, fr, new, d
<1>8. FrameOK(file, fr) /\ Ahead(file, fr) = Items(Tail(Top.todo)) /\ ~Held(file, fr)
  BY <1>1, <1>3, <1>5 DEF FrameOK, Ahead, Held
<1>9. FrameOK(file, new)
  BY <1>1, <1>6 DEF FrameOK
<1>10. Ahead(file, Top) = Items(Top.todo) /\ ~Held(file, Top)
  BY <1>1 DEF Ahead, Held
<1>11. /\ n \in Ahead(file, stack[1]) /\ fr.node = stack[1].node
       /\ Ahead(file, fr) = Ahead(file, stack[1]) \ {n}
       /\ (Held(file, fr) <=> Held(file, stack[1]))
       /\ fr.stage \in {"visit", "scopes"}
  BY <1>2, <1>3, <1>5, <1>8, <1>10
<1>12. WalkInv(file, stack, iterators, cache)
  BY DEF Walks
<1>13. CASE n \in file.scopes
  <2>1. stack' = <<new, fr>> \o Tail(stack)
    BY <1>1, <1>13
  <2>2. WalkInv(file, stack', iterators, cache)
    BY <1>1, <1>2, <1>6, <1>8, <1>9, <1>11, <1>12, <1>13, <2>1, StepIn
  <2>. QED
    BY <1>1, <1>13, <2>2
<1>14. CASE n \notin file.scopes
  <2>1. stack' = <<fr>> \o Tail(stack) /\ cache' = Append(cache, d)
    BY <1>1, <1>14
  <2>2. WalkInv(file, stack', iterators, cache')
    BY <1>1, <1>2, <1>7, <1>8, <1>11, <1>12, <1>14, <2>1, StepLeaf
  <2>. QED
    BY <1>1, <2>2
<1>. QED
  BY <1>13, <1>14

LEMMA WlfReturns ==
  ASSUME Walks, WlfReturn
  PROVE  WalkInv(file, stack', iterators', cache')
<1>1. /\ stack # << >> /\ file.format = "wlf" /\ Top.stage = "visit" /\ Top.todo = << >>
      /\ iterators' = iterators /\ stack' = Tail(stack) /\ cache' = cache
  BY DEF WlfReturn, Walking
<1>2. IsTree(file) /\ Top = stack[1] /\ (Top.node \in iterators <=> Held(file, Top))
  BY <1>1, TopFacts
<1>3. Ahead(file, stack[1]) = {} /\ iterators' = iterators \ {stack[1].node}
  BY <1>1, <1>2 DEF Ahead, Held, Items
<1>4. WalkInv(file, stack, iterators, cache)
  BY DEF Walks
<1>5. WalkInv(file, stack', iterators', cache)
  BY <1>1, <1>2, <1>3, <1>4, StepBack
<1>. QED
  BY <1>1, <1>5

LEMMA FsdbOpensTop ==
  ASSUME Walks, FsdbOpenTop
  PROVE  WalkInv(file, stack', iterators', cache')
<1>. DEFINE q == Kids(0, TRUE)
            fr == [Top EXCEPT !.stage = "scopes", !.todo = q]
<1>1. /\ stack # << >> /\ file.format = "fsdb" /\ Top.stage = "enter" /\ Top.node = 0
      /\ iterators' = iterators \cup {Top.node} /\ stack' = <<fr>> \o Tail(stack)
      /\ cache' = cache
  BY DEF FsdbOpenTop, Walking, Replace
<1>2. /\ IsTree(file) /\ Top = stack[1] /\ FrameOK(file, Top) /\ Top \in Frames(file)
      /\ Top.node \in Nodes(file)
  BY <1>1, TopFacts
<1>3. /\ q \in Seq(DOMAIN file.name)
      /\ \A i, j \in 1..Len(q) : q[i] = q[j] => i = j
      /\ \A c : c \in Items(q) <=> c \in Kin(file, 0) /\ ((c \in file.scopes) = TRUE)
  <2>1. TRUE \in BOOLEAN /\ 0 \in Nodes(file)
    BY <1>1, <1>2
  <2>. QED
    BY <1>2, <2>1, KidsFacts
<1>. HIDE DEF q
<1>4. Items(q) = Kin(file, 0) \cap file.scopes
  BY <1>3
<1>5. /\ fr \in Frames(file) /\ fr.node = Top.node /\ fr.todo = q /\ fr.path = Top.path
      /\ fr.stage = "scopes"
  BY <1>2, <1>3 DEF Frames
<1>. HIDE DEF fr
<1>6. FrameOK(file, fr)
  BY <1>1, <1>2, <1>3, <1>4, <1>5 DEF FrameOK
<1>7. Ahead(file, fr) = Ahead(file, Top) /\ Held(file, fr)
  BY <1>1, <1>4, <1>5 DEF Ahead, Held
<1>8. iterators' = IF Held(file, fr) THEN iterators \cup {fr.node} ELSE iterators \ {fr.node}
  BY <1>1, <1>5, <1>7
<1>9. fr.node = stack[1].node /\ Ahead(file, fr) = Ahead(file, stack[1])
  BY <1>2, <1>5, <1>7
<1>10. WalkInv(file, stack, iterators, cache)
  BY DEF Walks
<1>11. WalkInv(file, stack', iterators', cache)
  BY <1>1, <1>2, <1>6, <1>8, <1>9, <1>10, StepOn
<1>. QED
  BY <1>1, <1>11

LEMMA FsdbOpensSignals ==
  ASSUME Walks, FsdbOpenSignals
  PROVE  WalkInv(file, stack', iterators', cache')
<1>. DEFINE q == Kids(Top.node, FALSE)
            fr == [Top EXCEPT !.stage = "signals", !.todo = q]
<1>1. /\ stack # << >> /\ file.format = "fsdb" /\ Top.stage = "enter" /\ Top.node # 0
      /\ iterators' = iterators \cup {Top.node} /\ stack' = <<fr>> \o Tail(stack)
      /\ cache' = cache
  BY DEF FsdbOpenSignals, Walking, Replace
<1>2. /\ IsTree(file) /\ Top = stack[1] /\ FrameOK(file, Top) /\ Top \in Frames(file)
      /\ Top.node \in Nodes(file)
  BY <1>1, TopFacts
<1>3. /\ q \in Seq(DOMAIN file.name)
      /\ \A i, j \in 1..Len(q) : q[i] = q[j] => i = j
      /\ \A c : c \in Items(q) <=> c \in Kin(file, Top.node) /\ ((c \in file.scopes) = FALSE)
  <2>1. FALSE \in BOOLEAN
    OBVIOUS
  <2>. QED
    BY <1>2, <2>1, KidsFacts
<1>. HIDE DEF q
<1>4. Items(q) = Kin(file, Top.node) \ file.scopes
  BY <1>3
<1>5. /\ fr \in Frames(file) /\ fr.node = Top.node /\ fr.todo = q /\ fr.path = Top.path
      /\ fr.stage = "signals"
  BY <1>2, <1>3 DEF Frames
<1>. HIDE DEF fr
<1>6. FrameOK(file, fr)
  BY <1>1, <1>2, <1>3, <1>4, <1>5 DEF FrameOK
<1>7. Ahead(file, fr) = Ahead(file, Top) /\ Held(file, fr)
  BY <1>1, <1>4, <1>5 DEF Ahead, Held
<1>8. iterators' = IF Held(file, fr) THEN iterators \cup {fr.node} ELSE iterators \ {fr.node}
  BY <1>1, <1>5, <1>7
<1>9. fr.node = stack[1].node /\ Ahead(file, fr) = Ahead(file, stack[1])
  BY <1>2, <1>5, <1>7
<1>10. WalkInv(file, stack, iterators, cache)
  BY DEF Walks
<1>11. WalkInv(file, stack', iterators', cache)
  BY <1>1, <1>2, <1>6, <1>8, <1>9, <1>10, StepOn
<1>. QED
  BY <1>1, <1>11

LEMMA FsdbOpensScopes ==
  ASSUME Walks, FsdbOpenScopes
  PROVE  WalkInv(file, stack', iterators', cache')
<1>. DEFINE q == Kids(Top.node, TRUE)
            fr == [Top EXCEPT !.stage = "scopes", !.todo = q]
<1>1. /\ stack # << >> /\ file.format = "fsdb" /\ Top.stage = "signals" /\ Top.todo = << >>
      /\ iterators' = iterators /\ stack' = <<fr>> \o Tail(stack) /\ cache' = cache
  BY DEF FsdbOpenScopes, Walking, Replace
<1>2. /\ IsTree(file) /\ Top = stack[1] /\ FrameOK(file, Top) /\ Top \in Frames(file)
      /\ Top.node \in Nodes(file) /\ (Top.node \in iterators <=> Held(file, Top))
  BY <1>1, TopFacts
<1>3. /\ q \in Seq(DOMAIN file.name)
      /\ \A i, j \in 1..Len(q) : q[i] = q[j] => i = j
      /\ \A c : c \in Items(q) <=> c \in Kin(file, Top.node) /\ ((c \in file.scopes) = TRUE)
  <2>1. TRUE \in BOOLEAN
    OBVIOUS
  <2>. QED
    BY <1>2, <2>1, KidsFacts
<1>. HIDE DEF q
<1>4. Items(q) = Kin(file, Top.node) \cap file.scopes
  BY <1>3
<1>5. /\ fr \in Frames(file) /\ fr.node = Top.node /\ fr.todo = q /\ fr.path = Top.path
      /\ fr.stage = "scopes"
  BY <1>2, <1>3 DEF Frames
<1>. HIDE DEF fr
<1>6. FrameOK(file, fr)
  BY <1>1, <1>2, <1>3, <1>4, <1>5 DEF FrameOK
<1>7. Ahead(file, fr) = Ahead(file, Top)
  <2>1. Items(Top.todo) = {}
    BY <1>1 DEF Items
  <2>. QED
    BY <1>1, <1>4, <1>5, <2>1 DEF Ahead
<1>8. Held(file, fr) /\ Held(file, Top)
  BY <1>1, <1>5 DEF Held
<1>9. iterators' = IF Held(file, fr) THEN iterators \cup {fr.node} ELSE iterators \ {fr.node}
  BY <1>1, <1>2, <1>5, <1>8
<1>10. fr.node = stack[1].node /\ Ahead(file, fr) = Ahead(file, stack[1])
  BY <1>2, <1>5, <1>7
<1>11. WalkInv(file, stack, iterators, cache)
  BY DEF Walks
<1>12. WalkInv(file, stack', iterators', cache)
  BY <1>1, <1>2, <1>6, <1>9, <1>10, <1>11, StepOn
<1>. QED
  BY <1>1, <1>12

LEMMA FsdbReturns ==
  ASSUME Walks, FsdbReturn
  PROVE  WalkInv(file, stack', iterators', cache')
<1>1. /\ stack # << >> /\ file.format = "fsdb" /\ Top.stage = "scopes" /\ Top.todo = << >>
      /\ iterators' = iterators \ {Top.node} /\ stack' = Tail(stack) /\ cache' = cache
  BY DEF FsdbReturn, Walking
<1>2. IsTree(file) /\ Top = stack[1]
  BY <1>1, TopFacts
<1>3. Ahead(file, stack[1]) = {} /\ iterators' = iterators \ {stack[1].node}
  BY <1>1, <1>2 DEF Ahead, Items
<1>4. WalkInv(file, stack, iterators, cache)
  BY DEF Walks
<1>5. WalkInv(file, stack', iterators', cache)
  BY <1>1, <1>2, <1>3, <1>4, StepBack
<1>. QED
  BY <1>1, <1>5

LEMMA FsdbSignals ==
  ASSUME Walks, FsdbSignal
  PROVE  WalkInv(file, stack', iterators', cache')
<1>. DEFINE n == Head(Top.todo)
            fr == [Top EXCEPT !.todo = Tail(Top.todo)]
            full == Join(Top.path, file.name[n])
            d == RecordSig(n, full)
<1>1. /\ stack # << >> /\ file.format = "fsdb" /\ Top.stage = "signals" /\ Top.todo # << >>
      /\ iterators' = iterators /\ stack' = <<fr>> \o Tail(stack)
      /\ cache' = IF full = << >> THEN cache ELSE Append(cache, d)
  BY DEF FsdbSignal, Walking, Replace
<1>2. /\ IsTree(file) /\ Top = stack[1] /\ FrameOK(file, Top) /\ Top \in Frames(file)
      /\ Top.path \in Text /\ Top.todo \in Seq(DOMAIN file.name)
  BY <1>1, TopFacts
<1>3. /\ n \in Items(Top.todo) /\ n \in DOMAIN file.name
      /\ Tail(Top.todo) \in Seq(DOMAIN file.name)
      /\ \A i, j \in 1..Len(Tail(Top.todo)) : Tail(Top.todo)[i] = Tail(Top.todo)[j] => i = j
      /\ Items(Tail(Top.todo)) = Items(Top.todo) \ {n}
  BY <1>1, NextToVisit
<1>4. /\ Items(Top.todo) \cap file.scopes = {} /\ Top.node # 0 /\ Top.path # << >>
  BY <1>1, <1>2 DEF FrameOK
<1>5. full \in Text /\ full # << >>
  <2>1. file.name[n] \in Text
    BY <1>1, <1>3, FileFacts DEF Walks
  <2>. QED
    BY <1>2, <1>4, <2>1, JoinFacts
<1>6. /\ fr \in Frames(file) /\ fr.node = Top.node /\ fr.todo = Tail(Top.todo)
      /\ fr.path = Top.path /\ fr.stage = "signals"
  BY <1>1, <1>2, <1>3 DEF Frames
<1>7. IsDecl(d)
  BY <1>5, RecordIsDecl
<1>8. cache' = Append(cache, d)
  BY <1>1, <1>5
<1>. HIDE DEF n, fr, d
<1>9. FrameOK(file, fr)
  BY <1>1, <1>3, <1>4, <1>6 DEF FrameOK
<1>10. n \notin file.scopes
  BY <1>3, <1>4
<1>11. Ahead(file, fr) = Items(Tail(Top.todo)) \cup (Kin(file, Top.node) \cap file.scopes)
  BY <1>1, <1>6 DEF Ahead
<1>12. Ahead(file, Top) = Items(Top.todo) \cup (Kin(file, Top.node) \cap file.scopes)
  BY <1>1 DEF Ahead
<1>13. Held(file, fr) /\ Held(file, Top)
  BY <1>1, <1>6 DEF Held
<1>14. /\ n \in Ahead(file, stack[1]) /\ fr.node = stack[1].node
       /\ Ahead(file, fr) = Ahead(file, stack[1]) \ {n}
       /\ (Held(file, fr) <=> Held(file, stack[1]))
  BY <1>2, <1>3, <1>6, <1>10, <1>11, <1>12, <1>13
<1>15. WalkInv(file, stack, iterators, cache)
  BY DEF Walks
<1>16. stack' = <<fr>> \o Tail(stack)
  BY <1>1
<1>17. WalkInv(file, stack', iterators, cache')
  BY <1>1, <1>2, <1>7, <1>8, <1>9, <1>10, <1>14, <1>15, <1>16, StepLeaf
<1>. QED
  BY <1>1, <1>17

LEMMA FsdbDescends ==
  ASSUME Walks, FsdbDescend
  PROVE  WalkInv(file, stack', iterators', cache')
<1>. DEFINE n == Head(Top.todo)
            fr == [Top EXCEPT !.todo = Tail(Top.todo)]
            path == Join(Top.path, file.name[n])
            new == Frame(n, path, << >>, "enter")
<1>1. /\ stack # << >> /\ file.format = "fsdb" /\ Top.stage = "scopes" /\ Top.todo # << >>
      /\ iterators' = iterators /\ stack' = <<new, fr>> \o Tail(stack) /\ cache' = cache
  BY DEF FsdbDescend, Walking
<1>2. /\ IsTree(file) /\ Top = stack[1] /\ FrameOK(file, Top) /\ Top \in Frames(file)
      /\ Top.path \in Text /\ Top.todo \in Seq(DOMAIN file.name)
  BY <1>1, TopFacts
<1>3. /\ n \in Items(Top.todo) /\ n \in DOMAIN file.name
      /\ Tail(Top.todo) \in Seq(DOMAIN file.name)
      /\ \A i, j \in 1..Len(Tail(Top.todo)) : Tail(Top.todo)[i] = Tail(Top.todo)[j] => i = j
      /\ Items(Tail(Top.todo)) = Items(Top.todo) \ {n}
  BY <1>1, NextToVisit
<1>4. Items(Top.todo) \subseteq file.scopes
  BY <1>1, <1>2 DEF FrameOK
<1>5. n \in file.scopes
  BY <1>3, <1>4
<1>6. path \in Text /\ path # << >>
  <2>1. file.name[n] \in Text /\ file.name[n] # << >>
    BY <1>1, <1>3, <1>5, FileFacts DEF Walks
  <2>. QED
    BY <1>2, <2>1, JoinFacts
<1>7. /\ fr \in Frames(file) /\ fr.node = Top.node /\ fr.todo = Tail(Top.todo)
      /\ fr.path = Top.path /\ fr.stage = "scopes"
  BY <1>1, <1>2, <1>3 DEF Frames
<1>8. /\ new \in Frames(file) /\ new.node = n /\ new.todo = << >> /\ new.stage = "enter"
      /\ new.path = path
  BY <1>3, <1>6 DEF Frames, Frame, Nodes
<1>. HIDE DEF n, fr, new, path
<1>9. FrameOK(file, fr)
  BY <1>1, <1>2, <1>3, <1>4, <1>7 DEF FrameOK
<1>10. FrameOK(file, new)
  BY <1>1, <1>6, <1>8 DEF FrameOK
<1>11. Ahead(file, fr) = Items(Tail(Top.todo)) /\ Ahead(file, Top) = Items(Top.todo)
  BY <1>1, <1>7 DEF Ahead
<1>12. Held(file, fr) /\ Held(file, Top)
  BY <1>1, <1>7 DEF Held
<1>13. /\ n \in Ahead(file, stack[1]) /\ fr.node = stack[1].node
       /\ Ahead(file, fr) = Ahead(file, stack[1]) \ {n}
       /\ (Held(file, fr) <=> Held(file, stack[1]))
       /\ fr.stage \in {"visit", "scopes"}
  BY <1>2, <1>3, <1>7, <1>11, <1>12
<1>14. WalkInv(file, stack, iterators, cache)
  BY DEF Walks
<1>15. stack' = <<new, fr>> \o Tail(stack)
  BY <1>1
<1>16. WalkInv(file, stack', iterators, cache)
  BY <1>1, <1>2, <1>5, <1>8, <1>9, <1>10, <1>13, <1>14, <1>15, StepIn
<1>. QED
  BY <1>1, <1>16

(***************************************************************************)
(* The walk starts owing every leaf, and at its end owes none.             *)
(***************************************************************************)
LEMMA WalkStarts ==
  ASSUME NEW f, IsTree(f), f.format \in {"wlf", "fsdb"}, NEW st,
         st = <<Frame(0, << >>, << >>, "enter")>>
  PROVE  WalkInv(f, st, {}, << >>)
<1>. DEFINE fr == Frame(0, << >>, << >>, "enter")
<1>1. /\ fr \in Frames(f) /\ fr.node = 0 /\ fr.stage = "enter" /\ fr.todo = << >>
  BY DEF Frame, Frames, Nodes, Text
<1>2. st \in Seq(Frames(f)) /\ Len(st) = 1 /\ st[1] = fr
  BY <1>1
<1>3. \A i \in 1..Len(st) : i = 1
  BY <1>2
<1>. HIDE DEF fr
<1>4. FrameOK(f, fr) /\ ~Held(f, fr)
  BY <1>1 DEF FrameOK, Held
<1>5. Ahead(f, fr) = IF f.format = "wlf" THEN Kin(f, 0) ELSE Kin(f, 0) \cap f.scopes
  BY <1>1 DEF Ahead
<1>6. Shape(f, st)
  <2>1. \A i \in 1..Len(st) : /\ st[i].node \in {0} \cup f.scopes
                              /\ Ahead(f, st[i]) \subseteq Kin(f, st[i].node)
    BY <1>1, <1>2, <1>3, <1>5
  <2>2. \A i, j \in 1..Len(st) : ~(i < j)
    BY <1>2
  <2>. QED
    BY <1>2, <2>1, <2>2 DEF Shape
<1>7. HeldBy(f, st) = {}
  BY <1>2, <1>3, <1>4 DEF HeldBy
<1>8. 0 \in Nodes(f) /\ 0 \notin DOMAIN f.name /\ f.scopes \subseteq DOMAIN f.name
  BY TreeFacts DEF Nodes
<1>9. \A l \in Leaves(f) : \E c \in Kin(f, 0) : l \in Under(f, c)
  <2>1. SUFFICES ASSUME NEW l \in Leaves(f) PROVE \E c \in Kin(f, 0) : l \in Under(f, c)
    OBVIOUS
  <2>2. l \in Nodes(f) /\ l # 0
    BY <1>8 DEF Leaves, Nodes
  <2>3. l \in Under(f, 0)
    BY <2>2, AllUnderRoot
  <2>. QED
    BY <1>8, <2>2, <2>3, UnderChildren
<1>10. Owed(f, st) = {l \in Leaves(f) : \E y \in Ahead(f, fr) : l \in Under(f, y)}
  BY <1>2, <1>3 DEF Owed
<1>11. Owed(f, st) = LeavesOf(f)
  <2>1. CASE f.format = "wlf"
    <3>1. LeavesOf(f) = Leaves(f)
      BY <2>1 DEF LeavesOf, Leaves
    <3>. QED
      BY <1>5, <1>9, <1>10, <2>1, <3>1
  <2>2. CASE f.format = "fsdb"
    <3>1. \A l : l \in LeavesOf(f) <=> l \in Leaves(f) /\ l \notin Kin(f, 0)
      BY <2>2 DEF LeavesOf, Leaves, Kin, Range
    <3>2. Ahead(f, fr) = Kin(f, 0) \cap f.scopes
      BY <1>5, <2>2
    <3>3. ASSUME NEW l \in Owed(f, st) PROVE l \in LeavesOf(f)
      <4>1. l \in Leaves(f)
        BY <1>10, <3>3
      <4>2. PICK y \in Kin(f, 0) \cap f.scopes : l \in Under(f, y)
        BY <1>10, <3>2, <3>3
      <4>3. l # y
        BY <4>1 DEF Leaves
      <4>4. l \notin Kin(f, 0)
        BY <1>8, <4>2, <4>3, SiblingsApart
      <4>. QED
        BY <3>1, <4>1, <4>4
    <3>4. ASSUME NEW l \in LeavesOf(f) PROVE l \in Owed(f, st)
      <4>1. l \in Leaves(f) /\ l \notin Kin(f, 0)
        BY <3>1, <3>4
      <4>2. PICK c \in Kin(f, 0) : l \in Under(f, c)
        BY <1>9, <4>1
      <4>3. c \in Nodes(f) /\ c # 0
        BY <1>8, TreeFacts DEF Nodes
      <4>4. c \in f.scopes
        <5>1. SUFFICES ASSUME c \notin f.scopes PROVE FALSE
          OBVIOUS
        <5>2. Kin(f, c) = {}
          BY <4>3, <5>1, TreeFacts
        <5>3. l = c
          BY <4>2, <4>3, <5>2, UnderChildren
        <5>. QED
          BY <4>1, <5>3
      <4>. QED
        BY <1>10, <3>2, <4>1, <4>2, <4>4
    <3>. QED
      BY <3>3, <3>4
  <2>. QED
    BY <2>1, <2>2
<1>12. Declares(<< >>) /\ Len(<< >>) = 0 /\ << >> \in Seq({})
  BY DEF Declares
<1>13. Len(<< >>) + Cardinality(Owed(f, st)) = Cardinality(LeavesOf(f))
  BY <1>11, <1>12, OwedFinite
<1>14. \A i \in 1..Len(st) : FrameOK(f, st[i])
  BY <1>2, <1>3, <1>4
<1>15. \A i \in 2..Len(st) : st[i].stage \in {"visit", "scopes"}
  BY <1>2
<1>. QED
  BY <1>2, <1>6, <1>7, <1>12, <1>13, <1>14, <1>15 DEF WalkInv

LEMMA WalkEnds ==
  ASSUME NEW f, NEW st, NEW its, NEW cached, WalkInv(f, st, its, cached), st = << >>
  PROVE  its = {} /\ Len(cached) = Cardinality(LeavesOf(f))
<1>1. /\ its = HeldBy(f, st) /\ Declares(cached)
      /\ Len(cached) + Cardinality(Owed(f, st)) = Cardinality(LeavesOf(f))
  BY DEF WalkInv
<1>2. \A i \in 1..Len(st) : FALSE
  OBVIOUS
<1>3. HeldBy(f, st) = {} /\ Owed(f, st) = {}
  BY <1>2 DEF HeldBy, Owed
<1>4. Cardinality(Owed(f, st)) = 0
  BY <1>3, FS_EmptySet
<1>5. Len(cached) \in Nat
  BY <1>1 DEF Declares
<1>. QED
  BY <1>1, <1>3, <1>4, <1>5


(***************************************************************************)
(* The inductive invariant.                                                *)
(***************************************************************************)
WalkPart ==
  /\ file \in Files
  /\ phase \in {"walk", "group", "ready", "answered"}
  /\ phase # "walk" => stack = << >>
  /\ file.format # "wellen" => WalkInv(file, stack, iterators, cache)
  /\ file.format = "wellen" =>
       /\ iterators = {} /\ Declares(cache)
       /\ stack = << >> => Len(cache) = Len(file.vars)

(* What the loop of build_signal_table has put in the group of a sid.      *)
GroupOf(s, g) ==
  /\ {"decl_order", "paths"} \subseteq DOMAIN g
  /\ g.decl_order \in 1..decl_idx /\ decls[g.decl_order].sid = s
  /\ \A j \in 1..decl_idx : decls[j].sid = s => g.decl_order <= j
  /\ g.paths \in Seq([path : Text, scope : Text]) /\ Len(g.paths) # 0
  /\ \A i \in 1..decl_idx : decls[i].sid = s =>
       \E k \in 1..Len(g.paths) : g.paths[k].path = decls[i].path

GroupPart ==
  /\ Declares(decls) /\ decl_idx \in 0..Len(decls)
  /\ phase = "walk" => Len(decls) = 0
  /\ phase # "walk" => Len(decls) = Len(cache)
  /\ DOMAIN groups = {decls[i].sid : i \in 1..decl_idx}
  /\ \A s \in DOMAIN groups : GroupOf(s, groups[s])

TablePart ==
  phase \in {"ready", "answered"} =>
    /\ decl_idx = Len(decls)
    /\ Len(table) \in Nat /\ DOMAIN table = 1..Len(table)
    /\ \A e \in DOMAIN table : \E s \in DOMAIN groups : table[e] = Info(s)
    /\ \A s \in DOMAIN groups : \E e \in DOMAIN table : table[e] = Info(s)
    /\ \A d, e \in DOMAIN table : d # e => table[d].sid # table[e].sid

AnswerPart ==
  phase = "answered" =>
    /\ query.cmd = "select" => /\ answer.sids = Selected(query.sel)
                               /\ answer.matched = MatchReport(query.sel)
    /\ query.cmd = "search" => answer = resolve_one_signal(query.sel, query.name)

ListInv == WalkPart /\ GroupPart /\ TablePart /\ AnswerPart

(***************************************************************************)
(* The walk's part is kept by every step.                                  *)
(***************************************************************************)
WalkStep == WlfWalk \/ FsdbWalk

LEMMA WalkStepKeeps ==
  ASSUME WalkPart, WalkStep
  PROVE  WalkPart'
<1>1. file.format \in {"wlf", "fsdb"} /\ phase = "walk" /\ file' = file /\ phase' = phase
  BY DEF WalkStep, WlfWalk, FsdbWalk, Walking, WlfOpenIterator, WlfDrain, WlfVisit, WlfReturn,
         FsdbOpenTop, FsdbOpenSignals, FsdbSignal, FsdbOpenScopes, FsdbDescend, FsdbReturn
<1>2. Walks
  BY <1>1 DEF WalkPart, Walks
<1>3. WalkInv(file, stack', iterators', cache')
  BY <1>2, WlfOpens, WlfDrains, WlfVisits, WlfReturns, FsdbOpensTop, FsdbOpensSignals,
     FsdbSignals, FsdbOpensScopes, FsdbDescends, FsdbReturns DEF WalkStep, WlfWalk, FsdbWalk
<1>4. WalkInv(file, stack, iterators, cache)'
  <2>1. WalkInv(file', stack', iterators', cache')
    BY <1>1, <1>3
  <2>. QED
    BY <2>1
<1>. QED
  BY <1>1, <1>4 DEF WalkPart

LEMMA WellenKeeps ==
  ASSUME WalkPart, WellenVars
  PROVE  WalkPart'
<1>1. /\ file.format = "wellen" /\ phase = "walk" /\ file' = file /\ phase' = phase
      /\ iterators' = iterators /\ stack' = << >>
      /\ cache' = [i \in DOMAIN file.vars |-> WellenDecl(file.vars[i])]
  BY DEF WellenVars, Walking
<1>2. file \in Files /\ iterators = {}
  BY <1>1 DEF WalkPart
<1>3. file.vars \in Seq([full : Text, local : Text, range : Text, width : Nat, sid : Nat,
                         kind : STRING, type : STRING])
  BY <1>1, <1>2, FilesAssumption
<1>4. DOMAIN file.vars = 1..Len(file.vars) /\ Len(file.vars) \in Nat
  BY <1>3
<1>5. \A i \in 1..Len(file.vars) : IsDecl(WellenDecl(file.vars[i]))
  <2>1. SUFFICES ASSUME NEW i \in 1..Len(file.vars) PROVE IsDecl(WellenDecl(file.vars[i]))
    OBVIOUS
  <2>2. PICK v : v = file.vars[i]
    OBVIOUS
  <2>3. v \in [full : Text, local : Text, range : Text, width : Nat, sid : Nat,
               kind : STRING, type : STRING]
    BY <1>3, <2>2, ElementOfSeq
  <2>4. v.full \in Text /\ v.local \in Text /\ v.range \in Text
    BY <2>3
  <2>. QED
    BY <2>2, <2>4, WellenIsDecl
<1>6. DOMAIN cache' = 1..Len(file.vars) /\ \A i \in 1..Len(file.vars) : IsDecl(cache'[i])
  BY <1>1, <1>4, <1>5
<1>7. cache' \in Seq({WellenDecl(file.vars[i]) : i \in DOMAIN file.vars})
  BY <1>1, <1>4
<1>8. Len(cache') = Len(file.vars)
  BY <1>4, <1>6, <1>7
<1>9. Declares(cache')
  BY <1>4, <1>6, <1>8 DEF Declares
<1>. QED
  BY <1>1, <1>2, <1>8, <1>9 DEF WalkPart

(* A step that leaves the walk alone once it is over.                      *)
LEMMA WalkStays ==
  ASSUME WalkPart, UNCHANGED <<file, walkvars>>, stack = << >>,
         phase' \in {"walk", "group", "ready", "answered"}
  PROVE  WalkPart'
<1>1. file' = file /\ stack' = stack /\ iterators' = iterators /\ cache' = cache
  BY DEF walkvars
<1>2. file.format # "wellen" => WalkInv(file, stack', iterators', cache')
  BY <1>1 DEF WalkPart
<1>3. file'.format # "wellen" => WalkInv(file', stack', iterators', cache')
  BY <1>1, <1>2
<1>. QED
  BY <1>1, <1>3 DEF WalkPart

(***************************************************************************)
(* build_signal_table.                                                     *)
(***************************************************************************)
LEMMA FetchKeeps ==
  ASSUME WalkPart, GroupPart, FetchDecls
  PROVE  GroupPart'
<1>1. /\ phase = "walk" /\ phase' = "group" /\ stack = << >> /\ cache' = cache
      /\ decls' = [i \in DOMAIN cache |-> [cache[i] EXCEPT !.type = map_type_str(@)]]
      /\ decl_idx' = decl_idx /\ groups' = groups
  BY DEF FetchDecls, walkvars
<1>2. Declares(cache)
  BY DEF WalkPart, WalkInv
<1>3. Len(cache) \in Nat /\ DOMAIN cache = 1..Len(cache)
  BY <1>2 DEF Declares
<1>4. Len(decls) = 0 /\ decl_idx = 0 /\ DOMAIN groups = {}
  <2>1. Len(decls) = 0 /\ decl_idx \in 0..Len(decls)
    BY <1>1 DEF GroupPart
  <2>2. decl_idx = 0
    BY <2>1
  <2>3. DOMAIN groups = {decls[i].sid : i \in 1..decl_idx}
    BY DEF GroupPart
  <2>. QED
    BY <2>1, <2>2, <2>3
<1>5. \A i \in 1..Len(cache) : IsDecl(decls'[i])
  <2>1. SUFFICES ASSUME NEW i \in 1..Len(cache) PROVE IsDecl(decls'[i])
    OBVIOUS
  <2>2. PICK d : d = cache[i]
    OBVIOUS
  <2>3. IsDecl(d)
    BY <1>2, <2>2 DEF Declares
  <2>4. decls'[i] = [d EXCEPT !.type = map_type_str(@)]
    BY <1>1, <1>3, <2>2
  <2>5. IsDecl([d EXCEPT !.type = map_type_str(@)])
    BY <2>3 DEF IsDecl
  <2>. QED
    BY <2>4, <2>5
<1>6. DOMAIN decls' = 1..Len(cache)
  BY <1>1, <1>3
<1>7. Len(decls') = Len(cache)
  <2>1. decls' \in Seq({decls'[i] : i \in 1..Len(cache)})
    BY <1>1, <1>3
  <2>. QED
    BY <1>3, <1>6, <2>1
<1>8. Declares(decls')
  BY <1>3, <1>5, <1>6, <1>7 DEF Declares
<1>9. decl_idx' = 0 /\ DOMAIN groups' = {}
  BY <1>1, <1>4
<1>10. decl_idx' \in 0..Len(decls')
  BY <1>3, <1>7, <1>9
<1>11. \A i \in 1..decl_idx' : FALSE
  BY <1>9
<1>12. DOMAIN groups' = {decls'[i].sid : i \in 1..decl_idx'}
  BY <1>9, <1>11
<1>. QED
  BY <1>1, <1>7, <1>8, <1>9, <1>10, <1>12 DEF GroupPart

(* One declaration joins its group.                                        *)
LEMMA GroupKeeps ==
  ASSUME WalkPart, GroupPart, Group
  PROVE  GroupPart'
<1>. DEFINE i == decl_idx + 1
            d == decls[i]
            new == [decl_order |-> i, width |-> d.width, kind |-> d.kind,
                    type |-> d.type, paths |-> <<[path |-> d.path, scope |-> d.scope]>>]
            pair == [path |-> d.path, scope |-> d.scope]
<1>1. /\ phase = "group" /\ phase' = phase /\ decl_idx < Len(decls) /\ decl_idx' = i
      /\ decls' = decls /\ cache' = cache
      /\ groups' = [s \in DOMAIN groups \cup {d.sid} |->
              CASE s # d.sid -> groups[s]
                [] s = d.sid /\ s \in DOMAIN groups -> Merged(groups[s], i)
                [] OTHER -> new]
  BY DEF Group, walkvars
<1>2. /\ Declares(decls) /\ decl_idx \in 0..Len(decls) /\ Len(decls) = Len(cache)
      /\ DOMAIN groups = {decls[k].sid : k \in 1..decl_idx}
      /\ \A s \in DOMAIN groups : GroupOf(s, groups[s])
  BY <1>1 DEF GroupPart
<1>3. Len(decls) \in Nat /\ decl_idx \in Nat
  BY <1>2 DEF Declares
<1>4. i \in 1..Len(decls) /\ i \in 1..i /\ i \in Nat
  BY <1>1, <1>3
<1>5. \A k : k \in 1..i <=> k \in 1..decl_idx \/ k = i
  BY <1>3
<1>6. IsDecl(d) /\ pair \in [path : Text, scope : Text] /\ pair.path = d.path
  BY <1>2, <1>4 DEF Declares, IsDecl
<1>. HIDE DEF i, d, pair
<1>7. DOMAIN groups' = {decls'[k].sid : k \in 1..decl_idx'}
  <2>1. DOMAIN groups' = DOMAIN groups \cup {d.sid}
    BY <1>1
  <2>2. DOMAIN groups' = {decls[k].sid : k \in 1..i}
    BY <1>2, <1>5, <2>1 DEF d
  <2>. QED
    BY <1>1, <2>2
<1>8. ASSUME NEW s \in DOMAIN groups' PROVE GroupOf(s, groups[s])'
  <2>. DEFINE g == groups'[s]
  <2>1. s \in DOMAIN groups \cup {d.sid}
    BY <1>1
  <2>2. SUFFICES /\ {"decl_order", "paths"} \subseteq DOMAIN g
                 /\ g.decl_order \in 1..i /\ decls[g.decl_order].sid = s
                 /\ \A j \in 1..i : decls[j].sid = s => g.decl_order <= j
                 /\ g.paths \in Seq([path : Text, scope : Text]) /\ Len(g.paths) # 0
                 /\ \A j \in 1..i : decls[j].sid = s =>
                      \E k \in 1..Len(g.paths) : g.paths[k].path = decls[j].path
    <3>1. decls' = decls /\ decl_idx' = i
      BY <1>1
    <3>. QED
      BY <3>1, Zenon DEF GroupOf
  <2>3. ASSUME s \in DOMAIN groups
        PROVE  LET h == groups[s]
               IN  /\ {"decl_order", "paths"} \subseteq DOMAIN h
                   /\ h.decl_order \in 1..decl_idx /\ decls[h.decl_order].sid = s
                   /\ \A j \in 1..decl_idx : decls[j].sid = s => h.decl_order <= j
                   /\ h.paths \in Seq([path : Text, scope : Text]) /\ Len(h.paths) # 0
                   /\ \A j \in 1..decl_idx : decls[j].sid = s =>
                        \E k \in 1..Len(h.paths) : h.paths[k].path = decls[j].path
    BY <1>2, <2>3 DEF GroupOf
  <2>4. CASE s # d.sid
    <3>1. s \in DOMAIN groups /\ g = groups[s]
      BY <1>1, <2>1, <2>4
    <3>2. \A j \in 1..i : decls[j].sid = s => j \in 1..decl_idx
      BY <1>5, <2>4 DEF d
    <3>3. g.decl_order \in 1..i
      BY <1>5, <2>3, <3>1
    <3>. HIDE DEF g
    <3>. QED
      BY <2>3, <3>1, <3>2, <3>3
  <2>5. CASE s = d.sid /\ s \in DOMAIN groups
    <3>1. PICK h : h = groups[s]
      OBVIOUS
    <3>2. /\ {"decl_order", "paths"} \subseteq DOMAIN h
          /\ h.decl_order \in 1..decl_idx /\ decls[h.decl_order].sid = s
          /\ \A j \in 1..decl_idx : decls[j].sid = s => h.decl_order <= j
          /\ h.paths \in Seq([path : Text, scope : Text]) /\ Len(h.paths) # 0
          /\ \A j \in 1..decl_idx : decls[j].sid = s =>
               \E k \in 1..Len(h.paths) : h.paths[k].path = decls[j].path
      BY <2>3, <2>5, <3>1
    <3>3. g = Merged(h, i)
      BY <1>1, <2>5, <3>1
    <3>4. h.decl_order \in Nat /\ h.decl_order < i
      <4>1. i = decl_idx + 1
        BY DEF i
      <4>. QED
        BY <1>3, <3>2, <4>1
    <3>5. /\ {"decl_order", "paths"} \subseteq DOMAIN g
          /\ g.decl_order = h.decl_order /\ g.paths = Append(h.paths, pair)
      <4>1. ~(i < h.decl_order)
        BY <1>4, <3>4
      <4>2. Merged(h, i) = [h EXCEPT !.decl_order = IF i < @ THEN i ELSE @,
                                     !.paths = Append(@, pair)]
        BY DEF Merged, pair, d
      <4>. HIDE DEF g
      <4>. QED
        BY <3>2, <3>3, <4>1, <4>2
    <3>6. /\ g.paths \in Seq([path : Text, scope : Text]) /\ Len(g.paths) = Len(h.paths) + 1
          /\ Len(h.paths) \in Nat /\ g.paths[Len(h.paths) + 1] = pair
          /\ \A k \in 1..Len(h.paths) : g.paths[k] = h.paths[k]
      <4>. HIDE DEF g
      <4>. QED
        BY <1>6, <3>2, <3>5, AppendProperties
    <3>7. \A j \in 1..i : decls[j].sid = s => g.decl_order <= j
      <4>1. g.decl_order <= i
        BY <1>4, <3>4, <3>5
      <4>. HIDE DEF g
      <4>. QED
        BY <1>5, <3>2, <3>5, <4>1
    <3>8. g.decl_order \in 1..i /\ decls[g.decl_order].sid = s
      <4>. HIDE DEF g
      <4>. QED
        BY <1>5, <3>2, <3>5
    <3>9. ASSUME NEW j \in 1..i, decls[j].sid = s
          PROVE  \E k \in 1..Len(g.paths) : g.paths[k].path = decls[j].path
      <4>. HIDE DEF g
      <4>1. CASE j \in 1..decl_idx
        <5>1. PICK k \in 1..Len(h.paths) : h.paths[k].path = decls[j].path
          BY <3>2, <3>9, <4>1
        <5>2. k \in 1..Len(g.paths) /\ g.paths[k] = h.paths[k]
          BY <3>6
        <5>. QED
          BY <5>1, <5>2
      <4>2. CASE j = i
        <5>1. Len(h.paths) + 1 \in 1..Len(g.paths)
          BY <3>6
        <5>2. g.paths[Len(h.paths) + 1].path = decls[j].path
          BY <1>6, <3>6, <4>2 DEF d
        <5>. QED
          BY <5>1, <5>2
      <4>. QED
        BY <1>5, <4>1, <4>2
    <3>10. Len(g.paths) # 0
      BY <3>6
    <3>. HIDE DEF g
    <3>. QED
      BY <3>5, <3>6, <3>7, <3>8, <3>9, <3>10
  <2>6. CASE s \notin DOMAIN groups
    <3>1. s = d.sid /\ g = new
      BY <1>1, <2>1, <2>6
    <3>2. \A j \in 1..decl_idx : decls[j].sid # s
      BY <1>2, <2>6
    <3>3. \A j \in 1..i : decls[j].sid = s => j = i
      BY <1>5, <3>2
    <3>4. /\ {"decl_order", "paths"} \subseteq DOMAIN g
          /\ g.decl_order = i /\ g.paths = <<pair>>
      BY <3>1 DEF pair
    <3>5. <<pair>> \in Seq([path : Text, scope : Text]) /\ Len(<<pair>>) = 1
          /\ <<pair>>[1] = pair
      BY <1>6
    <3>6. decls[i].sid = s
      BY <3>1 DEF d
    <3>7. \A j \in 1..i : decls[j].sid = s =>
            \E k \in 1..Len(g.paths) : g.paths[k].path = decls[j].path
      <4>1. 1 \in 1..Len(g.paths) /\ g.paths[1].path = decls[i].path
        BY <1>6, <3>4, <3>5 DEF d
      <4>. HIDE DEF g
      <4>. QED
        BY <3>3, <4>1
    <3>8. i <= i
      BY <1>4
    <3>9. g.decl_order \in 1..i /\ decls[g.decl_order].sid = s /\ Len(g.paths) # 0
          /\ g.paths \in Seq([path : Text, scope : Text])
      BY <1>4, <3>4, <3>5, <3>6
    <3>10. \A j \in 1..i : decls[j].sid = s => g.decl_order <= j
      BY <3>3, <3>4, <3>8
    <3>. HIDE DEF g
    <3>. QED
      BY <3>4, <3>7, <3>9, <3>10
  <2>. QED
    BY <2>4, <2>5, <2>6
<1>9. Declares(decls') /\ decl_idx' \in 0..Len(decls') /\ Len(decls') = Len(cache')
  BY <1>1, <1>2, <1>3, <1>4
<1>. QED
  BY <1>1, <1>7, <1>8, <1>9 DEF GroupPart

(* The aliases of an entry: every path its declarations gave, once, sorted.*)
Sorted(as) ==
  /\ \E n \in Nat \ {0} : DOMAIN as = 1..n
  /\ \A k \in DOMAIN as : as[k].path \in Text /\ as[k].scope \in Text
  /\ \A k, m \in DOMAIN as : k < m => TextLess(as[k].path, as[m].path)

LEMMA AliasesFacts ==
  ASSUME NEW ps \in Seq([path : Text, scope : Text]), Len(ps) # 0
  PROVE  /\ Sorted(Aliases(ps))
         /\ \A i \in 1..Len(ps) : \E k \in DOMAIN Aliases(ps) : Aliases(ps)[k].path = ps[i].path
<1>. DEFINE kept == {i \in DOMAIN ps : \A j \in 1 .. i - 1 : ps[j].path # ps[i].path}
            R == {p \in kept \X kept : TextLess(ps[p[1]].path, ps[p[2]].path)}
            order == InOrder(kept, R)
            n == Cardinality(kept)
<1>1. Len(ps) \in Nat /\ DOMAIN ps = 1..Len(ps)
      /\ \A i \in 1..Len(ps) : ps[i].path \in Text /\ ps[i].scope \in Text
  <2>1. Len(ps) \in Nat /\ DOMAIN ps = 1..Len(ps)
    OBVIOUS
  <2>2. \A i \in 1..Len(ps) : ps[i] \in [path : Text, scope : Text]
    BY ElementOfSeq
  <2>. QED
    BY <2>1, <2>2
<1>2. kept \in SUBSET (1..Len(ps))
  BY <1>1
<1>3. IsFiniteSet(kept)
  <2>1. IsFiniteSet(1..Len(ps))
    <3>1. 1 \in Int /\ Len(ps) \in Int
      BY <1>1
    <3>. QED
      BY <3>1, FS_Interval
  <2>. HIDE DEF kept
  <2>. QED
    BY <1>2, <2>1, FS_Subset
<1>4. ASSUME NEW i \in 1..Len(ps) PROVE \E j \in kept : ps[j].path = ps[i].path
  <2>. DEFINE Same == {j \in 1..Len(ps) : ps[j].path = ps[i].path}
  <2>1. Same \in SUBSET Nat /\ Same # {}
    BY <1>1
  <2>2. PICK j \in Same : \A r \in Same : j <= r
    <3>. HIDE DEF Same
    <3>. QED
      BY <2>1, LeastNatural
  <2>3. j \in 1..Len(ps) /\ ps[j].path = ps[i].path
    OBVIOUS
  <2>4. \A r \in 1..(j - 1) : ps[r].path # ps[j].path
    <3>1. SUFFICES ASSUME NEW r \in 1..(j - 1), ps[r].path = ps[j].path PROVE FALSE
      OBVIOUS
    <3>2. r \in 1..Len(ps) /\ ~(j <= r)
      BY <1>1, <2>3
    <3>3. r \in Same
      BY <2>3, <3>1, <3>2
    <3>. HIDE DEF Same
    <3>. QED
      BY <2>2, <3>2, <3>3
  <2>. QED
    BY <1>1, <2>3, <2>4
<1>5. kept # {}
  <2>1. 1 \in 1..Len(ps)
    BY <1>1
  <2>. HIDE DEF kept
  <2>. QED
    BY <1>4, <2>1
<1>6. \A i, j \in kept : ps[i].path = ps[j].path => i = j
  <2>1. SUFFICES ASSUME NEW i \in kept, NEW j \in kept, ps[i].path = ps[j].path, i < j
                 PROVE  FALSE
    BY <1>1, <1>2
  <2>2. i \in 1..(j - 1)
    BY <1>1, <1>2, <2>1
  <2>. QED
    BY <2>1, <2>2
<1>7. \A i \in kept : ps[i].path \in Text
  <2>. HIDE DEF kept
  <2>. QED
    BY <1>1, <1>2
<1>8. StrictTotal(kept, R)
  <2>1. \A i, j \in kept : <<i, j>> \in R <=> TextLess(ps[i].path, ps[j].path)
    <3>. HIDE DEF kept
    <3>. QED
      OBVIOUS
  <2>. HIDE DEF kept, R
  <2>2. \A i \in kept : <<i, i>> \notin R
    BY <1>7, <2>1, LessIrreflexive
  <2>3. \A i, j \in kept : i # j => <<i, j>> \in R \/ <<j, i>> \in R
    BY <1>6, <1>7, <2>1, LessTotal
  <2>4. ASSUME NEW i \in kept, NEW j \in kept, NEW k \in kept, <<i, j>> \in R, <<j, k>> \in R
        PROVE  <<i, k>> \in R
    <3>1. TextLess(ps[i].path, ps[j].path) /\ TextLess(ps[j].path, ps[k].path)
      BY <2>1, <2>4
    <3>2. ps[i].path \in Text /\ ps[j].path \in Text /\ ps[k].path \in Text
      BY <1>7
    <3>3. TextLess(ps[i].path, ps[k].path)
      BY <3>1, <3>2, LessTransitive
    <3>. QED
      BY <2>1, <3>3
  <2>. QED
    BY <2>2, <2>3, <2>4 DEF StrictTotal
<1>9. /\ n \in Nat /\ DOMAIN order = 1..n
      /\ \A k \in 1..n : order[k] \in kept
      /\ \A k, m \in 1..n : k < m => <<order[k], order[m]>> \in R
      /\ \A x \in kept : \E k \in 1..n : order[k] = x
  <2>. HIDE DEF kept, R
  <2>. QED
    BY <1>3, <1>8, InOrderFacts
<1>10. Aliases(ps) = [k \in 1..n |-> ps[order[k]]]
  <2>1. Aliases(ps) = [k \in DOMAIN order |-> ps[order[k]]]
    BY DEF Aliases
  <2>. HIDE DEF order
  <2>. QED
    BY <1>9, <2>1
<1>11. \A k, m \in 1..n : k < m => TextLess(ps[order[k]].path, ps[order[m]].path)
  <2>1. SUFFICES ASSUME NEW k \in 1..n, NEW m \in 1..n, k < m
                 PROVE  TextLess(ps[order[k]].path, ps[order[m]].path)
    OBVIOUS
  <2>2. <<order[k], order[m]>> \in R
    BY <1>9, <2>1
  <2>. HIDE DEF order, kept
  <2>. QED
    BY <2>2
<1>. HIDE DEF order, n, R, kept
<1>12. n # 0
  <2>1. PICK x \in kept : TRUE
    BY <1>5
  <2>2. \E k \in 1..n : order[k] = x
    BY <1>9
  <2>. QED
    BY <2>2
<1>13. DOMAIN Aliases(ps) = 1..n /\ \A k \in 1..n : Aliases(ps)[k] = ps[order[k]]
  BY <1>10
<1>14. \A k \in 1..n : order[k] \in 1..Len(ps)
  BY <1>2, <1>9
<1>15. Sorted(Aliases(ps))
  <2>1. \E m \in Nat \ {0} : DOMAIN Aliases(ps) = 1..m
    BY <1>9, <1>12, <1>13
  <2>2. \A k \in 1..n : Aliases(ps)[k].path \in Text /\ Aliases(ps)[k].scope \in Text
    BY <1>1, <1>13, <1>14
  <2>3. \A k, m \in 1..n : k < m => TextLess(Aliases(ps)[k].path, Aliases(ps)[m].path)
    BY <1>11, <1>13
  <2>. QED
    BY <1>13, <2>1, <2>2, <2>3 DEF Sorted
<1>16. ASSUME NEW i \in 1..Len(ps)
       PROVE  \E k \in DOMAIN Aliases(ps) : Aliases(ps)[k].path = ps[i].path
  <2>1. PICK j \in kept : ps[j].path = ps[i].path
    BY <1>4
  <2>2. PICK k \in 1..n : order[k] = j
    BY <1>9
  <2>. QED
    BY <1>13, <2>1, <2>2
<1>. QED
  BY <1>15, <1>16

(* An entry made of a group.                                               *)
LEMMA InfoFacts ==
  ASSUME GroupPart, NEW s \in DOMAIN groups
  PROVE  /\ Info(s).sid = s /\ Info(s).decl_order \in 1..decl_idx
         /\ decls[Info(s).decl_order].sid = s
         /\ \A j \in 1..decl_idx : decls[j].sid = s => Info(s).decl_order <= j
         /\ Sorted(Info(s).aliases)
         /\ \A i \in 1..decl_idx : decls[i].sid = s =>
              \E k \in DOMAIN Info(s).aliases : Info(s).aliases[k].path = decls[i].path
<1>1. GroupOf(s, groups[s])
  BY DEF GroupPart
<1>2. PICK g : g = groups[s]
  OBVIOUS
<1>3. /\ g.decl_order \in 1..decl_idx /\ decls[g.decl_order].sid = s
      /\ \A j \in 1..decl_idx : decls[j].sid = s => g.decl_order <= j
      /\ g.paths \in Seq([path : Text, scope : Text]) /\ Len(g.paths) # 0
      /\ \A i \in 1..decl_idx : decls[i].sid = s =>
           \E k \in 1..Len(g.paths) : g.paths[k].path = decls[i].path
  BY <1>1, <1>2 DEF GroupOf
<1>4. /\ Info(s).sid = s /\ Info(s).decl_order = g.decl_order
      /\ Info(s).aliases = Aliases(g.paths)
  BY <1>2 DEF Info
<1>5. /\ Sorted(Aliases(g.paths))
      /\ \A i \in 1..Len(g.paths) : \E k \in DOMAIN Aliases(g.paths) :
           Aliases(g.paths)[k].path = g.paths[i].path
  BY <1>3, AliasesFacts
<1>6. ASSUME NEW i \in 1..decl_idx, decls[i].sid = s
      PROVE  \E k \in DOMAIN Info(s).aliases : Info(s).aliases[k].path = decls[i].path
  <2>1. PICK m \in 1..Len(g.paths) : g.paths[m].path = decls[i].path
    BY <1>3, <1>6
  <2>2. PICK k \in DOMAIN Aliases(g.paths) : Aliases(g.paths)[k].path = g.paths[m].path
    BY <1>5
  <2>. QED
    BY <1>4, <2>1, <2>2
<1>. QED
  BY <1>3, <1>4, <1>5, <1>6

(* The groups are as many as there are sids.                               *)
LEMMA GroupsFinite ==
  ASSUME GroupPart
  PROVE  IsFiniteSet(DOMAIN groups)
<1>. DEFINE f == [i \in 1..decl_idx |-> decls[i].sid]
<1>1. decl_idx \in Nat /\ DOMAIN groups = {decls[i].sid : i \in 1..decl_idx}
  BY DEF GroupPart, Declares
<1>2. f \in Surjection(1..decl_idx, DOMAIN groups)
  <2>1. f \in [1..decl_idx -> DOMAIN groups]
    BY <1>1
  <2>2. \A s \in DOMAIN groups : \E i \in 1..decl_idx : f[i] = s
    BY <1>1
  <2>. HIDE DEF f
  <2>. QED
    BY <2>1, <2>2, Fun_IsSurj
<1>3. IsFiniteSet(1..decl_idx)
  BY <1>1, FS_Interval
<1>. HIDE DEF f
<1>. QED
  BY <1>2, <1>3, FS_Surjection

LEMMA Onto ==
  ASSUME NEW S, NEW T, NEW f \in Surjection(S, T)
  PROVE  \A t \in T : \E x \in S : f[x] = t
BY Fun_SurjectionProperties

LEMMA SortKeeps ==
  ASSUME GroupPart, SortTable
  PROVE  TablePart'
<1>1. /\ decl_idx = Len(decls) /\ decl_idx' = decl_idx /\ decls' = decls /\ groups' = groups
      /\ phase' = "ready"
  BY DEF SortTable
<1>2. PICK order \in SetToSeqs(DOMAIN groups) :
        table' = [i \in DOMAIN order |-> Info(order[i])]
  BY DEF SortTable
<1>. DEFINE n == Cardinality(DOMAIN groups)
<1>3. /\ order \in [1..n -> DOMAIN groups]
      /\ \A i, j \in 1..n : i # j => order[i] # order[j]
  BY <1>2 DEF SetToSeqs
<1>4. n \in Nat /\ IsFiniteSet(DOMAIN groups)
  BY GroupsFinite, FS_CardinalityType
<1>. HIDE DEF n
<1>5. order \in Injection(1..n, DOMAIN groups)
  BY <1>3, Fun_IsInj
<1>6. IsFiniteSet(1..n) /\ Cardinality(1..n) = n
  <2>1. 1 \in Int /\ n \in Int
    BY <1>4
  <2>2. IsFiniteSet(1..n) /\ Cardinality(1..n) = IF 1 > n THEN 0 ELSE n - 1 + 1
    BY <2>1, FS_Interval
  <2>. QED
    BY <1>4, <2>2
<1>7. order \in Surjection(1..n, DOMAIN groups)
  BY <1>4, <1>5, <1>6, FS_Injection DEF n
<1>8. \A s \in DOMAIN groups : \E i \in 1..n : order[i] = s
  <2>1. PICK D : D = 1..n
    OBVIOUS
  <2>2. PICK G : G = DOMAIN groups
    OBVIOUS
  <2>3. order \in Surjection(D, G)
    BY <1>7, <2>1, <2>2
  <2>4. \A t \in G : \E x \in D : order[x] = t
    BY <2>3, Onto
  <2>. QED
    BY <2>1, <2>2, <2>4
<1>9. DOMAIN table' = 1..n /\ \A i \in 1..n : table'[i] = Info(order[i])
  BY <1>2, <1>3
<1>10. Len(table') = n
  <2>1. table' \in Seq({table'[i] : i \in 1..n})
    <3>1. table' = [i \in 1..n |-> table'[i]]
      BY <1>2, <1>3
    <3>2. \E t : t = table'
      OBVIOUS
    <3>. QED
      BY <1>4, <1>9, <3>1
  <2>. QED
    BY <1>4, <1>9, <2>1
<1>11. \A s \in DOMAIN groups : Info(s)' = Info(s) /\ Info(s).sid = s
  <2>1. SUFFICES ASSUME NEW s \in DOMAIN groups PROVE Info(s)' = Info(s) /\ Info(s).sid = s
    OBVIOUS
  <2>2. groups' = groups
    BY <1>1
  <2>3. Info(s)' = Info(s)
    BY <2>2 DEF Info
  <2>4. Info(s).sid = s
    BY InfoFacts
  <2>. QED
    BY <2>3, <2>4
<1>12. \A e \in 1..n : \E s \in DOMAIN groups : table'[e] = Info(s)'
  BY <1>3, <1>9, <1>11
<1>13. \A s \in DOMAIN groups : \E e \in 1..n : table'[e] = Info(s)'
  BY <1>8, <1>9, <1>11
<1>14. \A d, e \in 1..n : d # e => table'[d].sid # table'[e].sid
  <2>1. SUFFICES ASSUME NEW d \in 1..n, NEW e \in 1..n, d # e
                 PROVE  table'[d].sid # table'[e].sid
    OBVIOUS
  <2>2. order[d] # order[e] /\ order[d] \in DOMAIN groups /\ order[e] \in DOMAIN groups
    BY <1>3, <2>1
  <2>. QED
    BY <1>9, <1>11, <2>2
<1>. QED
  BY <1>1, <1>4, <1>9, <1>10, <1>12, <1>13, <1>14 DEF TablePart

(***************************************************************************)
(* The commands, and the invariant as a whole.                             *)
(***************************************************************************)
Asking == AskList \/ AskTree \/ AskInfo \/ AskSelect \/ AskChain \/ AskName \/ AskShow

LEMMA AskFrame ==
  ASSUME Asking
  PROVE  /\ phase = "ready" /\ phase' = "answered"
         /\ UNCHANGED <<file, walkvars, tablevars>>
BY DEF Asking, Ask, AskList, AskTree, AskInfo, AskSelect, AskChain, AskName, AskShow

LEMMA AskAnswers ==
  ASSUME Asking
  PROVE  AnswerPart'
<1>1. table' = table
  BY AskFrame DEF tablevars
<1>2. CASE AskSelect
  <2>1. /\ query'.cmd = "select"
        /\ answer' = [sids |-> Selected(query'.sel), matched |-> MatchReport(query'.sel)]
    BY <1>2 DEF AskSelect, Ask
  <2>2. Selected(query.sel)' = Selected(query'.sel)
    BY <1>1 DEF Selected
  <2>3. MatchReport(query.sel)' = MatchReport(query'.sel)
    BY <1>1, <2>2 DEF MatchReport, CanonicalPath
  <2>. QED
    BY <2>1, <2>2, <2>3 DEF AnswerPart
<1>3. CASE AskName
  <2>1. /\ query'.cmd = "search" /\ answer' = resolve_one_signal(query'.sel, query'.name)
    BY <1>3 DEF AskName, Ask
  <2>2. resolve_one_signal(query.sel, query.name)' = resolve_one_signal(query'.sel, query'.name)
    BY <1>1 DEF resolve_one_signal
  <2>. QED
    BY <2>1, <2>2 DEF AnswerPart
<1>4. CASE AskList \/ AskTree \/ AskInfo \/ AskChain \/ AskShow
  <2>1. query'.cmd \in {"list", "tree", "info", "of", "show"}
    BY <1>4 DEF AskList, AskTree, AskInfo, AskChain, AskShow, Ask
  <2>. QED
    BY <2>1 DEF AnswerPart
<1>. QED
  BY <1>2, <1>3, <1>4 DEF Asking

(* A step that leaves the groups alone keeps what is known of them.        *)
LEMMA GroupsStay ==
  ASSUME GroupPart, decls' = decls, decl_idx' = decl_idx, groups' = groups,
         (phase' = "walk" => phase = "walk"),
         (phase' # "walk" => phase # "walk" /\ cache' = cache)
  PROVE  GroupPart'
<1>1. \A s \in DOMAIN groups : GroupOf(s, groups[s])'
  <2>1. SUFFICES ASSUME NEW s \in DOMAIN groups PROVE GroupOf(s, groups[s])'
    OBVIOUS
  <2>2. GroupOf(s, groups[s])
    BY DEF GroupPart
  <2>. QED
    BY <2>2 DEF GroupOf
<1>. QED
  BY <1>1 DEF GroupPart

LEMMA TableStays ==
  ASSUME TablePart, phase \in {"ready", "answered"},
         decls' = decls, decl_idx' = decl_idx, groups' = groups, table' = table
  PROVE  TablePart'
<1>1. /\ decl_idx = Len(decls)
      /\ Len(table) \in Nat /\ DOMAIN table = 1..Len(table)
      /\ \A e \in DOMAIN table : \E s \in DOMAIN groups : table[e] = Info(s)
      /\ \A s \in DOMAIN groups : \E e \in DOMAIN table : table[e] = Info(s)
      /\ \A d, e \in DOMAIN table : d # e => table[d].sid # table[e].sid
  BY DEF TablePart
<1>2. \A s \in DOMAIN groups : Info(s)' = Info(s)
  BY DEF Info
<1>3. \A e \in DOMAIN table : \E s \in DOMAIN groups : table[e] = Info(s)'
  BY <1>1, <1>2
<1>4. \A s \in DOMAIN groups : \E e \in DOMAIN table : table[e] = Info(s)'
  BY <1>1, <1>2
<1>. QED
  BY <1>1, <1>3, <1>4 DEF TablePart

LEMMA InitHolds ==
  ASSUME Init
  PROVE  ListInv
<1>1. /\ file \in Files /\ stack = <<Frame(0, << >>, << >>, "enter")>>
      /\ iterators = {} /\ cache = << >> /\ phase = "walk"
      /\ decls = << >> /\ decl_idx = 0 /\ groups = << >>
  BY DEF Init, InitWave
<1>2. Declares(cache) /\ Declares(decls)
  BY <1>1 DEF Declares
<1>3. WalkPart
  <2>1. file.format # "wellen" => WalkInv(file, stack, iterators, cache)
    <3>1. SUFFICES ASSUME file.format # "wellen" PROVE WalkInv(file, stack, iterators, cache)
      OBVIOUS
    <3>2. file.format \in {"wlf", "fsdb"} /\ IsTree(file)
      BY <1>1, <3>1, FileFacts
    <3>3. WalkInv(file, stack, {}, << >>)
      BY <1>1, <3>2, WalkStarts
    <3>. QED
      BY <1>1, <3>3
  <2>2. stack # << >>
    BY <1>1
  <2>. QED
    BY <1>1, <1>2, <2>1, <2>2 DEF WalkPart
<1>4. GroupPart
  <2>1. Len(decls) = 0 /\ DOMAIN groups = {} /\ \A i \in 1..decl_idx : FALSE
    BY <1>1
  <2>. QED
    BY <1>1, <1>2, <2>1 DEF GroupPart
<1>. QED
  BY <1>1, <1>3, <1>4 DEF ListInv, TablePart, AnswerPart

LEMMA StepKeeps ==
  ASSUME ListInv, [Next]_vars
  PROVE  ListInv'
<1>. USE DEF ListInv
<1>1. CASE WalkStep /\ UNCHANGED <<query, answer>>
  <2>1. WalkPart'
    BY <1>1, WalkStepKeeps
  <2>2. /\ phase = "walk" /\ phase' = "walk" /\ UNCHANGED tablevars
    BY <1>1 DEF WalkStep, WlfWalk, FsdbWalk, Walking, WlfOpenIterator, WlfDrain, WlfVisit,
         WlfReturn, FsdbOpenTop, FsdbOpenSignals, FsdbSignal, FsdbOpenScopes, FsdbDescend,
         FsdbReturn
  <2>3. GroupPart'
    BY <2>2, GroupsStay DEF tablevars
  <2>. QED
    BY <2>1, <2>2, <2>3 DEF TablePart, AnswerPart
<1>2. CASE WellenVars
  <2>1. WalkPart'
    BY <1>2, WellenKeeps
  <2>2. /\ phase = "walk" /\ phase' = "walk" /\ UNCHANGED tablevars
    BY <1>2 DEF WellenVars, Walking
  <2>3. GroupPart'
    BY <2>2, GroupsStay DEF tablevars
  <2>. QED
    BY <2>1, <2>2, <2>3 DEF TablePart, AnswerPart
<1>3. CASE FetchDecls
  <2>1. /\ UNCHANGED <<file, walkvars>> /\ stack = << >> /\ phase' = "group"
    BY <1>3 DEF FetchDecls
  <2>2. WalkPart'
    BY <2>1, WalkStays
  <2>3. GroupPart'
    BY <1>3, FetchKeeps
  <2>. QED
    BY <2>1, <2>2, <2>3 DEF TablePart, AnswerPart
<1>4. CASE Group
  <2>1. /\ UNCHANGED <<file, walkvars>> /\ phase = "group" /\ phase' = "group"
    BY <1>4 DEF Group
  <2>2. WalkPart'
    <3>1. stack = << >>
      BY <2>1 DEF WalkPart
    <3>. QED
      BY <2>1, <3>1, WalkStays
  <2>3. GroupPart'
    BY <1>4, GroupKeeps
  <2>. QED
    BY <2>1, <2>2, <2>3 DEF TablePart, AnswerPart
<1>5. CASE SortTable
  <2>1. /\ UNCHANGED <<file, walkvars>> /\ phase = "group" /\ phase' = "ready"
        /\ decls' = decls /\ decl_idx' = decl_idx /\ groups' = groups
    BY <1>5 DEF SortTable
  <2>2. WalkPart'
    <3>1. stack = << >>
      BY <2>1 DEF WalkPart
    <3>. QED
      BY <2>1, <3>1, WalkStays
  <2>3. GroupPart'
    BY <2>1, GroupsStay DEF walkvars
  <2>4. TablePart'
    BY <1>5, SortKeeps
  <2>. QED
    BY <2>1, <2>2, <2>3, <2>4 DEF AnswerPart
<1>6. CASE Asking
  <2>1. /\ UNCHANGED <<file, walkvars, tablevars>> /\ phase = "ready" /\ phase' = "answered"
    BY <1>6, AskFrame
  <2>2. WalkPart'
    <3>1. stack = << >>
      BY <2>1 DEF WalkPart
    <3>. QED
      BY <2>1, <3>1, WalkStays
  <2>3. GroupPart'
    BY <2>1, GroupsStay DEF walkvars, tablevars
  <2>4. TablePart'
    BY <2>1, TableStays DEF tablevars
  <2>5. AnswerPart'
    BY <1>6, AskAnswers
  <2>. QED
    BY <2>2, <2>3, <2>4, <2>5
<1>7. CASE UNCHANGED vars
  <2>1. /\ UNCHANGED <<file, walkvars, tablevars, query, answer>> /\ phase' = phase
    BY <1>7 DEF vars, wavevars
  <2>2. WalkPart'
    <3>1. file' = file /\ stack' = stack /\ iterators' = iterators /\ cache' = cache
      BY <2>1 DEF walkvars
    <3>2. file'.format # "wellen" => WalkInv(file', stack', iterators', cache')
      BY <3>1 DEF WalkPart
    <3>. QED
      BY <2>1, <3>1, <3>2 DEF WalkPart
  <2>3. GroupPart'
    BY <2>1, GroupsStay DEF walkvars, tablevars
  <2>4. TablePart'
    <3>1. CASE phase \in {"ready", "answered"}
      BY <2>1, <3>1, TableStays DEF tablevars
    <3>2. CASE phase \notin {"ready", "answered"}
      BY <2>1, <3>2 DEF TablePart
    <3>. QED
      BY <3>1, <3>2
  <2>5. AnswerPart'
    <3>1. table' = table /\ query' = query /\ answer' = answer
      BY <2>1 DEF tablevars
    <3>2. Selected(query.sel)' = Selected(query.sel)
      BY <3>1 DEF Selected
    <3>3. MatchReport(query.sel)' = MatchReport(query.sel)
      BY <3>1, <3>2 DEF MatchReport, CanonicalPath
    <3>4. resolve_one_signal(query.sel, query.name)' = resolve_one_signal(query.sel, query.name)
      BY <3>1 DEF resolve_one_signal
    <3>. QED
      BY <2>1, <3>1, <3>2, <3>3, <3>4 DEF AnswerPart
  <2>. QED
    BY <2>2, <2>3, <2>4, <2>5
<1>. QED
  BY <1>1, <1>2, <1>3, <1>4, <1>5, <1>6, <1>7 DEF Next, OpenWave, Build, WalkStep, Asking

(* The parts of the invariant hold of every reachable state.               *)
LEMMA Invariance == Spec => []ListInv
<1>1. Init => ListInv
  BY InitHolds
<1>2. ListInv /\ [Next]_vars => ListInv'
  BY StepKeeps
<1>. QED
  BY <1>1, <1>2, PTL DEF Spec

(***************************************************************************)
(* Iterators.  IteratorsClosed follows: an iterator is held by the call    *)
(* that lists with it, and of a WLF only the innermost call holds one.     *)
(***************************************************************************)
LEMMA ClosedFromInv ==
  ASSUME WalkPart
  PROVE  IteratorsClosed
<1>1. CASE file.format = "wellen"
  <2>1. iterators = {}
    BY <1>1 DEF WalkPart
  <2>. QED
    BY <1>1, <2>1 DEF IteratorsClosed
<1>2. CASE file.format # "wellen"
  <2>1. WalkInv(file, stack, iterators, cache)
    BY <1>2 DEF WalkPart
  <2>2. /\ stack \in Seq(Frames(file)) /\ iterators = HeldBy(file, stack)
        /\ \A i \in 2..Len(stack) : stack[i].stage \in {"visit", "scopes"}
    BY <2>1 DEF WalkInv
  <2>3. Len(stack) \in Nat /\ DOMAIN stack = 1..Len(stack)
    BY <2>2
  <2>4. stack = << >> => iterators = {}
    BY <2>1, WalkEnds
  <2>5. ASSUME file.format = "wlf" PROVE Cardinality(iterators) <= 1
    <3>1. \A i \in 1..Len(stack) : Held(file, stack[i]) => i = 1
      <4>1. \A i \in 1..Len(stack) : i = 1 \/ i \in 2..Len(stack)
        BY <2>3
      <4>. QED
        BY <2>2, <2>5, <4>1 DEF Held
    <3>2. iterators \subseteq {stack[1].node}
      BY <2>2, <3>1 DEF HeldBy
    <3>3. IsFiniteSet({stack[1].node}) /\ Cardinality({stack[1].node}) = 1
      BY FS_Singleton
    <3>4. IsFiniteSet(iterators) /\ Cardinality(iterators) <= Cardinality({stack[1].node})
      BY <3>2, <3>3, FS_Subset
    <3>. QED
      BY <3>3, <3>4
  <2>6. ASSUME file.format = "fsdb"
        PROVE  iterators = {stack[i].node : i \in {k \in DOMAIN stack : stack[k].stage # "enter"}}
    BY <2>2, <2>3, <2>6 DEF HeldBy, Held
  <2>. QED
    BY <2>4, <2>5, <2>6 DEF IteratorsClosed
<1>. QED
  BY <1>1, <1>2

(* A walk of the vendor's hierarchy (wlf/backend.rs, fsdb/backend.rs) ends *)
(* with no iterator open; of a WLF there is never more than one, of an     *)
(* FSDB one per scope the walk is inside of.                               *)
THEOREM IteratorsAlwaysClosed == Spec => []IteratorsClosed
<1>1. ListInv => IteratorsClosed
  BY ClosedFromInv DEF ListInv
<1>. QED
  BY <1>1, Invariance, PTL

(***************************************************************************)
(* The table.                                                              *)
(***************************************************************************)
LEMMA EveryLeafFetched ==
  ASSUME WalkPart, GroupPart, phase # "walk"
  PROVE  Len(decls) = Cardinality(LeavesOf(file))
<1>1. stack = << >> /\ Len(decls) = Len(cache) /\ file \in Files
  BY DEF WalkPart, GroupPart
<1>2. CASE file.format = "wellen"
  <2>1. Len(cache) = Len(file.vars) /\ Declares(cache)
    BY <1>1, <1>2 DEF WalkPart
  <2>2. file.vars \in Seq([full : Text, local : Text, range : Text, width : Nat, sid : Nat,
                           kind : STRING, type : STRING])
    BY <1>1, <1>2, FilesAssumption
  <2>3. DOMAIN file.vars = 1..Len(file.vars) /\ Len(file.vars) \in Nat
    BY <2>2
  <2>4. LeavesOf(file) = 1..Len(file.vars)
    BY <1>2, <2>3 DEF LeavesOf
  <2>5. PICK n \in Nat : n = Len(file.vars)
    BY <2>3
  <2>6. Cardinality(1..n) = n
    <3>1. Cardinality(1..n) = IF 1 > n THEN 0 ELSE n - 1 + 1
      BY FS_Interval
    <3>. QED
      BY <3>1
  <2>. QED
    BY <1>1, <2>1, <2>4, <2>5, <2>6
<1>3. CASE file.format # "wellen"
  <2>1. WalkInv(file, stack, iterators, cache)
    BY <1>3 DEF WalkPart
  <2>. QED
    BY <1>1, <2>1, WalkEnds
<1>. QED
  BY <1>2, <1>3

(* What the commands find in the table.                                    *)
LEMMA EntryFacts ==
  ASSUME GroupPart, TablePart, phase \in {"ready", "answered"}
  PROVE  /\ Len(table) \in Nat /\ DOMAIN table = 1..Len(table)
         /\ \A e \in DOMAIN table :
              /\ Sorted(table[e].aliases)
              /\ table[e].decl_order \in 1..Len(decls)
              /\ decls[table[e].decl_order].sid = table[e].sid
              /\ \A j \in 1..Len(decls) :
                   decls[j].sid = table[e].sid => table[e].decl_order <= j
         /\ \A i \in 1..Len(decls) : \E e \in DOMAIN table :
              /\ table[e].sid = decls[i].sid
              /\ \E k \in DOMAIN table[e].aliases : table[e].aliases[k].path = decls[i].path
         /\ \A d, e \in DOMAIN table : d # e => table[d].sid # table[e].sid
<1>1. /\ decl_idx = Len(decls) /\ Len(table) \in Nat /\ DOMAIN table = 1..Len(table)
      /\ \A e \in DOMAIN table : \E s \in DOMAIN groups : table[e] = Info(s)
      /\ \A s \in DOMAIN groups : \E e \in DOMAIN table : table[e] = Info(s)
      /\ \A d, e \in DOMAIN table : d # e => table[d].sid # table[e].sid
  BY DEF TablePart
<1>2. ASSUME NEW e \in DOMAIN table
      PROVE  /\ Sorted(table[e].aliases)
             /\ table[e].decl_order \in 1..Len(decls)
             /\ decls[table[e].decl_order].sid = table[e].sid
             /\ \A j \in 1..Len(decls) :
                  decls[j].sid = table[e].sid => table[e].decl_order <= j
  <2>1. PICK s \in DOMAIN groups : table[e] = Info(s)
    BY <1>1
  <2>2. /\ Info(s).sid = s /\ Info(s).decl_order \in 1..decl_idx
        /\ decls[Info(s).decl_order].sid = s
        /\ \A j \in 1..decl_idx : decls[j].sid = s => Info(s).decl_order <= j
        /\ Sorted(Info(s).aliases)
    BY InfoFacts
  <2>. QED
    BY <1>1, <2>1, <2>2
<1>3. ASSUME NEW i \in 1..Len(decls)
      PROVE  \E e \in DOMAIN table :
              /\ table[e].sid = decls[i].sid
              /\ \E k \in DOMAIN table[e].aliases : table[e].aliases[k].path = decls[i].path
  <2>1. PICK s : s = decls[i].sid
    OBVIOUS
  <2>2. s \in DOMAIN groups
    BY <1>1, <2>1 DEF GroupPart
  <2>3. PICK e \in DOMAIN table : table[e] = Info(s)
    BY <1>1, <2>2
  <2>4. Info(s).sid = s
    BY <2>2, InfoFacts
  <2>5. \E k \in DOMAIN Info(s).aliases : Info(s).aliases[k].path = decls[i].path
    BY <1>1, <2>1, <2>2, InfoFacts
  <2>. QED
    BY <2>1, <2>3, <2>4, <2>5
<1>. QED
  BY <1>1, <1>2, <1>3

LEMMA CompleteFromInv ==
  ASSUME WalkPart, GroupPart, TablePart
  PROVE  TableIsComplete
<1>1. SUFFICES ASSUME phase \notin {"walk", "group"}
               PROVE  /\ Len(decls) = Cardinality(LeavesOf(file))
                      /\ \A i \in DOMAIN decls :
                           \E e \in DOMAIN table :
                             /\ table[e].sid = decls[i].sid
                             /\ \E k \in DOMAIN table[e].aliases :
                                  table[e].aliases[k].path = decls[i].path
                      /\ \A e \in DOMAIN table : \A k, m \in DOMAIN table[e].aliases :
                           k < m => TextLess(table[e].aliases[k].path, table[e].aliases[m].path)
                      /\ \A d, e \in DOMAIN table :
                           d # e => /\ table[d].sid # table[e].sid
                                    /\ table[d].decl_order < table[e].decl_order =>
                                         \E i \in DOMAIN decls :
                                           /\ decls[i].sid = table[d].sid
                                           /\ \A j \in 1 .. i : decls[j].sid # table[e].sid
  BY DEF TableIsComplete
<1>2. phase \in {"ready", "answered"} /\ phase # "walk"
  BY <1>1 DEF WalkPart
<1>3. Len(decls) = Cardinality(LeavesOf(file))
  BY <1>2, EveryLeafFetched
<1>4. DOMAIN decls = 1..Len(decls) /\ Len(decls) \in Nat
  BY DEF GroupPart, Declares
<1>5. \A e \in DOMAIN table :
              /\ Sorted(table[e].aliases)
              /\ table[e].decl_order \in 1..Len(decls)
              /\ decls[table[e].decl_order].sid = table[e].sid
              /\ \A j \in 1..Len(decls) :
                   decls[j].sid = table[e].sid => table[e].decl_order <= j
  BY <1>2, EntryFacts
<1>6. \A i \in DOMAIN decls :
        \E e \in DOMAIN table :
          /\ table[e].sid = decls[i].sid
          /\ \E k \in DOMAIN table[e].aliases : table[e].aliases[k].path = decls[i].path
  BY <1>2, <1>4, EntryFacts
<1>7. \A d, e \in DOMAIN table : d # e => table[d].sid # table[e].sid
  BY <1>2, EntryFacts
<1>8. ASSUME NEW d \in DOMAIN table, NEW e \in DOMAIN table, d # e,
             table[d].decl_order < table[e].decl_order
      PROVE  \E i \in DOMAIN decls :
               /\ decls[i].sid = table[d].sid
               /\ \A j \in 1 .. i : decls[j].sid # table[e].sid
  <2>1. PICK i : i = table[d].decl_order
    OBVIOUS
  <2>2. PICK x : x = table[e].decl_order
    OBVIOUS
  <2>3. i \in 1..Len(decls) /\ x \in 1..Len(decls) /\ decls[i].sid = table[d].sid /\ i < x
    BY <1>5, <1>8, <2>1, <2>2
  <2>4. \A j \in 1..Len(decls) : decls[j].sid = table[e].sid => x <= j
    BY <1>5, <2>2
  <2>5. \A j \in 1..i : decls[j].sid # table[e].sid
    <3>1. SUFFICES ASSUME NEW j \in 1..i PROVE decls[j].sid # table[e].sid
      OBVIOUS
    <3>2. j \in 1..Len(decls) /\ ~(x <= j)
      BY <1>4, <2>3
    <3>. QED
      BY <2>4, <3>2
  <2>. QED
    BY <1>4, <2>3, <2>5
<1>9. \A e \in DOMAIN table : \A k, m \in DOMAIN table[e].aliases :
        k < m => TextLess(table[e].aliases[k].path, table[e].aliases[m].path)
  BY <1>5 DEF Sorted
<1>. QED
  BY <1>3, <1>6, <1>7, <1>8, <1>9

(* The walks of every backend declare as many leaves as the file has, and  *)
(* build_signal_table (model.rs) drops none of their paths and doubles     *)
(* none, and keeps the order in which the recordings were first declared.  *)
THEOREM TableAlwaysComplete == Spec => []TableIsComplete
<1>1. ListInv => TableIsComplete
  BY CompleteFromInv DEF ListInv
<1>. QED
  BY <1>1, Invariance, PTL

(***************************************************************************)
(* `list`.                                                                 *)
(***************************************************************************)
Tabled == GroupPart /\ TablePart /\ phase \in {"ready", "answered"}

Shown(sel, e) ==
  {k \in DOMAIN table[e].aliases : is_all(sel) \/ displays_alias(sel, table[e].aliases[k])}
Row(e, k) == <<table[e].aliases[k].path, e, k>>
RowSet(sel) == UNION {{Row(e, k) : k \in Shown(sel, e)} : e \in Selected(sel)}
RowBefore(r, q) == TextLess(r[1], q[1]) \/ (r[1] = q[1] /\ r[2] < q[2])
RowOrder(S) == {p \in S \X S : RowBefore(p[1], p[2])}

(* What a function on a finite set gives is finite, and no more.           *)
LEMMA ImageFinite ==
  ASSUME NEW f, IsFiniteSet(DOMAIN f), f = [x \in DOMAIN f |-> f[x]]
  PROVE  /\ IsFiniteSet({f[x] : x \in DOMAIN f})
         /\ Cardinality({f[x] : x \in DOMAIN f}) <= Cardinality(DOMAIN f)
<1>. DEFINE S == DOMAIN f
            T == {f[x] : x \in S}
<1>1. f \in [S -> T] /\ \A t \in T : \E x \in S : f[x] = t
  OBVIOUS
<1>. HIDE DEF T
<1>2. f \in Surjection(S, T)
  BY <1>1, Fun_IsSurj
<1>3. IsFiniteSet(T) /\ Cardinality(T) <= Cardinality(S)
  BY <1>2, FS_Surjection
<1>. QED
  BY <1>3 DEF T

LEMMA EntryAliases ==
  ASSUME Tabled, NEW e \in DOMAIN table
  PROVE  /\ e \in Nat /\ 1 \in DOMAIN table[e].aliases
         /\ IsFiniteSet(DOMAIN table[e].aliases) /\ DOMAIN table[e].aliases \subseteq Nat
         /\ \A k \in DOMAIN table[e].aliases :
              table[e].aliases[k].path \in Text /\ table[e].aliases[k].scope \in Text
         /\ \A k, m \in DOMAIN table[e].aliases :
              table[e].aliases[k].path = table[e].aliases[m].path => k = m
<1>1. /\ Len(table) \in Nat /\ DOMAIN table = 1..Len(table) /\ Sorted(table[e].aliases)
  BY EntryFacts DEF Tabled
<1>2. PICK as : as = table[e].aliases
  OBVIOUS
<1>3. PICK n \in Nat \ {0} : DOMAIN as = 1..n
  BY <1>1, <1>2 DEF Sorted
<1>4. /\ \A k \in 1..n : as[k].path \in Text /\ as[k].scope \in Text
      /\ \A k, m \in 1..n : k < m => TextLess(as[k].path, as[m].path)
  BY <1>1, <1>2, <1>3 DEF Sorted
<1>5. IsFiniteSet(1..n) /\ 1 \in 1..n /\ 1..n \subseteq Nat
  BY FS_Interval
<1>6. ASSUME NEW k \in 1..n, NEW m \in 1..n, as[k].path = as[m].path PROVE k = m
  <2>1. as[k].path \in Text /\ as[m].path \in Text
    BY <1>4
  <2>2. ~TextLess(as[k].path, as[m].path) /\ ~TextLess(as[m].path, as[k].path)
    BY <1>6, <2>1, LessIrreflexive
  <2>3. ~(k < m) /\ ~(m < k)
    BY <1>4, <2>2
  <2>. QED
    BY <2>3
<1>. QED
  BY <1>1, <1>2, <1>3, <1>4, <1>5, <1>6

LEMMA SelectedFinite ==
  ASSUME Tabled, NEW sel
  PROVE  IsFiniteSet(Selected(sel)) /\ Selected(sel) \subseteq DOMAIN table
<1>1. Len(table) \in Nat /\ DOMAIN table = 1..Len(table)
  BY EntryFacts DEF Tabled
<1>2. PICK n \in Nat : DOMAIN table = 1..n
  BY <1>1
<1>3. IsFiniteSet(1..n)
  BY FS_Interval
<1>4. Selected(sel) \subseteq DOMAIN table
  BY DEF Selected
<1>. QED
  BY <1>2, <1>3, <1>4, FS_Subset

LEMMA RowSetFacts ==
  ASSUME Tabled, NEW sel
  PROVE  /\ IsFiniteSet(RowSet(sel))
         /\ \A r \in RowSet(sel) : \E e \in Selected(sel) : \E k \in Shown(sel, e) : r = Row(e, k)
         /\ \A e \in Selected(sel) : \A k \in Shown(sel, e) : Row(e, k) \in RowSet(sel)
<1>1. \A r \in RowSet(sel) : \E e \in Selected(sel) : \E k \in Shown(sel, e) : r = Row(e, k)
  BY DEF RowSet
<1>2. \A e \in Selected(sel) : \A k \in Shown(sel, e) : Row(e, k) \in RowSet(sel)
  BY DEF RowSet
<1>3. ASSUME NEW e \in Selected(sel) PROVE IsFiniteSet({Row(e, k) : k \in Shown(sel, e)})
  <2>1. IsFiniteSet(DOMAIN table[e].aliases)
    BY SelectedFinite, EntryAliases
  <2>2. Shown(sel, e) \subseteq DOMAIN table[e].aliases
    BY DEF Shown
  <2>3. IsFiniteSet(Shown(sel, e))
    BY <2>1, <2>2, FS_Subset
  <2>4. PICK f : f = [k \in Shown(sel, e) |-> Row(e, k)]
    OBVIOUS
  <2>5. DOMAIN f = Shown(sel, e) /\ f = [x \in DOMAIN f |-> f[x]]
    BY <2>4
  <2>6. IsFiniteSet({f[x] : x \in DOMAIN f})
    BY <2>3, <2>5, ImageFinite
  <2>7. {f[x] : x \in DOMAIN f} = {Row(e, k) : k \in Shown(sel, e)}
    BY <2>4
  <2>. QED
    BY <2>6, <2>7
<1>4. IsFiniteSet(RowSet(sel))
  <2>1. PICK f : f = [e \in Selected(sel) |-> {Row(e, k) : k \in Shown(sel, e)}]
    OBVIOUS
  <2>2. DOMAIN f = Selected(sel) /\ f = [x \in DOMAIN f |-> f[x]]
    BY <2>1
  <2>3. IsFiniteSet({f[x] : x \in DOMAIN f})
    BY <2>2, SelectedFinite, ImageFinite
  <2>4. {f[x] : x \in DOMAIN f} = {{Row(e, k) : k \in Shown(sel, e)} : e \in Selected(sel)}
    BY <2>1
  <2>. DEFINE Parts == {{Row(e, k) : k \in Shown(sel, e)} : e \in Selected(sel)}
  <2>5. IsFiniteSet(Parts) /\ \A P \in Parts : IsFiniteSet(P)
    BY <1>3, <2>3, <2>4
  <2>6. RowSet(sel) = UNION Parts
    BY DEF RowSet
  <2>. HIDE DEF Parts
  <2>. QED
    BY <2>5, <2>6, FS_UNION
<1>. QED
  BY <1>1, <1>2, <1>4

LEMMA RowsOrdered ==
  ASSUME Tabled, NEW sel
  PROVE  StrictTotal(RowSet(sel), RowOrder(RowSet(sel)))
<1>. DEFINE S == RowSet(sel)
            R == RowOrder(S)
<1>1. ASSUME NEW r \in S
      PROVE  r[1] \in Text /\ r[2] \in Nat /\ \E k \in DOMAIN table[r[2]].aliases :
               r[2] \in DOMAIN table /\ r = Row(r[2], k)
  <2>1. PICK e \in Selected(sel) : \E k \in Shown(sel, e) : r = Row(e, k)
    BY RowSetFacts
  <2>2. PICK k \in Shown(sel, e) : r = Row(e, k)
    BY <2>1
  <2>3. e \in DOMAIN table /\ k \in DOMAIN table[e].aliases
    BY SelectedFinite DEF Shown
  <2>4. r[1] = table[e].aliases[k].path /\ r[2] = e
    BY <2>2 DEF Row
  <2>. QED
    BY <2>2, <2>3, <2>4, EntryAliases
<1>2. ASSUME NEW r \in S, NEW q \in S, r[1] = q[1], r[2] = q[2] PROVE r = q
  <2>1. PICK k \in DOMAIN table[r[2]].aliases : r[2] \in DOMAIN table /\ r = Row(r[2], k)
    BY <1>1
  <2>2. PICK m \in DOMAIN table[q[2]].aliases : q = Row(q[2], m)
    BY <1>1
  <2>3. PICK e : e = r[2]
    OBVIOUS
  <2>4. e \in DOMAIN table /\ r = Row(e, k) /\ q = Row(e, m)
        /\ k \in DOMAIN table[e].aliases /\ m \in DOMAIN table[e].aliases
    BY <1>2, <2>1, <2>2, <2>3
  <2>5. r[1] = table[e].aliases[k].path /\ q[1] = table[e].aliases[m].path
    BY <2>4 DEF Row
  <2>6. table[e].aliases[k].path = table[e].aliases[m].path
    BY <1>2, <2>5
  <2>7. k = m
    BY <2>4, <2>6, EntryAliases
  <2>. QED
    BY <2>4, <2>7
<1>3. \A r, q \in S : <<r, q>> \in R <=> RowBefore(r, q)
  <2>1. SUFFICES ASSUME NEW r \in S, NEW q \in S PROVE <<r, q>> \in R <=> RowBefore(r, q)
    OBVIOUS
  <2>2. <<r, q>> \in S \X S /\ <<r, q>>[1] = r /\ <<r, q>>[2] = q
    OBVIOUS
  <2>. HIDE DEF S
  <2>. QED
    BY <2>2 DEF RowOrder
<1>. HIDE DEF S, R
<1>4. \A r \in S : <<r, r>> \notin R
  <2>1. SUFFICES ASSUME NEW r \in S PROVE ~RowBefore(r, r)
    BY <1>3
  <2>2. r[1] \in Text /\ r[2] \in Nat
    BY <1>1
  <2>3. ~TextLess(r[1], r[1]) /\ ~(r[2] < r[2])
    BY <2>2, LessIrreflexive
  <2>. QED
    BY <2>3 DEF RowBefore
<1>5. \A r, q \in S : r # q => <<r, q>> \in R \/ <<q, r>> \in R
  <2>1. SUFFICES ASSUME NEW r \in S, NEW q \in S, r # q PROVE RowBefore(r, q) \/ RowBefore(q, r)
    BY <1>3
  <2>2. r[1] \in Text /\ q[1] \in Text /\ r[2] \in Nat /\ q[2] \in Nat
    BY <1>1
  <2>3. CASE r[1] # q[1]
    BY <2>2, <2>3, LessTotal DEF RowBefore
  <2>4. CASE r[1] = q[1]
    <3>1. r[2] # q[2]
      BY <1>2, <2>1, <2>4
    <3>2. r[2] < q[2] \/ q[2] < r[2]
      BY <2>2, <3>1
    <3>. QED
      BY <2>4, <3>2 DEF RowBefore
  <2>. QED
    BY <2>3, <2>4
<1>6. ASSUME NEW r \in S, NEW q \in S, NEW t \in S, <<r, q>> \in R, <<q, t>> \in R
      PROVE  <<r, t>> \in R
  <2>1. RowBefore(r, q) /\ RowBefore(q, t)
    BY <1>3, <1>6
  <2>2. r[1] \in Text /\ q[1] \in Text /\ t[1] \in Text
        /\ r[2] \in Nat /\ q[2] \in Nat /\ t[2] \in Nat
    BY <1>1
  <2>3. TextLess(r[1], q[1]) /\ TextLess(q[1], t[1]) => TextLess(r[1], t[1])
    BY <2>2, LessTransitive
  <2>4. r[2] < q[2] /\ q[2] < t[2] => r[2] < t[2]
    BY <2>2
  <2>5. RowBefore(r, t)
    BY <2>1, <2>3, <2>4 DEF RowBefore
  <2>. QED
    BY <1>3, <2>5
<1>7. StrictTotal(S, R)
  BY <1>4, <1>5, <1>6 DEF StrictTotal
<1>. QED
  BY <1>7 DEF S, R

(* The rows printed are the rows there are.                                *)
LEMMA ListedRows ==
  ASSUME Tabled, NEW sel
  PROVE  /\ \A i \in DOMAIN ListRows(sel) : ListRows(sel)[i] \in RowSet(sel)
         /\ \A r \in RowSet(sel) : \E i \in DOMAIN ListRows(sel) : ListRows(sel)[i] = r
<1>1. ListRows(sel) = InOrder(RowSet(sel), RowOrder(RowSet(sel)))
  BY DEF ListRows, RowSet, RowOrder, RowBefore, Row, Shown
<1>2. PICK S : S = RowSet(sel)
  OBVIOUS
<1>3. PICK R : R = RowOrder(S)
  OBVIOUS
<1>4. StrictTotal(S, R) /\ IsFiniteSet(S)
  BY <1>2, <1>3, RowsOrdered, RowSetFacts
<1>5. /\ DOMAIN InOrder(S, R) = 1..Cardinality(S)
      /\ \A k \in 1..Cardinality(S) : InOrder(S, R)[k] \in S
      /\ \A x \in S : \E k \in 1..Cardinality(S) : InOrder(S, R)[k] = x
  BY <1>4, InOrderFacts
<1>. QED
  BY <1>1, <1>2, <1>3, <1>5

(* An alias that clears every gate is one `list` may print.                *)
LEMMA KeptIsDisplayed ==
  ASSUME NEW sel, NEW a, keeps_alias(sel, a)
  PROVE  displays_alias(sel, a)
BY DEF keeps_alias, displays_alias

(* The alias a match is reported through.                                  *)
LEMMA MatchedIsShown ==
  ASSUME Tabled, NEW sel, NEW e \in Selected(sel), ~is_all(sel)
  PROVE  \E k \in Shown(sel, e) : matched_alias(sel, table[e]) = table[e].aliases[k].path
<1>. DEFINE kept == {i \in DOMAIN table[e].aliases : keeps_alias(sel, table[e].aliases[i])}
<1>1. e \in DOMAIN table /\ keeps_signal(sel, table[e])
  BY DEF Selected
<1>2. kept # {} /\ kept \subseteq Nat
  BY <1>1, EntryAliases DEF keeps_signal
<1>3. \E i \in kept : \A j \in kept : i <= j
  <2>. HIDE DEF kept
  <2>. QED
    BY <1>2, LeastNatural
<1>4. PICK k \in kept : matched_alias(sel, table[e]) = table[e].aliases[k].path
  BY <1>3 DEF matched_alias
<1>5. k \in DOMAIN table[e].aliases /\ keeps_alias(sel, table[e].aliases[k])
  OBVIOUS
<1>6. displays_alias(sel, table[e].aliases[k])
  BY <1>5, KeptIsDisplayed
<1>. QED
  BY <1>4, <1>5, <1>6 DEF Shown

LEMMA SelectedIsShown ==
  ASSUME Tabled, NEW sel, NEW e \in Selected(sel)
  PROVE  \E k : k \in Shown(sel, e)
<1>1. e \in DOMAIN table
  BY SelectedFinite
<1>2. CASE is_all(sel)
  <2>1. 1 \in DOMAIN table[e].aliases
    BY <1>1, EntryAliases
  <2>. QED
    BY <1>2, <2>1 DEF Shown
<1>3. CASE ~is_all(sel)
  BY <1>3, MatchedIsShown
<1>. QED
  BY <1>2, <1>3

LEMMA ReportFacts ==
  ASSUME Tabled, NEW sel
  PROVE  /\ \A m \in MatchReport(sel) : \E e \in Selected(sel) :
              /\ ~is_all(sel) /\ m[1] = matched_alias(sel, table[e])
              /\ m[2] = CanonicalPath(table[e])
         /\ Cardinality({m[2] : m \in MatchReport(sel)}) <= Cardinality(Selected(sel))
<1>1. ASSUME NEW m \in MatchReport(sel)
      PROVE  \E e \in Selected(sel) :
              /\ ~is_all(sel) /\ m[1] = matched_alias(sel, table[e])
              /\ m[2] = CanonicalPath(table[e])
  <2>1. ~is_all(sel)
    BY <1>1 DEF MatchReport
  <2>2. MatchReport(sel) =
          {<<matched_alias(sel, table[e]), CanonicalPath(table[e])>> : e \in Selected(sel)}
    BY <2>1 DEF MatchReport
  <2>3. PICK e \in Selected(sel) : m = <<matched_alias(sel, table[e]), CanonicalPath(table[e])>>
    BY <2>2
  <2>. QED
    BY <2>1, <2>3
<1>2. Cardinality({m[2] : m \in MatchReport(sel)}) <= Cardinality(Selected(sel))
  <2>1. PICK f : f = [e \in Selected(sel) |-> CanonicalPath(table[e])]
    OBVIOUS
  <2>2. DOMAIN f = Selected(sel) /\ f = [x \in DOMAIN f |-> f[x]]
        /\ \A e \in Selected(sel) : f[e] = CanonicalPath(table[e])
    BY <2>1
  <2>. DEFINE T == {f[x] : x \in DOMAIN f}
              C == {m[2] : m \in MatchReport(sel)}
  <2>3. IsFiniteSet(T) /\ Cardinality(T) <= Cardinality(Selected(sel))
    BY <2>2, SelectedFinite, ImageFinite
  <2>4. C \subseteq T
    <3>1. SUFFICES ASSUME NEW m \in MatchReport(sel) PROVE m[2] \in T
      OBVIOUS
    <3>2. PICK e \in Selected(sel) : m[2] = CanonicalPath(table[e])
      BY <1>1
    <3>. QED
      BY <2>2, <3>2
  <2>. HIDE DEF T
  <2>5. IsFiniteSet(C) /\ Cardinality(C) <= Cardinality(T)
    <3>. HIDE DEF C
    <3>. QED
      BY <2>3, <2>4, FS_Subset
  <2>6. IsFiniteSet(Selected(sel))
    BY SelectedFinite
  <2>7. Cardinality(C) \in Nat /\ Cardinality(T) \in Nat /\ Cardinality(Selected(sel)) \in Nat
    <3>. HIDE DEF C
    <3>. QED
      BY <2>3, <2>5, <2>6, FS_CardinalityType
  <2>. QED
    BY <2>3, <2>5, <2>7
<1>. QED
  BY <1>1, <1>2

LEMMA ListShowsFromInv ==
  ASSUME ListInv
  PROVE  ListShowsTheSelection
<1>. DEFINE rows == ListRows(query.sel)
<1>1. SUFFICES ASSUME phase = "answered", query.cmd = "select"
               PROVE  /\ {rows[i][2] : i \in DOMAIN rows} = answer.sids
                      /\ \A m \in answer.matched : \E i \in DOMAIN rows :
                           rows[i][1] = m[1] /\ CanonicalPath(table[rows[i][2]]) = m[2]
                      /\ Cardinality({m[2] : m \in answer.matched}) <= Cardinality(answer.sids)
  BY DEF ListShowsTheSelection, Answered
<1>2. Tabled
  BY <1>1 DEF ListInv, Tabled
<1>3. PICK sel : sel = query.sel
  OBVIOUS
<1>4. answer.sids = Selected(sel) /\ answer.matched = MatchReport(sel)
  BY <1>1, <1>3 DEF ListInv, AnswerPart
<1>5. /\ \A i \in DOMAIN rows : rows[i] \in RowSet(sel)
      /\ \A r \in RowSet(sel) : \E i \in DOMAIN rows : rows[i] = r
  BY <1>2, <1>3, ListedRows
<1>. HIDE DEF rows
<1>6. ASSUME NEW i \in DOMAIN rows PROVE rows[i][2] \in Selected(sel)
  <2>1. PICK r \in RowSet(sel) : rows[i] = r
    BY <1>5
  <2>2. PICK e \in Selected(sel) : \E k \in Shown(sel, e) : r = Row(e, k)
    BY <1>2, RowSetFacts
  <2>. QED
    BY <2>1, <2>2 DEF Row
<1>7. ASSUME NEW e \in Selected(sel), NEW k \in Shown(sel, e)
      PROVE  \E i \in DOMAIN rows : rows[i] = Row(e, k)
  <2>1. Row(e, k) \in RowSet(sel)
    BY <1>2, RowSetFacts
  <2>. QED
    BY <1>5, <2>1
<1>8. {rows[i][2] : i \in DOMAIN rows} = answer.sids
  <2>1. ASSUME NEW e \in Selected(sel) PROVE \E i \in DOMAIN rows : rows[i][2] = e
    <3>1. PICK k \in Shown(sel, e) : TRUE
      BY <1>2, SelectedIsShown
    <3>2. PICK i \in DOMAIN rows : rows[i] = Row(e, k)
      BY <1>7
    <3>. QED
      BY <3>2 DEF Row
  <2>. QED
    BY <1>4, <1>6, <2>1
<1>9. ASSUME NEW m \in answer.matched
      PROVE  \E i \in DOMAIN rows :
               rows[i][1] = m[1] /\ CanonicalPath(table[rows[i][2]]) = m[2]
  <2>1. m \in MatchReport(sel)
    BY <1>4
  <2>2. PICK e \in Selected(sel) : /\ ~is_all(sel) /\ m[1] = matched_alias(sel, table[e])
                                   /\ m[2] = CanonicalPath(table[e])
    BY <1>2, <2>1, ReportFacts
  <2>3. PICK k \in Shown(sel, e) : matched_alias(sel, table[e]) = table[e].aliases[k].path
    BY <1>2, <2>2, MatchedIsShown
  <2>4. PICK i \in DOMAIN rows : rows[i] = Row(e, k)
    BY <1>7
  <2>5. rows[i][1] = table[e].aliases[k].path /\ rows[i][2] = e
    BY <2>4 DEF Row
  <2>. QED
    BY <2>2, <2>3, <2>5
<1>10. Cardinality({m[2] : m \in answer.matched}) <= Cardinality(answer.sids)
  BY <1>2, <1>4, ReportFacts
<1>. QED
  BY <1>8, <1>9, <1>10

(* What the value commands select (select.rs, common.rs) is what `list`    *)
(* prints under the same options, and every name they report a signal by   *)
(* is one of its rows.                                                     *)
THEOREM ListAlwaysShowsTheSelection == Spec => []ListShowsTheSelection
<1>1. ListInv => ListShowsTheSelection
  BY ListShowsFromInv
<1>. QED
  BY <1>1, Invariance, PTL

(***************************************************************************)
(* Names.                                                                  *)
(***************************************************************************)
LEMMA SymbolFacts ==
  /\ Sep \notin Letter /\ Star \notin Letter /\ AnyOne \notin Letter
  /\ Star # Sep /\ AnyOne # Sep
  /\ \A c \in Letter : Lower[c] \in Letter
<1>1. /\ Sep \notin Letter /\ Star \notin Letter /\ AnyOne \notin Letter
      /\ Cardinality({Sep, Star, AnyOne}) = 3
      /\ Lower \in [Letter -> Letter]
  BY PathsAssumption
<1>2. \A x, y : {x, y} = {x} \cup {y}
  OBVIOUS
<1>3. \A x, y : IsFiniteSet({x, y}) /\ Cardinality({x, y}) <= 2
  <2>1. SUFFICES ASSUME NEW x, NEW y PROVE IsFiniteSet({x, y}) /\ Cardinality({x, y}) <= 2
    OBVIOUS
  <2>2. IsFiniteSet({x}) /\ Cardinality({x}) = 1
    BY FS_Singleton
  <2>3. /\ IsFiniteSet({x} \cup {y})
        /\ Cardinality({x} \cup {y}) = IF y \in {x} THEN Cardinality({x}) ELSE Cardinality({x}) + 1
    BY <2>2, FS_AddElement
  <2>. QED
    BY <1>2, <2>2, <2>3
<1>4. ASSUME Star = Sep PROVE FALSE
  <2>1. {Sep, Star, AnyOne} = {Sep, AnyOne}
    BY <1>4
  <2>2. Cardinality({Sep, AnyOne}) <= 2
    BY <1>3
  <2>. QED
    BY <1>1, <2>1, <2>2
<1>5. ASSUME AnyOne = Sep PROVE FALSE
  <2>1. {Sep, Star, AnyOne} = {Sep, Star}
    BY <1>5
  <2>2. Cardinality({Sep, Star}) <= 2
    BY <1>3
  <2>. QED
    BY <1>1, <2>1, <2>2
<1>. QED
  BY <1>1, <1>4, <1>5

(* Lower case keeps a text's length and its separators.                    *)
LEMMA LowerFacts ==
  ASSUME NEW s \in Text
  PROVE  /\ lower(s) \in Text /\ Len(lower(s)) = Len(s) /\ DOMAIN lower(s) = DOMAIN s
         /\ \A i \in DOMAIN s : lower(s)[i] \in Symbol
<1>1. Len(s) \in Nat /\ DOMAIN s = 1..Len(s) /\ \A i \in 1..Len(s) : s[i] \in Symbol
  BY TextFacts
<1>2. \A i \in 1..Len(s) : (IF s[i] \in Letter THEN Lower[s[i]] ELSE s[i]) \in Symbol
  BY <1>1, SymbolFacts DEF Symbol
<1>3. lower(s) = [i \in 1..Len(s) |-> IF s[i] \in Letter THEN Lower[s[i]] ELSE s[i]]
  BY <1>1 DEF lower
<1>4. lower(s) \in [1..Len(s) -> Symbol]
  BY <1>2, <1>3
<1>5. lower(s) \in Seq(Symbol) /\ Len(lower(s)) = Len(s) /\ DOMAIN lower(s) = 1..Len(s)
  BY <1>1, <1>4
<1>. QED
  BY <1>1, <1>4, <1>5 DEF Text, Symbol

(* A name that is a text but for its case has no wildcard, and has         *)
(* separators where the text has.                                          *)
LEMMA SpelledExactly ==
  ASSUME NEW s \in Text, NEW p, lower(s) = lower(p)
  PROVE  ~IsWild(p) /\ (HasSep(p) <=> HasSep(s))
<1>1. DOMAIN lower(p) = DOMAIN p
      /\ \A i \in DOMAIN p : lower(p)[i] = IF p[i] \in Letter THEN Lower[p[i]] ELSE p[i]
  BY DEF lower
<1>2. DOMAIN lower(s) = DOMAIN s
      /\ \A i \in DOMAIN s : lower(s)[i] = IF s[i] \in Letter THEN Lower[s[i]] ELSE s[i]
  BY DEF lower
<1>3. DOMAIN p = DOMAIN s
  BY <1>1, <1>2
<1>4. \A i \in DOMAIN p : lower(p)[i] \in Symbol
  BY <1>3, LowerFacts
<1>5. ~IsWild(p)
  <2>1. SUFFICES ASSUME NEW i \in DOMAIN p, p[i] \in {Star, AnyOne} PROVE FALSE
    BY DEF IsWild
  <2>2. lower(p)[i] = p[i]
    BY <1>1, <2>1, SymbolFacts
  <2>. QED
    BY <1>4, <2>1, <2>2, SymbolFacts DEF Symbol
<1>6. \A i \in DOMAIN p : p[i] = Sep <=> s[i] = Sep
  <2>1. SUFFICES ASSUME NEW i \in DOMAIN p PROVE p[i] = Sep <=> s[i] = Sep
    OBVIOUS
  <2>2. p[i] = Sep <=> lower(p)[i] = Sep
    BY <1>1, SymbolFacts
  <2>3. s[i] = Sep <=> lower(s)[i] = Sep
    BY <1>2, <1>3, SymbolFacts
  <2>. QED
    BY <2>2, <2>3
<1>7. HasSep(p) <=> HasSep(s)
  BY <1>3, <1>6 DEF HasSep
<1>. QED
  BY <1>5, <1>7

(* An alias spelled exactly matches the pattern too.                       *)
LEMMA ExactMatches ==
  ASSUME NEW s \in Text, NEW scope \in Text, NEW p, lower(s) = lower(p)
  PROVE  PatMatches(p, FALSE, s, leaf_of(s, scope))
<1>1. ~IsWild(p) /\ (HasSep(p) <=> HasSep(s))
  BY SpelledExactly
<1>2. HasSep(p) \/ leaf_of(s, scope) = s
  <2>1. SUFFICES ASSUME ~HasSep(p) PROVE leaf_of(s, scope) = s
    OBVIOUS
  <2>2. \A i \in 1..Len(s) : s[i] # Sep
    BY <1>1, <2>1, TextFacts DEF HasSep
  <2>3. Len(s) > Len(scope) => Len(scope) + 1 \in 1..Len(s)
    BY TextFacts
  <2>. QED
    BY <2>2, <2>3 DEF leaf_of
<1>3. lower(IF HasSep(p) THEN s ELSE leaf_of(s, scope)) = lower(s)
  BY <1>2
<1>4. lower(s) \in Text /\ Len(lower(s)) \in Nat
  BY LowerFacts, TextFacts
<1>5. HasSubstring(lower(s), lower(s))
  <2>1. PICK h : h = lower(s)
    OBVIOUS
  <2>2. h \in Seq(Symbol) /\ Len(h) \in Nat
    BY <1>4, <2>1 DEF Text, Symbol
  <2>3. SubSeq(h, 1, Len(h)) = h
    BY <2>2, SubSeqFull
  <2>4. 0 \in 0..(Len(h) - Len(h)) /\ 0 + 1 = 1 /\ 0 + Len(h) = Len(h)
    BY <2>2
  <2>5. SubSeq(h, 0 + 1, 0 + Len(h)) = h
    BY <2>3, <2>4
  <2>. QED
    BY <2>1, <2>4, <2>5 DEF HasSubstring
<1>. QED
  BY <1>1, <1>3, <1>5 DEF PatMatches

(* What Unique finds is the only one there is.                             *)
LEMMA UniqueFacts ==
  ASSUME NEW S, IsFiniteSet(S)
  PROVE  /\ Unique(S).ok <=> Cardinality(S) = 1
         /\ Unique(S).ok => Unique(S).found \in S /\ \A x \in S : x = Unique(S).found
<1>1. ASSUME Cardinality(S) = 1
      PROVE  /\ Unique(S).ok /\ Unique(S).found \in S
             /\ \A x \in S : x = Unique(S).found
  <2>1. Unique(S).ok = TRUE /\ Unique(S).found = CHOOSE x \in S : TRUE
    BY <1>1 DEF Unique, Found
  <2>2. PICK y : S = {y}
    BY <1>1, FS_Singleton
  <2>3. (CHOOSE x \in S : TRUE) \in S
    BY <2>2
  <2>. QED
    BY <2>1, <2>2, <2>3
<1>2. ASSUME Cardinality(S) # 1 PROVE Unique(S).ok = FALSE
  BY <1>2 DEF Unique, NotFound
<1>. QED
  BY <1>1, <1>2

LEMMA TableFinite ==
  ASSUME Tabled
  PROVE  IsFiniteSet(DOMAIN table)
<1>1. Len(table) \in Nat /\ DOMAIN table = 1..Len(table)
  BY EntryFacts DEF Tabled
<1>2. PICK n \in Nat : DOMAIN table = 1..n
  BY <1>1
<1>. QED
  BY <1>2, FS_Interval

LEMMA PairsFinite ==
  ASSUME Tabled
  PROVE  IsFiniteSet(AllPairs)
<1>1. ASSUME NEW e \in DOMAIN table PROVE IsFiniteSet(Pairs(table[e]))
  <2>1. IsFiniteSet(DOMAIN table[e].aliases)
    BY EntryAliases
  <2>2. PICK f : f = [i \in DOMAIN table[e].aliases |-> table[e].aliases[i]]
    OBVIOUS
  <2>3. DOMAIN f = DOMAIN table[e].aliases /\ f = [x \in DOMAIN f |-> f[x]]
    BY <2>2
  <2>4. IsFiniteSet({f[x] : x \in DOMAIN f})
    BY <2>1, <2>3, ImageFinite
  <2>5. {f[x] : x \in DOMAIN f} = Pairs(table[e])
    BY <2>2 DEF Pairs
  <2>. QED
    BY <2>4, <2>5
<1>2. PICK f : f = [e \in DOMAIN table |-> Pairs(table[e])]
  OBVIOUS
<1>3. DOMAIN f = DOMAIN table /\ f = [x \in DOMAIN f |-> f[x]]
  BY <1>2
<1>4. IsFiniteSet({f[x] : x \in DOMAIN f})
  BY <1>3, TableFinite, ImageFinite
<1>5. {f[x] : x \in DOMAIN f} = {Pairs(table[e]) : e \in DOMAIN table}
  BY <1>2
<1>. DEFINE Parts == {Pairs(table[e]) : e \in DOMAIN table}
<1>6. IsFiniteSet(Parts) /\ \A P \in Parts : IsFiniteSet(P)
  BY <1>1, <1>4, <1>5
<1>7. AllPairs = UNION Parts
  BY DEF AllPairs
<1>. HIDE DEF Parts
<1>. QED
  BY <1>6, <1>7, FS_UNION

(* An alias of the table belongs to one of its entries, and is made of     *)
(* texts.                                                                  *)
LEMMA PairFacts ==
  ASSUME Tabled, NEW a
  PROVE  /\ a \in AllPairs <=> \E e \in DOMAIN table : a \in Pairs(table[e])
         /\ \A e \in DOMAIN table : a \in Pairs(table[e]) <=>
              \E i \in DOMAIN table[e].aliases : table[e].aliases[i] = a
         /\ a \in AllPairs => a.path \in Text /\ a.scope \in Text
<1>1. a \in AllPairs <=> \E e \in DOMAIN table : a \in Pairs(table[e])
  BY DEF AllPairs
<1>2. \A e \in DOMAIN table : a \in Pairs(table[e]) <=>
        \E i \in DOMAIN table[e].aliases : table[e].aliases[i] = a
  BY DEF Pairs
<1>3. ASSUME a \in AllPairs PROVE a.path \in Text /\ a.scope \in Text
  <2>1. PICK e \in DOMAIN table : \E i \in DOMAIN table[e].aliases : table[e].aliases[i] = a
    BY <1>1, <1>2, <1>3
  <2>. QED
    BY <2>1, EntryAliases
<1>. QED
  BY <1>1, <1>2, <1>3

(* The entries and the aliases a name spells exactly, or its pattern       *)
(* matches.                                                                *)
SpelledEntries(p) == {e \in DOMAIN table : has_exact_path_ci(table[e], p)}
MatchedEntries(sel, p) == {e \in DOMAIN table : keeps_signal_matching(sel, table[e], p)}
SpelledPairs(p) == {a \in AllPairs : lower(a.path) = lower(p)}
MatchedPairs(p) == {a \in AllPairs : PatMatches(p, FALSE, a.path, leaf_of(a.path, a.scope))}

LEMMA NameSetsFinite ==
  ASSUME Tabled, NEW sel, NEW p
  PROVE  /\ IsFiniteSet(SpelledEntries(p)) /\ IsFiniteSet(MatchedEntries(sel, p))
         /\ IsFiniteSet(SpelledPairs(p)) /\ IsFiniteSet(MatchedPairs(p))
<1>1. SpelledEntries(p) \subseteq DOMAIN table /\ MatchedEntries(sel, p) \subseteq DOMAIN table
  BY DEF SpelledEntries, MatchedEntries
<1>2. SpelledPairs(p) \subseteq AllPairs /\ MatchedPairs(p) \subseteq AllPairs
  BY DEF SpelledPairs, MatchedPairs
<1>. QED
  BY <1>1, <1>2, TableFinite, PairsFinite, FS_Subset

(* The two look-ups, without their guards.                                 *)
LEMMA LookUps ==
  ASSUME Tabled, NEW sel, NEW p
  PROVE  /\ resolve_one_signal(sel, p) =
              IF SpelledEntries(p) # {} THEN Unique(SpelledEntries(p))
              ELSE Unique(MatchedEntries(sel, p))
         /\ resolve_signal_path(p) =
              IF Cardinality(SpelledPairs(p)) = 1 THEN Unique(SpelledPairs(p))
              ELSE Unique(MatchedPairs(p))
<1>1. IsWild(p) => SpelledEntries(p) = {}
  <2>1. SUFFICES ASSUME NEW e \in SpelledEntries(p) PROVE ~IsWild(p)
    OBVIOUS
  <2>2. PICK i \in DOMAIN table[e].aliases : lower(table[e].aliases[i].path) = lower(p)
    BY DEF SpelledEntries, has_exact_path_ci
  <2>3. table[e].aliases[i].path \in Text
    BY EntryAliases DEF SpelledEntries
  <2>. QED
    BY <2>2, <2>3, SpelledExactly
<1>2. resolve_one_signal(sel, p) =
        LET exact == IF IsWild(p) THEN {} ELSE SpelledEntries(p)
        IN  IF exact # {} THEN Unique(exact) ELSE Unique(MatchedEntries(sel, p))
  BY DEF resolve_one_signal, SpelledEntries, MatchedEntries
<1>3. resolve_signal_path(p) =
        IF Cardinality(SpelledPairs(p)) = 1 THEN Unique(SpelledPairs(p))
        ELSE Unique(MatchedPairs(p))
  BY DEF resolve_signal_path, SpelledPairs, MatchedPairs
<1>. QED
  BY <1>1, <1>2, <1>3

(* An alias spelled exactly is one the pattern matches, and its entry is   *)
(* spelled exactly; and the other way round.                               *)
LEMMA SpelledFacts ==
  ASSUME Tabled, NEW p
  PROVE  /\ SpelledPairs(p) \subseteq MatchedPairs(p)
         /\ \A a \in SpelledPairs(p) : \E e \in SpelledEntries(p) : a \in Pairs(table[e])
         /\ \A e \in SpelledEntries(p) : \E a \in SpelledPairs(p) : a \in Pairs(table[e])
<1>1. ASSUME NEW a \in SpelledPairs(p) PROVE a \in MatchedPairs(p)
  <2>1. a \in AllPairs /\ lower(a.path) = lower(p)
    BY DEF SpelledPairs
  <2>2. a.path \in Text /\ a.scope \in Text
    BY <2>1, PairFacts
  <2>3. PatMatches(p, FALSE, a.path, leaf_of(a.path, a.scope))
    BY <2>1, <2>2, ExactMatches
  <2>. QED
    BY <2>1, <2>3 DEF MatchedPairs
<1>2. ASSUME NEW a \in SpelledPairs(p)
      PROVE  \E e \in SpelledEntries(p) : a \in Pairs(table[e])
  <2>1. a \in AllPairs /\ lower(a.path) = lower(p)
    BY DEF SpelledPairs
  <2>2. PICK e \in DOMAIN table : a \in Pairs(table[e])
    BY <2>1, PairFacts
  <2>3. \E i \in DOMAIN table[e].aliases : table[e].aliases[i] = a
    BY <2>2, PairFacts
  <2>4. e \in SpelledEntries(p)
    BY <2>1, <2>3 DEF SpelledEntries, has_exact_path_ci
  <2>. QED
    BY <2>2, <2>4
<1>3. ASSUME NEW e \in SpelledEntries(p)
      PROVE  \E a \in SpelledPairs(p) : a \in Pairs(table[e])
  <2>1. e \in DOMAIN table /\ has_exact_path_ci(table[e], p)
    BY DEF SpelledEntries
  <2>2. PICK i \in DOMAIN table[e].aliases : lower(table[e].aliases[i].path) = lower(p)
    BY <2>1 DEF has_exact_path_ci
  <2>3. PICK a : a = table[e].aliases[i]
    OBVIOUS
  <2>4. a \in Pairs(table[e]) /\ a \in AllPairs
    BY <2>1, <2>3, PairFacts
  <2>. QED
    BY <2>2, <2>3, <2>4 DEF SpelledPairs
<1>. QED
  BY <1>1, <1>2, <1>3

(* Without options, the entry of an alias the pattern matches is kept.     *)
LEMMA MatchedFacts ==
  ASSUME Tabled, NEW sel, NEW p, is_all(sel), ~sel.exact, NEW a \in MatchedPairs(p)
  PROVE  \E e \in MatchedEntries(sel, p) : a \in Pairs(table[e])
<1>1. a \in AllPairs /\ PatMatches(p, FALSE, a.path, leaf_of(a.path, a.scope))
  BY DEF MatchedPairs
<1>2. PICK e \in DOMAIN table : a \in Pairs(table[e])
  BY <1>1, PairFacts
<1>3. PICK i \in DOMAIN table[e].aliases : table[e].aliases[i] = a
  BY <1>2, PairFacts
<1>4. keeps_alias(sel, a)
  BY DEF is_all, keeps_alias, structural_ok, matches_path_leaf
<1>5. keeps_signal_matching(sel, table[e], p)
  <2>1. PatMatches(p, sel.exact, a.path, leaf_of(a.path, a.scope))
    BY <1>1 DEF PatMatches
  <2>. QED
    BY <1>3, <1>4, <2>1 DEF keeps_signal_matching
<1>. QED
  BY <1>2, <1>5 DEF MatchedEntries

(* One signal, by whichever command it is looked up.                       *)
LEMMA LookUpsAgree ==
  ASSUME Tabled, NEW sel, NEW p, is_all(sel), ~sel.exact,
         resolve_one_signal(sel, p).ok, resolve_signal_path(p).ok
  PROVE  resolve_signal_path(p).found \in Pairs(table[resolve_one_signal(sel, p).found])
<1>1. PICK E : E = SpelledEntries(p)
  OBVIOUS
<1>2. PICK K : K = MatchedEntries(sel, p)
  OBVIOUS
<1>3. PICK A : A = SpelledPairs(p)
  OBVIOUS
<1>4. PICK M : M = MatchedPairs(p)
  OBVIOUS
<1>5. PICK one : one = resolve_one_signal(sel, p).found
  OBVIOUS
<1>6. PICK a : a = resolve_signal_path(p).found
  OBVIOUS
<1>7. IsFiniteSet(E) /\ IsFiniteSet(K) /\ IsFiniteSet(A) /\ IsFiniteSet(M)
  BY <1>1, <1>2, <1>3, <1>4, NameSetsFinite
<1>8. /\ resolve_one_signal(sel, p) = IF E # {} THEN Unique(E) ELSE Unique(K)
      /\ resolve_signal_path(p) = IF Cardinality(A) = 1 THEN Unique(A) ELSE Unique(M)
  BY <1>1, <1>2, <1>3, <1>4, LookUps
<1>9. /\ A \subseteq M
      /\ \A x \in A : \E e \in E : x \in Pairs(table[e])
      /\ \A e \in E : \E x \in A : x \in Pairs(table[e])
  BY <1>1, <1>3, <1>4, SpelledFacts
<1>10. /\ E # {} => one \in E /\ \A e \in E : e = one
       /\ E = {} => one \in K /\ \A e \in K : e = one
  BY <1>5, <1>7, <1>8, UniqueFacts
<1>11. CASE Cardinality(A) = 1
  <2>1. a \in A
    BY <1>6, <1>7, <1>8, <1>11, UniqueFacts
  <2>2. PICK e \in E : a \in Pairs(table[e])
    BY <1>9, <2>1
  <2>3. e = one
    BY <1>10
  <2>. QED
    BY <1>5, <1>6, <2>2, <2>3
<1>12. CASE Cardinality(A) # 1
  <2>1. Cardinality(M) = 1 /\ a \in M /\ \A x \in M : x = a
    BY <1>6, <1>7, <1>8, <1>12, UniqueFacts
  <2>2. A = {}
    <3>1. SUFFICES ASSUME A # {} PROVE Cardinality(A) = 1
      BY <1>12
    <3>2. A = M
      BY <1>9, <2>1, <3>1
    <3>. QED
      BY <2>1, <3>2
  <2>3. E = {}
    BY <1>9, <2>2
  <2>4. PICK e \in K : a \in Pairs(table[e])
    BY <1>2, <1>4, <2>1, MatchedFacts
  <2>5. e = one
    BY <1>10, <2>3
  <2>. QED
    BY <1>5, <1>6, <2>4, <2>5
<1>. QED
  BY <1>11, <1>12

LEMMA NamesFromInv ==
  ASSUME ListInv
  PROVE  NamesMeanOneSignal
<1>1. PICK sel : sel = query.sel
  OBVIOUS
<1>2. PICK p : p = query.name
  OBVIOUS
<1>3. SUFFICES ASSUME phase = "answered", query.cmd = "search"
               PROVE  /\ (is_all(sel) /\ ~sel.exact /\ answer.ok /\ resolve_signal_path(p).ok)
                           => resolve_signal_path(p).found \in Pairs(table[answer.found])
                      /\ Cardinality(SpelledEntries(p)) = 1 =>
                           answer.ok /\ answer.found \in SpelledEntries(p)
                      /\ (answer.ok /\ SpelledEntries(p) = {}) => answer.found \in Selected(sel)
  BY <1>1, <1>2 DEF NamesMeanOneSignal, Answered, SpelledEntries
<1>4. Tabled /\ answer = resolve_one_signal(sel, p)
  BY <1>1, <1>2, <1>3 DEF ListInv, Tabled, AnswerPart
<1>5. (is_all(sel) /\ ~sel.exact /\ answer.ok /\ resolve_signal_path(p).ok)
        => resolve_signal_path(p).found \in Pairs(table[answer.found])
  BY <1>1, <1>4, LookUpsAgree
<1>6. ASSUME Cardinality(SpelledEntries(p)) = 1
      PROVE  answer.ok /\ answer.found \in SpelledEntries(p)
  <2>1. IsFiniteSet(SpelledEntries(p))
    BY <1>4, NameSetsFinite
  <2>2. SpelledEntries(p) # {}
    BY <1>6, FS_EmptySet
  <2>3. answer = Unique(SpelledEntries(p))
    BY <1>4, <2>2, LookUps
  <2>. QED
    BY <1>6, <2>1, <2>3, UniqueFacts
<1>7. ASSUME answer.ok, SpelledEntries(p) = {} PROVE answer.found \in Selected(sel)
  <2>1. answer = Unique(MatchedEntries(sel, p)) /\ IsFiniteSet(MatchedEntries(sel, p))
    BY <1>4, <1>7, LookUps, NameSetsFinite
  <2>2. answer.found \in MatchedEntries(sel, p)
    BY <1>7, <2>1, UniqueFacts
  <2>3. PICK e : e = answer.found
    OBVIOUS
  <2>4. e \in DOMAIN table /\ keeps_signal_matching(sel, table[e], p)
    BY <2>2, <2>3 DEF MatchedEntries
  <2>5. keeps_signal(sel, table[e])
    BY <2>4 DEF keeps_signal_matching, keeps_signal
  <2>. QED
    BY <2>3, <2>4, <2>5 DEF Selected
<1>. QED
  BY <1>5, <1>6, <1>7

(* A name looked up by `search` (resolve_one_signal) is the signal the     *)
(* look-up of `tree --of` and `trace` (resolve_signal_path) means, if both *)
(* find one and no option narrows the first; a path spelled in full that   *)
(* one signal has is found whatever the options; what a pattern finds is   *)
(* in the selection.                                                       *)
THEOREM NamesAlwaysMeanOneSignal == Spec => []NamesMeanOneSignal
<1>1. ListInv => NamesMeanOneSignal
  BY NamesFromInv
<1>. QED
  BY <1>1, Invariance, PTL
=============================================================================
