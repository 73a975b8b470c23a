---------------------------- MODULE PluginProofs ----------------------------
(***************************************************************************)
(* The vendor backends, for any number of threads, formats and libraries   *)
(* and for every file and request (plugin_backend.rs, the built-in         *)
(* plugins).                                                               *)
(*                                                                         *)
(* First the decode: it keeps its state in order at every callback,        *)
(* returns every handle on every way out, and gives the file's values and  *)
(* changes, whole or windowed, complete or stopped part way, whatever      *)
(* order the library delivers the signals in.                              *)
(*                                                                         *)
(* Then the registry: an action moves one thread and touches at most one   *)
(* entry, so the proof of its invariant has one step per action, and under *)
(* it the parts that the action can disturb.                               *)
(***************************************************************************)
EXTENDS PluginDecode, PluginRegistry, WellFoundedInduction, TLAPS

(***************************************************************************)
(* The value a run of changes has left at a tick.                          *)
(***************************************************************************)

(* The records of a run of changes have a tick and a value.                *)
LEMMA RecordFacts ==
  ASSUME NEW changes \in Seq(Record)
  PROVE  /\ DOMAIN changes = 1..Len(changes) /\ Len(changes) \in Nat
         /\ \A i \in DOMAIN changes : /\ changes[i] \in Record
                                      /\ changes[i].tick \in Nat /\ changes[i].tick \in Int
                                      /\ changes[i].val \in Value
                                      /\ changes[i] = Entry(changes[i].tick, changes[i].val)
<1>1. \A r \in Record : /\ r.tick \in Nat /\ r.tick \in Int /\ r.val \in Value
                        /\ r = Entry(r.tick, r.val)
  BY DEF Record, Entry
<1>2. \A i \in DOMAIN changes : changes[i] \in Record
  OBVIOUS
<1>. QED
  BY <1>1, <1>2

LEMMA EntryFacts ==
  ASSUME NEW tick \in Nat, NEW val \in Value
  PROVE  /\ Entry(tick, val) \in Record
         /\ Entry(tick, val).tick = tick /\ Entry(tick, val).val = val
BY DEF Entry, Record

(* What the first n of them leave: ValueAt, for a prefix.                  *)
Among(changes, n, t) == {i \in 1..n : changes[i].tick <= t}

Seen(changes, n, t) ==
  IF Among(changes, n, t) = {} THEN None
  ELSE changes[CHOOSE i \in Among(changes, n, t) :
                 \A j \in Among(changes, n, t) : j <= i].val

(* Numbers up to n that are not none have a greatest.                      *)
LEMMA GreatestUpTo ==
  ASSUME NEW n \in Nat, NEW S \in SUBSET (1..n), S # {}
  PROVE  \E i \in S : \A j \in S : j <= i
<1>. DEFINE T == {k \in Nat : n - k \in S}
<1>1. PICK i \in S : TRUE
  OBVIOUS
<1>2. n - i \in T
  OBVIOUS
<1>3. PICK k \in T : \A r \in T : ~(<<r, k>> \in OpToRel(<, Nat))
  BY <1>2, NatLessThanWellFounded, WFMin
<1>4. ASSUME NEW j \in S PROVE j <= n - k
  <2>1. n - j \in T /\ n - j \in Nat /\ k \in Nat
    OBVIOUS
  <2>2. ~(<<n - j, k>> \in OpToRel(<, Nat))
    BY <1>3, <2>1
  <2>3. n - j < k => <<n - j, k>> \in OpToRel(<, Nat)
    BY <2>1 DEF OpToRel
  <2>4. ~(n - j < k)
    BY <2>2, <2>3, Zenon
  <2>. QED
    BY <2>1, <2>4
<1>. QED
  BY <1>4

(* Of the first n changes, i is the last at or before t; none is.          *)
IsLast(changes, n, t, i) ==
  /\ i \in 1..n /\ changes[i].tick <= t
  /\ \A j \in 1..n : changes[j].tick <= t => j <= i

NoneYet(changes, n, t) == \A i \in 1..n : ~(changes[i].tick <= t)

(* Two runs agree on the changes at or before t.                           *)
Agree(a, m, b, n, t) ==
  /\ \A i \in 1..m : a[i].tick <= t => i \in 1..n /\ b[i] = a[i]
  /\ \A i \in 1..n : b[i].tick <= t => i \in 1..m /\ b[i] = a[i]

(* The last change at or before t is what they leave at t.                 *)
LEMMA SeenIsLast ==
  ASSUME NEW changes, NEW n \in Nat, NEW t, NEW i, IsLast(changes, n, t, i)
  PROVE  Seen(changes, n, t) = changes[i].val
<1>1. i \in Among(changes, n, t) /\ \A j \in Among(changes, n, t) : j <= i
  BY DEF Among, IsLast
<1>2. \A k \in Among(changes, n, t) :
        (\A j \in Among(changes, n, t) : j <= k) => k = i
  BY <1>1 DEF Among
<1>. HIDE DEF Among
<1>3. (CHOOSE k \in Among(changes, n, t) : \A j \in Among(changes, n, t) : j <= k) = i
  BY <1>1, <1>2
<1>. QED
  BY <1>1, <1>3 DEF Seen

LEMMA SeenIsNone ==
  ASSUME NEW changes, NEW n, NEW t, NoneYet(changes, n, t)
  PROVE  Seen(changes, n, t) = None
BY DEF Seen, Among, NoneYet

(* One or the other is the case.                                           *)
LEMMA SeenCases ==
  ASSUME NEW changes, NEW n \in Nat, NEW t
  PROVE  NoneYet(changes, n, t) \/ \E i \in 1..n : IsLast(changes, n, t, i)
<1>1. Among(changes, n, t) \in SUBSET (1..n)
  BY DEF Among
<1>2. CASE Among(changes, n, t) = {}
  BY <1>2 DEF Among, NoneYet
<1>3. CASE Among(changes, n, t) # {}
  <2>1. PICK i \in Among(changes, n, t) : \A j \in Among(changes, n, t) : j <= i
    BY <1>1, <1>3, GreatestUpTo
  <2>. QED
    BY <2>1 DEF Among, IsLast
<1>. QED
  BY <1>2, <1>3

(* Two runs of changes that agree on what is at or before t leave the same *)
(* value.                                                                  *)
LEMMA SeenSame ==
  ASSUME NEW a, NEW b, NEW m \in Nat, NEW n \in Nat, NEW t, Agree(a, m, b, n, t)
  PROVE  Seen(a, m, t) = Seen(b, n, t)
<1>1. CASE NoneYet(a, m, t)
  <2>1. NoneYet(b, n, t)
    BY <1>1 DEF NoneYet, Agree
  <2>. QED
    BY <1>1, <2>1, SeenIsNone
<1>2. ASSUME NEW i \in 1..m, IsLast(a, m, t, i)
      PROVE  Seen(a, m, t) = Seen(b, n, t)
  <2>1. IsLast(b, n, t, i) /\ b[i] = a[i]
    BY <1>2 DEF IsLast, Agree
  <2>2. Seen(a, m, t) = a[i].val /\ Seen(b, n, t) = b[i].val
    BY <1>2, <2>1, SeenIsLast
  <2>. QED
    BY <2>1, <2>2
<1>. QED
  BY <1>1, <1>2, SeenCases

(* ValueAt is what all of a sequence leaves.                               *)
LEMMA ValueIsSeen ==
  ASSUME NEW changes \in Seq(Record), NEW t
  PROVE  ValueAt(changes, t) = Seen(changes, Len(changes), t)
<1>1. UpTo(changes, t) = Among(changes, Len(changes), t)
  BY DEF UpTo, Among
<1>. QED
  BY <1>1 DEF ValueAt, Seen

(* One change more is seen from its tick on.                               *)
LEMMA SeenStep ==
  ASSUME NEW recs \in Seq(Record), ByTick(recs),
         NEW n \in Nat, n < Len(recs), NEW t \in Int
  PROVE  Seen(recs, n + 1, t) = IF t >= recs[n + 1].tick THEN recs[n + 1].val
                                ELSE Seen(recs, n, t)
<1>1. recs[n + 1].tick \in Int /\ n + 1 \in DOMAIN recs
  <2>1. n + 1 \in DOMAIN recs
    OBVIOUS
  <2>. QED
    BY <2>1, RecordFacts
<1>2. CASE t >= recs[n + 1].tick
  <2>1. IsLast(recs, n + 1, t, n + 1)
    BY <1>1, <1>2 DEF IsLast
  <2>. QED
    BY <1>2, <2>1, SeenIsLast
<1>3. CASE ~(t >= recs[n + 1].tick)
  <2>1. Agree(recs, n, recs, n + 1, t)
    BY <1>1, <1>3 DEF Agree
  <2>2. Seen(recs, n, t) = Seen(recs, n + 1, t)
    BY <2>1, SeenSame
  <2>. QED
    BY <1>3, <2>2
<1>. QED
  BY <1>2, <1>3

(* Changes past t do not matter at t.                                      *)
LEMMA SeenRest ==
  ASSUME NEW recs \in Seq(Record), ByTick(recs),
         NEW n \in Nat, n <= Len(recs), NEW t \in Int,
         n < Len(recs) => recs[n + 1].tick > t
  PROVE  Seen(recs, n, t) = ValueAt(recs, t)
<1>1. \A i \in 1..n : i \in 1..Len(recs)
  OBVIOUS
<1>2. ASSUME NEW i \in 1..Len(recs), recs[i].tick <= t PROVE i \in 1..n
  <2>1. CASE i > n
    <3>1. n + 1 \in DOMAIN recs /\ i \in DOMAIN recs /\ n + 1 <= i /\ n < Len(recs)
      BY <2>1
    <3>2. recs[n + 1].tick <= recs[i].tick /\ recs[n + 1].tick > t
      BY <3>1 DEF ByTick
    <3>3. recs[n + 1].tick \in Nat /\ recs[i].tick \in Nat
      BY <3>1, RecordFacts
    <3>. QED
      BY <1>2, <3>2, <3>3
  <2>. QED
    BY <2>1
<1>3. Seen(recs, n, t) = Seen(recs, Len(recs), t)
  <2>1. Agree(recs, n, recs, Len(recs), t)
    BY <1>1, <1>2 DEF Agree
  <2>. QED
    BY <2>1, SeenSame
<1>. QED
  BY <1>3, ValueIsSeen

(* A trace of one entry.                                                   *)
LEMMA ValueOfOne ==
  ASSUME NEW e \in Record, NEW t \in Int
  PROVE  ValueAt(<<e>>, t) = IF t >= e.tick THEN e.val ELSE None
<1>1. <<e>> \in Seq(Record) /\ Len(<<e>>) = 1 /\ <<e>>[1] = e /\ e.tick \in Int
  <2>1. e.tick \in Int
    BY DEF Record
  <2>. QED
    BY <2>1
<1>2. ValueAt(<<e>>, t) = Seen(<<e>>, 1, t)
  BY <1>1, ValueIsSeen
<1>3. CASE t >= e.tick
  <2>1. Seen(<<e>>, 1, t) = <<e>>[1].val
    <3>1. IsLast(<<e>>, 1, t, 1)
      BY <1>1, <1>3 DEF IsLast
    <3>. QED
      BY <3>1, SeenIsLast
  <2>. QED
    BY <1>1, <1>2, <1>3, <2>1
<1>4. CASE ~(t >= e.tick)
  <2>1. Seen(<<e>>, 1, t) = None
    <3>1. NoneYet(<<e>>, 1, t)
      BY <1>1, <1>4 DEF NoneYet
    <3>. QED
      BY <3>1, SeenIsNone
  <2>. QED
    BY <1>2, <1>4, <2>1
<1>. QED
  BY <1>3, <1>4

LEMMA ValueOfNothing ==
  ASSUME NEW t PROVE ValueAt(<< >>, t) = None
BY DEF ValueAt, UpTo

-----------------------------------------------------------------------------

(***************************************************************************)
(* fold_change.  It keeps a trace in order, and from its tick on the trace *)
(* has the emitted value: a suppressed or undone entry says the same.      *)
(***************************************************************************)
InOrder(s, trace) ==
  /\ \A i, j \in DOMAIN trace : i < j =>
       IF s \in EventSid THEN trace[i].tick <= trace[j].tick
                         ELSE trace[i].tick < trace[j].tick
  /\ s \notin EventSid =>
       \A i \in 1..(Len(trace) - 1) : trace[i].val # trace[i + 1].val

NoneAfter(trace, tick) == \A i \in DOMAIN trace : trace[i].tick <= tick

(* A prefix of a run of changes, and one change more.                      *)
LEMMA PrefixFacts ==
  ASSUME NEW changes \in Seq(Record), NEW k \in 0..Len(changes), NEW front,
         front = SubSeq(changes, 1, k)
  PROVE  /\ front \in Seq(Record) /\ Len(front) = k /\ DOMAIN front = 1..k
         /\ \A i \in 1..k : front[i] = changes[i]
OBVIOUS

LEMMA AppendFacts ==
  ASSUME NEW changes \in Seq(Record), NEW e \in Record, NEW new,
         new = Append(changes, e)
  PROVE  /\ new \in Seq(Record) /\ Len(new) = Len(changes) + 1
         /\ DOMAIN new = 1..(Len(changes) + 1)
         /\ new[Len(changes) + 1] = e
         /\ \A i \in 1..Len(changes) : new[i] = changes[i]
OBVIOUS

(* The ways it can go, e the entry and n the length of the trace: e is     *)
(* appended, replaces the last of its tick, takes that one away, or is     *)
(* suppressed.                                                             *)
FoldsTo(s, trace, n, e, tick, val, new) ==
  \/ /\ s \in EventSid \/ n = 0 \/ (trace[n].tick # tick /\ trace[n].val # val)
     /\ new = Append(trace, e)
  \/ /\ s \notin EventSid /\ n > 0 /\ trace[n].tick = tick
     /\ n >= 2 => trace[n - 1].val # val
     /\ new = Append(SubSeq(trace, 1, n - 1), e)
  \/ /\ s \notin EventSid /\ n >= 2 /\ trace[n].tick = tick /\ trace[n - 1].val = val
     /\ new = SubSeq(trace, 1, n - 1)
  \/ /\ s \notin EventSid /\ n > 0 /\ trace[n].tick # tick /\ trace[n].val = val
     /\ new = trace

LEMMA FoldCases ==
  ASSUME NEW s, NEW trace \in Seq(Record), NEW tick \in Nat, NEW val \in Value,
         NEW n, n = Len(trace), NEW e, e = Entry(tick, val),
         NEW new, new = fold_change(trace, s, tick, val)
  PROVE  FoldsTo(s, trace, n, e, tick, val, new)
<1>1. /\ trace = << >> <=> n = 0
      /\ n \in Nat /\ n = Len(trace)
  OBVIOUS
<1>. QED
  BY <1>1 DEF fold_change, Front, Last, FoldsTo

LEMMA FoldKeepsOrder ==
  ASSUME NEW s, NEW trace \in Seq(Record), NEW tick \in Nat, NEW val \in Value,
         InOrder(s, trace), NoneAfter(trace, tick),
         NEW new, new = fold_change(trace, s, tick, val)
  PROVE  new \in Seq(Record) /\ new # << >> /\ InOrder(s, new) /\ NoneAfter(new, tick)
<1>n. PICK n \in Nat : n = Len(trace)
  OBVIOUS
<1>e. PICK e : e = Entry(tick, val)
  OBVIOUS
<1>1. e \in Record /\ e.tick = tick /\ e.val = val
  BY <1>e, EntryFacts
<1>2. /\ n \in Nat /\ Len(trace) = n /\ DOMAIN trace = 1..n
      /\ \A i \in 1..n : /\ trace[i] \in Record /\ trace[i].tick \in Nat
                         /\ trace[i].tick <= tick
  BY <1>n, RecordFacts DEF NoneAfter
<1>o. /\ s \in EventSid => \A i, j \in 1..n : i < j => trace[i].tick <= trace[j].tick
      /\ s \notin EventSid => \A i, j \in 1..n : i < j => trace[i].tick < trace[j].tick
      /\ s \notin EventSid => \A i \in 1..(n - 1) : trace[i].val # trace[i + 1].val
  BY <1>2 DEF InOrder
<1>3. CASE /\ s \in EventSid \/ n = 0 \/ (trace[n].tick # tick /\ trace[n].val # val)
           /\ new = Append(trace, e)
  <2>1. new \in Seq(Record) /\ Len(new) = n + 1 /\ new[n + 1] = e
        /\ \A i \in 1..n : new[i] = trace[i]
    BY <1>1, <1>2, <1>3, AppendFacts
  <2>2. NoneAfter(new, tick)
    BY <1>1, <1>2, <2>1 DEF NoneAfter
  <2>3. ASSUME NEW i \in 1..(n + 1), NEW j \in 1..(n + 1), i < j
        PROVE  IF s \in EventSid THEN new[i].tick <= new[j].tick ELSE new[i].tick < new[j].tick
    <3>1. CASE j <= n
      BY <1>o, <1>2, <2>1, <2>3, <3>1
    <3>2. CASE j = n + 1
      <4>1. i \in 1..n /\ new[i] = trace[i] /\ new[j].tick = tick /\ trace[i].tick <= tick
        BY <1>1, <1>2, <2>1, <2>3, <3>2
      <4>2. CASE s \in EventSid
        BY <4>1, <4>2
      <4>3. CASE s \notin EventSid
        <5>1. n \in 1..n /\ trace[n].tick # tick /\ trace[n].tick <= tick
          BY <1>3, <4>1, <4>3, <1>2 DEF NoneAfter
        <5>2. i < n => trace[i].tick < trace[n].tick
          BY <1>o, <1>2, <4>1, <4>3, <5>1
        <5>. QED
          BY <1>2, <4>1, <4>3, <5>1, <5>2
      <4>. QED
        BY <4>2, <4>3
    <3>. QED
      BY <3>1, <3>2
  <2>4. ASSUME s \notin EventSid, NEW i \in 1..n PROVE new[i].val # new[i + 1].val
    <3>1. CASE i < n
      <4>1. trace[i].val # trace[i + 1].val
        BY <1>o, <1>2, <2>4, <3>1
      <4>. QED
        BY <2>1, <3>1, <4>1
    <3>2. CASE i = n
      BY <1>1, <1>3, <2>1, <2>4, <3>2
    <3>. QED
      BY <3>1, <3>2
  <2>5. DOMAIN new = 1..(n + 1) /\ Len(new) - 1 = n
    BY <1>2, <2>1
  <2>6. InOrder(s, new)
    BY <2>3, <2>4, <2>5 DEF InOrder
  <2>. QED
    BY <1>2, <2>1, <2>2, <2>6
<1>4. CASE /\ s \notin EventSid /\ n > 0 /\ trace[n].tick = tick
           /\ n >= 2 => trace[n - 1].val # val
           /\ new = Append(SubSeq(trace, 1, n - 1), e)
  <2>. DEFINE front == SubSeq(trace, 1, n - 1)
  <2>0. front \in Seq(Record) /\ Len(front) = n - 1 /\ \A i \in 1..(n - 1) : front[i] = trace[i]
    BY <1>2, <1>4, <1>n, PrefixFacts
  <2>1. new \in Seq(Record) /\ Len(new) = n /\ new[n] = e
        /\ \A i \in 1..(n - 1) : new[i] = trace[i]
    <3>. HIDE DEF front
    <3>1. new = Append(front, e)
      BY <1>4 DEF front
    <3>2. Len(front) + 1 = n
      BY <1>2, <2>0
    <3>. QED
      BY <1>1, <2>0, <3>1, <3>2, AppendFacts
  <2>2. \A i \in 1..n : new[i].tick = trace[i].tick
    BY <1>1, <1>2, <1>4, <2>1
  <2>3. NoneAfter(new, tick)
    BY <1>2, <2>1, <2>2 DEF NoneAfter
  <2>4. \A i \in 1..(n - 1) : new[i].val # new[i + 1].val
    <3>. TAKE i \in 1..(n - 1)
    <3>1. CASE i < n - 1
      <4>1. trace[i].val # trace[i + 1].val
        BY <1>o, <1>2, <1>4, <3>1
      <4>. QED
        BY <2>1, <3>1, <4>1
    <3>2. CASE i = n - 1
      BY <1>1, <1>2, <1>4, <2>1, <3>2
    <3>. QED
      BY <1>2, <3>1, <3>2
  <2>5. DOMAIN new = 1..n /\ DOMAIN trace = 1..n
    BY <1>2, <2>1
  <2>6. InOrder(s, new)
    BY <1>4, <2>1, <2>2, <2>4, <2>5 DEF InOrder
  <2>. QED
    BY <1>2, <1>4, <2>1, <2>3, <2>6
<1>5. CASE /\ s \notin EventSid /\ n >= 2 /\ trace[n].tick = tick /\ trace[n - 1].val = val
           /\ new = SubSeq(trace, 1, n - 1)
  <2>1. new \in Seq(Record) /\ Len(new) = n - 1 /\ \A i \in 1..(n - 1) : new[i] = trace[i]
    BY <1>2, <1>5, <1>n, PrefixFacts
  <2>2. DOMAIN new = 1..(n - 1) /\ DOMAIN trace = 1..n
    BY <1>2, <2>1
  <2>3. NoneAfter(new, tick)
    BY <1>2, <2>1, <2>2 DEF NoneAfter
  <2>4. \A i, j \in DOMAIN new : i < j => new[i].tick < new[j].tick
    BY <1>2, <1>5, <2>1, <2>2 DEF InOrder
  <2>5. \A i \in 1..(n - 2) : new[i].val # new[i + 1].val
    BY <1>2, <1>5, <2>1, <2>2 DEF InOrder
  <2>6. InOrder(s, new)
    BY <1>2, <1>5, <2>1, <2>4, <2>5 DEF InOrder
  <2>. QED
    BY <1>2, <1>5, <2>1, <2>3, <2>6
<1>6. CASE s \notin EventSid /\ n > 0 /\ trace[n].tick # tick /\ trace[n].val = val /\ new = trace
  BY <1>2, <1>6
<1>c. FoldsTo(s, trace, n, e, tick, val, new)
  BY <1>n, <1>e, FoldCases
<1>. QED
  BY <1>3, <1>4, <1>5, <1>6, <1>c DEF FoldsTo

LEMMA FoldValue ==
  ASSUME NEW s, NEW trace \in Seq(Record), NEW tick \in Nat, NEW val \in Value,
         NoneAfter(trace, tick), NEW t \in Int,
         NEW new, new = fold_change(trace, s, tick, val)
  PROVE  ValueAt(new, t) = IF t >= tick THEN val ELSE ValueAt(trace, t)
<1>n. PICK n \in Nat : n = Len(trace)
  OBVIOUS
<1>e. PICK e : e = Entry(tick, val)
  OBVIOUS
<1>1. e \in Record /\ e.tick = tick /\ e.val = val
  BY <1>e, EntryFacts
<1>2. /\ n \in Nat /\ Len(trace) = n /\ DOMAIN trace = 1..n
      /\ \A i \in 1..n : /\ trace[i] \in Record /\ trace[i].tick \in Nat
                         /\ trace[i].tick <= tick
  BY <1>n, RecordFacts DEF NoneAfter
<1>3. ASSUME NEW k \in 0..n, new = Append(SubSeq(trace, 1, k), e), k < n => k = n - 1 /\ trace[n].tick = tick
      PROVE  ValueAt(new, t) = IF t >= tick THEN val ELSE ValueAt(trace, t)
  <2>. DEFINE front == SubSeq(trace, 1, k)
  <2>0. front \in Seq(Record) /\ Len(front) = k /\ \A i \in 1..k : front[i] = trace[i]
    BY <1>n, PrefixFacts
  <2>1. new \in Seq(Record) /\ Len(new) = k + 1 /\ new[k + 1] = e
        /\ \A i \in 1..k : new[i] = trace[i]
    <3>1. new = Append(front, e)
      BY <1>3
    <3>. HIDE DEF front
    <3>. QED
      BY <1>1, <2>0, <3>1, AppendFacts
  <2>2. ValueAt(new, t) = Seen(new, k + 1, t)
    BY <2>1, ValueIsSeen
  <2>3. CASE t >= tick
    <3>1. Seen(new, k + 1, t) = new[k + 1].val
      <4>1. IsLast(new, k + 1, t, k + 1)
        BY <1>1, <2>1, <2>3 DEF IsLast
      <4>. QED
        BY <4>1, SeenIsLast
    <3>. QED
      BY <1>1, <2>1, <2>2, <2>3, <3>1
  <2>4. CASE ~(t >= tick)
    <3>1. \A i \in 1..(k + 1) : new[i].tick <= t => i \in 1..n /\ trace[i] = new[i]
      BY <1>1, <2>1, <2>4
    <3>2. \A i \in 1..n : trace[i].tick <= t => i \in 1..(k + 1) /\ trace[i] = new[i]
      BY <1>2, <1>3, <2>1, <2>4
    <3>3. Seen(new, k + 1, t) = Seen(trace, n, t)
      <4>1. Agree(new, k + 1, trace, n, t)
        BY <3>1, <3>2 DEF Agree
      <4>. QED
        BY <1>2, <4>1, SeenSame
    <3>. QED
      BY <1>n, <2>2, <2>4, <3>3, ValueIsSeen
  <2>. QED
    BY <2>3, <2>4
<1>4. CASE new = Append(trace, e)
  <2>1. trace = SubSeq(trace, 1, n)
    BY <1>n
  <2>. QED
    BY <1>2, <1>3, <1>4, <2>1
<1>5. CASE n > 0 /\ trace[n].tick = tick /\ new = Append(SubSeq(trace, 1, n - 1), e)
  <2>1. n - 1 \in 0..n
    BY <1>2, <1>5
  <2>. QED
    BY <1>3, <1>5, <2>1
<1>6. CASE n >= 2 /\ trace[n].tick = tick /\ trace[n - 1].val = val /\ new = SubSeq(trace, 1, n - 1)
  <2>1. new \in Seq(Record) /\ Len(new) = n - 1 /\ \A i \in 1..(n - 1) : new[i] = trace[i]
    BY <1>2, <1>6, <1>n, PrefixFacts
  <2>2. ValueAt(new, t) = Seen(new, n - 1, t)
    BY <2>1, ValueIsSeen
  <2>3. CASE t >= tick
    <3>1. Seen(new, n - 1, t) = new[n - 1].val
      <4>1. IsLast(new, n - 1, t, n - 1)
        BY <1>2, <1>6, <2>1, <2>3 DEF IsLast
      <4>. QED
        <5>1. n - 1 \in Nat
          BY <1>2, <1>6
        <5>. QED
          BY <4>1, <5>1, SeenIsLast
    <3>. QED
      BY <1>2, <1>6, <2>1, <2>2, <2>3, <3>1
  <2>4. CASE ~(t >= tick)
    <3>1. \A i \in 1..n : trace[i].tick <= t => i \in 1..(n - 1) /\ trace[i] = new[i]
      BY <1>2, <1>6, <2>1, <2>4
    <3>2. \A i \in 1..(n - 1) : new[i].tick <= t => i \in 1..n /\ trace[i] = new[i]
      BY <1>2, <2>1
    <3>3. Seen(new, n - 1, t) = Seen(trace, n, t)
      <4>1. Agree(new, n - 1, trace, n, t)
        BY <3>1, <3>2 DEF Agree
      <4>. QED
        BY <1>2, <1>6, <4>1, SeenSame
    <3>. QED
      BY <1>n, <2>2, <2>4, <3>3, ValueIsSeen
  <2>. QED
    BY <2>3, <2>4
<1>7. CASE n > 0 /\ trace[n].val = val /\ new = trace
  <2>1. CASE t >= tick
    <3>1. Seen(trace, n, t) = trace[n].val
      <4>1. IsLast(trace, n, t, n)
        BY <1>2, <1>7, <2>1 DEF IsLast
      <4>. QED
        BY <1>2, <4>1, SeenIsLast
    <3>. QED
      BY <1>n, <1>7, <2>1, <3>1, ValueIsSeen
  <2>. QED
    BY <1>7, <2>1
<1>c. FoldsTo(s, trace, n, e, tick, val, new)
  BY <1>n, <1>e, FoldCases
<1>. QED
  BY <1>4, <1>5, <1>6, <1>7, <1>c DEF FoldsTo

-----------------------------------------------------------------------------

(***************************************************************************)
(* The inductive invariant.                                                *)
(***************************************************************************)

(* From tick edge on, a trace has the values the first n records leave.    *)
SeesRight(recs, n, trace, edge) ==
  \A t \in Int : t >= edge => ValueAt(trace, t) = Seen(recs, n, t)

(* Where a signal's trace starts to be right.  A WLF seed is stamped one   *)
(* tick before the scan, and is the value there if there is one.           *)
LeftEdge(s) ==
  IF vendor = "wlf"
  THEN IF NetValue(s, scan_from - 1) # None THEN scan_from - 1 ELSE scan_from
  ELSE IF ask.from = None THEN 0 ELSE ask.from

RightSoFar(s) == SeesRight(file.recs[s], pos[s], traces[s], LeftEdge(s))

(* The seed of an event carries another tick than its record.              *)
SeedEntry(s, i, d) ==
  /\ i = 1 /\ vendor = "wlf" /\ scan_from > 0
  /\ traces[s][1].tick = scan_from - 1
  /\ file.recs[s][1 + d].tick <= scan_from

(* The trace of an event has all records delivered, but for the first d,   *)
(* which lie before the window.                                            *)
EventsSoFar(s) ==
  \E d \in 0..Len(file.recs[s]) :
    /\ pos[s] = Len(traces[s]) + d
    /\ d > 0 => /\ d < Len(file.recs[s]) /\ ask.from # None
                /\ file.recs[s][d + 1].tick <= ask.from
                /\ vendor = "wlf" => file.recs[s][d + 1].tick < scan_from
    /\ \A i \in DOMAIN traces[s] :
         traces[s][i] = file.recs[s][i + d] \/ SeedEntry(s, i, d)

(* What is delivered next is not earlier than the library's time, unless   *)
(* the signal is still to be started where the scan starts.                *)
NotLate(s) ==
  pos[s] < Len(file.recs[s]) =>
    \/ pos[s] = 0 /\ cur_time = scan_from
    \/ file.recs[s][pos[s] + 1].tick >= cur_time

(* All that the window needs has been delivered.                           *)
Finished(s) ==
  \/ pos[s] = Len(file.recs[s])
  \/ /\ ask.from # None /\ ask.to # Unbounded
     /\ file.recs[s][pos[s] + 1].tick > ask.to

Waiting == Range(todo)

(* What is held at each stage of a decode.                                 *)
Phases ==
  /\ vendor = "wlf" => pc # "stream" /\ vct = None
  /\ vendor = "fsdb" => pc \in {"stream", "done"} /\ rc = 0 /\ ~pack /\ kept = {}
  /\ boxes \subseteq kept /\ values \subseteq kept
  /\ pc \in {"create", "register", "scan"} => rc = 0
  /\ pc = "create" => ~pack /\ kept = {}
  /\ pc \in {"pack", "boxes", "done"} => values = {}
  /\ pc \in {"boxes", "done"} => ~pack
  /\ pc = "done" => boxes = {} /\ vct = None

NoRepeats(turns) == \A i, j \in DOMAIN turns : turns[i] = turns[j] => i = j

(* A signal asked for waits its turn, is kept, or has nothing to give.     *)
Turns ==
  /\ NoRepeats(todo)
  /\ Waiting \subseteq Asked /\ kept \subseteq Asked \ Waiting
  /\ pc = "scan" => todo = << >>
  /\ pc \in {"create", "register", "scan"} =>
       \A s \in Asked \ (kept \cup Waiting) : file.recs[s] = << >>

(* A WLF scan has delivered what is due by the library's time, and no      *)
(* more.                                                                   *)
Traced(s) == /\ pos[s] = 0 => traces[s] = << >>
             /\ NoneAfter(traces[s], cur_time)
             /\ RightSoFar(s)
             /\ s \in EventSid => EventsSoFar(s)

Scanned ==
  vendor = "wlf" =>
    /\ cur_time \in scan_from..scan_to /\ (have_time <=> cur_time > scan_from)
    /\ \A s \in Sid : Traced(s)
    /\ \A s \in Asked : NotLate(s)
    /\ pc \in {"values", "pack", "boxes", "done"} /\ rc = 0 => \A s \in Asked : Finished(s)

(* Where an FSDB cursor may stand before its first change is emitted.      *)
AtSeed(s) ==
  \/ pos[s] = 0
  \/ /\ pos[s] < Len(file.recs[s]) /\ ask.from # None
     /\ file.recs[s][pos[s] + 1].tick <= ask.from

Emitted(s) ==
  IF traces[s] = << >> THEN AtSeed(s)
  ELSE /\ pos[s] > 0 /\ NoneAfter(traces[s], file.recs[s][pos[s]].tick)
       /\ RightSoFar(s)
       /\ s \in EventSid => EventsSoFar(s)

(* The cursors released have given the window, the open one what it has    *)
(* gone past.                                                              *)
Streamed ==
  vendor = "fsdb" =>
    /\ vct # None => todo # << >> /\ vct = Head(todo)
    /\ pc = "done" => todo = << >>
    /\ \A s \in Sid : Emitted(s)
    /\ \A s \in Waiting : s = vct \/ traces[s] = << >>
    /\ \A s \in Asked \ Waiting : Finished(s)

DecodeInv ==
  /\ file \in Files /\ ask \in Requests
  /\ TypeOK /\ HeldDataIsLive
  /\ \A s \in Sid : pos[s] <= Len(file.recs[s]) /\ InOrder(s, traces[s])
  /\ Phases /\ Turns /\ Scanned /\ Streamed

-----------------------------------------------------------------------------

(***************************************************************************)
(* What an emitted change does to the values seen.                         *)
(***************************************************************************)

LEMMA NothingSeesRight ==
  ASSUME NEW recs, NEW edge
  PROVE  SeesRight(recs, 0, << >>, edge)
<1>1. \A t \in Int : NoneYet(recs, 0, t)
  BY DEF NoneYet
<1>2. \A t \in Int : Seen(recs, 0, t) = None
  BY <1>1, SeenIsNone
<1>. QED
  BY <1>2, ValueOfNothing DEF SeesRight

(* The first entry of a trace, stamped at or before the edge.              *)
LEMMA FirstSeesRight ==
  ASSUME NEW s, NEW recs \in Seq(Record), NEW n \in DOMAIN recs, NEW edge \in Int,
         recs[n].tick <= edge, NEW tag \in Nat, tag <= edge,
         NEW new, new = fold_change(<< >>, s, tag, recs[n].val)
  PROVE  SeesRight(recs, n, new, edge)
<1>1. n \in Nat /\ n \in 1..n /\ recs[n].tick \in Int /\ recs[n].val \in Value
  BY RecordFacts
<1>2. new = <<Entry(tag, recs[n].val)>>
  BY DEF fold_change
<1>3. ASSUME NEW t \in Int, t >= edge PROVE ValueAt(new, t) = Seen(recs, n, t)
  <2>1. ValueAt(new, t) = recs[n].val
    BY <1>1, <1>2, <1>3, EntryFacts, ValueOfOne
  <2>2. IsLast(recs, n, t, n)
    BY <1>1, <1>3 DEF IsLast
  <2>. QED
    BY <1>1, <2>1, <2>2, SeenIsLast
<1>. QED
  BY <1>3 DEF SeesRight

(* A record that is emitted with its own tick.                             *)
LEMMA FoldSeesRight ==
  ASSUME NEW s, NEW recs \in Seq(Record), ByTick(recs),
         NEW n \in Nat, n < Len(recs), NEW edge \in Int,
         NEW trace \in Seq(Record), NoneAfter(trace, recs[n + 1].tick),
         SeesRight(recs, n, trace, edge),
         NEW new, new = fold_change(trace, s, recs[n + 1].tick, recs[n + 1].val)
  PROVE  SeesRight(recs, n + 1, new, edge)
<1>1. n + 1 \in DOMAIN recs
  OBVIOUS
<1>2. recs[n + 1].tick \in Nat /\ recs[n + 1].val \in Value
  BY <1>1, RecordFacts
<1>3. ASSUME NEW t \in Int, t >= edge PROVE ValueAt(new, t) = Seen(recs, n + 1, t)
  <2>1. ValueAt(new, t) = IF t >= recs[n + 1].tick THEN recs[n + 1].val ELSE ValueAt(trace, t)
    BY <1>2, FoldValue
  <2>2. ValueAt(trace, t) = Seen(recs, n, t)
    BY <1>3 DEF SeesRight
  <2>3. Seen(recs, n + 1, t) = IF t >= recs[n + 1].tick THEN recs[n + 1].val ELSE Seen(recs, n, t)
    BY SeenStep
  <2>. QED
    BY <2>1, <2>2, <2>3
<1>. QED
  BY <1>3 DEF SeesRight

(* The changes of a trace in order are where its value changes.            *)
LEMMA ChangesAreMoves ==
  ASSUME NEW s, s \notin EventSid, NEW trace \in Seq(Record), InOrder(s, trace),
         NEW t \in Int
  PROVE  /\ \A i \in DOMAIN trace : trace[i].tick = t =>
              ValueAt(trace, t) = trace[i].val /\ ValueAt(trace, t - 1) # trace[i].val
         /\ ValueAt(trace, t) # ValueAt(trace, t - 1) =>
              \E i \in DOMAIN trace : trace[i] = Entry(t, ValueAt(trace, t))
<1>n. PICK n \in Nat : n = Len(trace)
  OBVIOUS
<1>1. /\ DOMAIN trace = 1..n
      /\ \A i \in 1..n : /\ trace[i].tick \in Nat /\ trace[i].tick \in Int
                         /\ trace[i].val \in Value
                         /\ trace[i] = Entry(trace[i].tick, trace[i].val)
  BY <1>n, RecordFacts
<1>2. /\ \A i, j \in 1..n : i < j => trace[i].tick < trace[j].tick
      /\ \A i \in 1..(n - 1) : trace[i].val # trace[i + 1].val
  BY <1>1, <1>n DEF InOrder
<1>3. \A u \in Int : ValueAt(trace, u) = Seen(trace, n, u)
  BY <1>n, ValueIsSeen
<1>4. ASSUME NEW i \in 1..n, trace[i].tick = t
      PROVE  ValueAt(trace, t) = trace[i].val /\ ValueAt(trace, t - 1) # trace[i].val
  <2>1. IsLast(trace, n, t, i)
    BY <1>1, <1>2, <1>4 DEF IsLast
  <2>2. ValueAt(trace, t) = trace[i].val
    BY <1>3, <2>1, SeenIsLast
  <2>3. CASE i = 1
    <3>1. NoneYet(trace, n, t - 1)
      BY <1>1, <1>2, <1>4, <2>3 DEF NoneYet
    <3>2. ValueAt(trace, t - 1) = None
      BY <1>3, <3>1, SeenIsNone
    <3>. QED
      BY <1>1, <2>2, <3>2, NoneAssumption
  <2>4. CASE i > 1
    <3>1. i - 1 \in 1..(n - 1) /\ i - 1 \in 1..n /\ (i - 1) + 1 = i
      BY <2>4
    <3>2. trace[i - 1].tick < trace[i].tick
      BY <1>2, <3>1
    <3>3. \A j \in 1..n : trace[j].tick <= t - 1 => j <= i - 1
      BY <1>1, <1>2, <1>4
    <3>4. IsLast(trace, n, t - 1, i - 1)
      BY <1>1, <1>4, <3>1, <3>2, <3>3 DEF IsLast
    <3>5. ValueAt(trace, t - 1) = trace[i - 1].val
      BY <1>3, <3>4, SeenIsLast
    <3>6. trace[i - 1].val # trace[i].val
      BY <1>2, <3>1
    <3>. QED
      BY <2>2, <3>5, <3>6
  <2>. QED
    BY <2>3, <2>4
<1>5. ASSUME ValueAt(trace, t) # ValueAt(trace, t - 1)
      PROVE  \E i \in DOMAIN trace : trace[i] = Entry(t, ValueAt(trace, t))
  <2>1. CASE NoneYet(trace, n, t)
    <3>1. NoneYet(trace, n, t - 1)
      BY <1>1, <2>1 DEF NoneYet
    <3>. QED
      BY <1>3, <1>5, <2>1, <3>1, SeenIsNone
  <2>2. ASSUME NEW i \in 1..n, IsLast(trace, n, t, i)
        PROVE  \E j \in DOMAIN trace : trace[j] = Entry(t, ValueAt(trace, t))
    <3>1. ValueAt(trace, t) = trace[i].val
      BY <1>3, <2>2, SeenIsLast
    <3>2. CASE trace[i].tick = t
      BY <1>1, <3>1, <3>2
    <3>3. CASE trace[i].tick # t
      <4>1. IsLast(trace, n, t - 1, i)
        BY <1>1, <2>2, <3>3 DEF IsLast
      <4>2. ValueAt(trace, t - 1) = trace[i].val
        BY <1>3, <4>1, SeenIsLast
      <4>. QED
        BY <1>5, <3>1, <4>2
    <3>. QED
      BY <3>2, <3>3
  <2>. QED
    BY <2>1, <2>2, SeenCases
<1>. QED
  BY <1>1, <1>4, <1>5

-----------------------------------------------------------------------------

(***************************************************************************)
(* The request, clamped onto the file.                                     *)
(***************************************************************************)

LEMMA ScanBounds ==
  ASSUME file \in Files, ask \in Requests
  PROVE  /\ file.end \in Nat /\ scan_from \in Nat /\ scan_to \in Nat /\ seed_tag \in Nat
         /\ scan_from <= scan_to /\ scan_to <= file.end
         /\ ask.from = None => scan_from = 0 /\ scan_to = file.end
         /\ ask.from # None =>
              /\ ask.from \in Int
              /\ scan_from > 0 => scan_from <= ask.from
              /\ scan_from < ask.from => scan_from = file.end
              /\ ask.to = Unbounded => scan_to = file.end
              /\ ask.to # Unbounded =>
                   /\ ask.to \in Int
                   /\ scan_to < file.end => ask.to <= scan_to
         /\ scan_from > 0 => seed_tag = scan_from - 1
         /\ scan_from = 0 => seed_tag = 0
<1>1. file.end \in Nat
  BY FilesAssumption
<1>2. ask.from \in Int \cup {None} /\ ask.to \in Int \cup {Unbounded}
  BY RequestsAssumption
<1>3. CASE ask.from = None
  BY <1>1, <1>3 DEF scan_from, scan_to, seed_tag
<1>4. CASE ask.from # None
  <2>1. ask.from \in Int /\ (ask.to # Unbounded => ask.to \in Int)
    BY <1>2, <1>4
  <2>2. /\ scan_from \in Nat /\ scan_from <= file.end
        /\ scan_from > 0 => scan_from <= ask.from
        /\ scan_from < ask.from => scan_from = file.end
    BY <1>1, <1>4, <2>1 DEF scan_from, Least, Most
  <2>. HIDE DEF scan_from
  <2>3. /\ scan_to \in Nat /\ scan_from <= scan_to /\ scan_to <= file.end
        /\ ask.to = Unbounded => scan_to = file.end
        /\ ask.to # Unbounded => (scan_to < file.end => ask.to <= scan_to)
    BY <1>1, <1>4, <2>1, <2>2 DEF scan_to, Least, Most
  <2>4. /\ seed_tag \in Nat
        /\ scan_from > 0 => seed_tag = scan_from - 1
        /\ scan_from = 0 => seed_tag = 0
    BY <2>2 DEF seed_tag
  <2>. QED
    BY <1>1, <1>4, <2>1, <2>2, <2>3, <2>4
<1>. QED
  BY <1>3, <1>4

LEMMA FileFacts ==
  ASSUME file \in Files, NEW s \in Sid
  PROVE  /\ file.recs[s] \in Seq(Record) /\ ByTick(file.recs[s])
         /\ \A i \in DOMAIN file.recs[s] : file.recs[s][i].tick <= file.end
BY FilesAssumption

LEMMA EdgeIsTick ==
  ASSUME file \in Files, ask \in Requests, NEW s
  PROVE  LeftEdge(s) \in Int
<1>1. scan_from \in Nat /\ (ask.from # None => ask.from \in Int)
  BY ScanBounds
<1>. HIDE DEF scan_from
<1>. QED
  BY <1>1 DEF LeftEdge

(* A signal's first callback: its last record before the scan, or its      *)
(* first record.                                                           *)
LEMMA FirstDeliveredFacts ==
  ASSUME file \in Files, ask \in Requests, NEW s \in Sid, file.recs[s] # << >>
  PROVE  LET p == FirstDelivered(s)
             recs == file.recs[s]
         IN  /\ p \in DOMAIN recs
             /\ p = 1 \/ recs[p].tick < scan_from
             /\ \A j \in DOMAIN recs : j = 1 \/ recs[j].tick < scan_from => j <= p
<1>. DEFINE before == {i \in DOMAIN file.recs[s] : i = 1 \/ file.recs[s][i].tick < scan_from}
<1>1. file.recs[s] \in Seq(Record)
  BY FileFacts
<1>2. before \in SUBSET (1..Len(file.recs[s])) /\ Len(file.recs[s]) \in Nat
  BY <1>1
<1>3. 1 \in before
  BY <1>1
<1>4. \E i \in before : \A j \in before : j <= i
  BY <1>2, <1>3, GreatestUpTo
<1>5. FirstDelivered(s) = CHOOSE i \in before : \A j \in before : j <= i
  BY DEF FirstDelivered
<1>6. FirstDelivered(s) \in before /\ \A j \in before : j <= FirstDelivered(s)
  BY <1>4, <1>5
<1>. QED
  BY <1>6

-----------------------------------------------------------------------------

(***************************************************************************)
(* Parts of a step.                                                        *)
(***************************************************************************)

(* The next signal is taken off the list.                                  *)
LEMMA NextTurn ==
  ASSUME NEW turns \in Seq(Sid), turns # << >>, NoRepeats(turns),
         NEW rest, rest = Tail(turns)
  PROVE  /\ rest \in Seq(Sid) /\ NoRepeats(rest)
         /\ Head(turns) \in Sid
         /\ Range(rest) = Range(turns) \ {Head(turns)}
         /\ Head(turns) \in Range(turns)
<1>n. PICK n \in Nat : n = Len(turns)
  OBVIOUS
<1>1. /\ n \in Nat /\ n > 0 /\ DOMAIN turns = 1..n /\ Head(turns) = turns[1]
      /\ turns[1] \in Sid
  BY <1>n
<1>2. /\ rest \in Seq(Sid) /\ DOMAIN rest = 1..(n - 1)
      /\ \A i \in 1..(n - 1) : rest[i] = turns[i + 1]
  BY <1>n, <1>1
<1>3. NoRepeats(rest)
  BY <1>1, <1>2 DEF NoRepeats
<1>4. \A i \in 1..n : turns[i] # turns[1] => i - 1 \in 1..(n - 1) /\ rest[i - 1] = turns[i]
  BY <1>1, <1>2
<1>5. \A i \in 1..(n - 1) : i + 1 \in 1..n /\ turns[i + 1] # turns[1]
  BY <1>1 DEF NoRepeats
<1>6. ASSUME NEW x \in Range(turns), x # turns[1]
      PROVE  x \in Range(rest)
  <2>1. PICK i \in DOMAIN turns : x = turns[i]
    BY DEF Range
  <2>2. i - 1 \in DOMAIN rest /\ rest[i - 1] = x
    BY <1>1, <1>2, <1>4, <1>6, <2>1
  <2>. QED
    BY <2>2 DEF Range
<1>7. ASSUME NEW x \in Range(rest)
      PROVE  x \in Range(turns) /\ x # turns[1]
  BY <1>1, <1>2, <1>5, <1>7 DEF Range
<1>8. turns[1] \in Range(turns)
  BY <1>1 DEF Range
<1>. QED
  BY <1>1, <1>2, <1>3, <1>6, <1>7, <1>8

(* A step that leaves a signal's trace and position alone leaves what is   *)
(* known of them.                                                          *)
LEMMA SignalUntouched ==
  ASSUME NEW s, UNCHANGED <<file, vendor, ask>>,
         pos'[s] = pos[s], traces'[s] = traces[s]
  PROVE  /\ RightSoFar(s) => RightSoFar(s)'
         /\ EventsSoFar(s) => EventsSoFar(s)'
         /\ Finished(s) => Finished(s)'
         /\ AtSeed(s) => AtSeed(s)'
<1>1. scan_from' = scan_from
  BY DEF scan_from
<1>2. LeftEdge(s)' = LeftEdge(s)
  <2>1. \A t : NetValue(s, t)' = NetValue(s, t)
    BY DEF NetValue
  <2>. QED
    BY <1>1, <2>1 DEF LeftEdge
<1>. HIDE DEF scan_from
<1>3. RightSoFar(s) => RightSoFar(s)'
  BY <1>2 DEF RightSoFar
<1>4. EventsSoFar(s) => EventsSoFar(s)'
  BY <1>1 DEF EventsSoFar, SeedEntry
<1>. QED
  BY <1>3, <1>4 DEF Finished, AtSeed

(* WLF's steps other than callbacks.                                       *)
LEMMA Bookkeeping ==
  ASSUME DecodeInv, vendor = "wlf",
         UNCHANGED <<file, vendor, ask, pos, traces, cur_time, have_time>>,
         pc' \in {"values", "pack", "boxes", "done"} /\ rc' = 0 => \A s \in Asked : Finished(s)
  PROVE  /\ file' \in Files /\ ask' \in Requests
         /\ \A s \in Sid : pos'[s] <= Len(file'.recs[s]) /\ InOrder(s, traces'[s])
         /\ Scanned' /\ Streamed'
<1>1. /\ file' \in Files /\ ask' \in Requests
      /\ \A s \in Sid : pos'[s] <= Len(file'.recs[s]) /\ InOrder(s, traces'[s])
  BY DEF DecodeInv
<1>2. Streamed'
  BY DEF Streamed
<1>3. Asked' = Asked /\ scan_from' = scan_from /\ scan_to' = scan_to
  BY DEF Asked, scan_from, scan_to
<1>4. \A s : /\ RightSoFar(s) => RightSoFar(s)'
             /\ EventsSoFar(s) => EventsSoFar(s)'
             /\ Finished(s) => Finished(s)'
             /\ NotLate(s) => NotLate(s)'
  <2>. TAKE s
  <2>1. NotLate(s) => NotLate(s)'
    <3>. HIDE DEF scan_from
    <3>. QED
      BY <1>3 DEF NotLate
  <2>. QED
    BY <2>1, SignalUntouched
<1>. HIDE DEF scan_from, scan_to, Asked
<1>5. Scanned'
  BY <1>3, <1>4 DEF DecodeInv, Scanned, Traced
<1>. QED
  BY <1>1, <1>2, <1>5

-----------------------------------------------------------------------------

(***************************************************************************)
(* The steps.                                                              *)
(***************************************************************************)

LEMMA InitDecodeInv == Init => DecodeInv
<1>. SUFFICES ASSUME Init PROVE DecodeInv
  OBVIOUS
<1>1. file \in Files /\ ask \in Requests /\ file.end \in Nat
  BY FilesAssumption DEF Init
<1>2. ask.sids \in Seq(Sid) /\ NoRepeats(ask.sids)
  BY <1>1, RequestsAssumption DEF NoRepeats
<1>3. scan_from \in Nat /\ scan_to \in Nat /\ scan_from <= scan_to
  BY <1>1, ScanBounds
<1>4. \A s \in Sid : Len(file.recs[s]) \in Nat
  BY <1>1, FileFacts
<1>5. \A s \in Sid : pos[s] = 0 /\ traces[s] = << >>
  BY DEF Init
<1>6. Waiting = Asked /\ todo = ask.sids
  BY DEF Init, Waiting, Asked, Range
<1>7. TypeOK /\ HeldDataIsLive
  <2>1. traces \in [Sid -> Trace] /\ pos \in [Sid -> Nat]
    BY DEF Init, Trace
  <2>2. /\ cur_time \in Nat /\ todo \in Seq(Sid)
        /\ pc \in {"create", "register", "scan", "values", "pack", "boxes", "stream", "done"}
    BY <1>2, <1>3 DEF Init
  <2>. QED
    BY <1>1, <2>1, <2>2 DEF Init, TypeOK, HeldDataIsLive
<1>8. \A s \in Sid : pos[s] <= Len(file.recs[s]) /\ InOrder(s, traces[s])
  BY <1>4, <1>5 DEF InOrder
<1>9. Phases
  BY DEF Init, Phases
<1>10. Turns
  BY <1>2, <1>6 DEF Init, Turns
<1>11. ASSUME NEW s \in Sid PROVE Traced(s)
  <2>1. RightSoFar(s)
    BY <1>5, NothingSeesRight DEF RightSoFar
  <2>2. EventsSoFar(s)
    BY <1>4, <1>5 DEF EventsSoFar
  <2>. QED
    BY <1>5, <2>1, <2>2 DEF Traced, NoneAfter
<1>12. cur_time = scan_from /\ have_time = FALSE
  BY DEF Init
<1>13. \A s \in Asked : s \in Sid
  BY <1>2 DEF Asked
<1>. HIDE DEF scan_from, scan_to
<1>14. \A s \in Asked : NotLate(s)
  BY <1>5, <1>12, <1>13 DEF NotLate
<1>15. Scanned
  BY <1>3, <1>11, <1>12, <1>14 DEF Init, Scanned
<1>16. Streamed
  <2>1. \A s \in Sid : traces[s] = << >> /\ AtSeed(s)
    BY <1>5 DEF AtSeed
  <2>2. vendor = "fsdb" => pc = "stream" /\ vct = None
    BY DEF Init
  <2>. QED
    BY <1>6, <1>13, <2>1, <2>2 DEF Streamed, Emitted
<1>. QED
  BY <1>1, <1>7, <1>8, <1>9, <1>10, <1>15, <1>16 DEF DecodeInv

(* The steps of a WLF decode around its callbacks: the pack, what is       *)
(* registered in it, the cleanup.                                          *)
LEMMA ResourceSteps ==
  ASSUME DecodeInv,
         \/ CreatePack \/ NoSymbol \/ Register \/ ValueCreateFails \/ AppendFails \/ StartScan
         \/ ScanEnds \/ DestroyValues \/ DestroyPack \/ FreeBoxes
  PROVE  DecodeInv'
<1>. USE DEF host, wlf
<1>1. /\ TypeOK /\ HeldDataIsLive /\ Phases /\ Turns /\ Scanned
      /\ file \in Files /\ ask \in Requests
  BY DEF DecodeInv
<1>2. vendor = "wlf" /\ UNCHANGED <<file, vendor, ask, pos, traces, cur_time, have_time, vct>>
  BY <1>1 DEF TypeOK, Phases, CreatePack, NoSymbol, Register, ValueCreateFails, AppendFails,
              StartScan, ScanEnds, DestroyValues, DestroyPack, FreeBoxes
<1>3. ask.sids \in Seq(Sid) /\ Asked \subseteq Sid /\ Asked' = Asked
  BY <1>1, <1>2, RequestsAssumption DEF Asked
<1>5. ASSUME todo # << >>
      PROVE  /\ Head(todo) \in Waiting /\ Head(todo) \in Sid /\ Head(todo) \notin kept
             /\ todo' = Tail(todo) =>
                  /\ todo' \in Seq(Sid) /\ NoRepeats(todo')
                  /\ Waiting' = Waiting \ {Head(todo)}
  <2>1. todo \in Seq(Sid) /\ NoRepeats(todo)
    BY <1>1 DEF TypeOK, Turns
  <2>2. Head(todo) \in Waiting /\ Head(todo) \in Sid
    BY <1>5, <2>1, NextTurn DEF Waiting
  <2>3. todo' = Tail(todo) =>
          todo' \in Seq(Sid) /\ NoRepeats(todo') /\ Waiting' = Waiting \ {Head(todo)}
    BY <1>5, <2>1, NextTurn DEF Waiting
  <2>. QED
    BY <1>1, <2>2, <2>3 DEF Turns
<1>6. todo' = todo => Waiting' = Waiting /\ NoRepeats(todo')
  BY <1>1 DEF Waiting, Turns
<1>7. ASSUME TypeOK', HeldDataIsLive', Phases', Turns',
             pc' \in {"values", "pack", "boxes", "done"} /\ rc' = 0 => \A s \in Asked : Finished(s)
      PROVE  DecodeInv'
  BY <1>2, <1>7, Bookkeeping DEF DecodeInv
<1>8. CASE CreatePack
  <2>. USE <1>8 DEF CreatePack
  <2>1. TypeOK' /\ HeldDataIsLive'
    BY <1>1 DEF TypeOK, HeldDataIsLive, Phases
  <2>2. Phases'
    BY <1>1, <1>2 DEF Phases
  <2>3. Turns'
    BY <1>1, <1>2, <1>3, <1>6 DEF Turns
  <2>. QED
    BY <1>7, <2>1, <2>2, <2>3
<1>9. CASE NoSymbol
  <2>. USE <1>9 DEF NoSymbol
  <2>1. TypeOK' /\ HeldDataIsLive'
    BY <1>1, <1>5 DEF TypeOK, HeldDataIsLive
  <2>2. Phases'
    BY <1>1, <1>2 DEF Phases
  <2>3. Turns'
    BY <1>1, <1>2, <1>3, <1>5 DEF Turns
  <2>. QED
    BY <1>7, <2>1, <2>2, <2>3
<1>10. CASE Register
  <2>. USE <1>10 DEF Register
  <2>1. TypeOK' /\ HeldDataIsLive'
    BY <1>1, <1>5 DEF TypeOK, HeldDataIsLive
  <2>2. Phases'
    BY <1>1, <1>2 DEF Phases
  <2>3. Turns'
    BY <1>1, <1>2, <1>3, <1>5 DEF Turns
  <2>. QED
    BY <1>7, <2>1, <2>2, <2>3
<1>11. CASE ValueCreateFails
  <2>. USE <1>11 DEF ValueCreateFails
  <2>1. TypeOK' /\ HeldDataIsLive'
    BY <1>1 DEF TypeOK, HeldDataIsLive
  <2>2. Phases'
    BY <1>1, <1>2 DEF Phases
  <2>3. Turns'
    BY <1>1, <1>2, <1>3, <1>6 DEF Turns
  <2>. QED
    BY <1>7, <2>1, <2>2, <2>3
<1>12. CASE AppendFails
  <2>. USE <1>12 DEF AppendFails
  <2>1. TypeOK' /\ HeldDataIsLive'
    BY <1>1, <1>5 DEF TypeOK, HeldDataIsLive
  <2>2. Phases'
    BY <1>1, <1>2 DEF Phases
  <2>3. Turns'
    BY <1>1, <1>2, <1>3, <1>6 DEF Turns
  <2>. QED
    BY <1>7, <2>1, <2>2, <2>3
<1>13. CASE StartScan
  <2>. USE <1>13 DEF StartScan
  <2>1. TypeOK' /\ HeldDataIsLive'
    BY <1>1 DEF TypeOK, HeldDataIsLive
  <2>2. Phases'
    BY <1>1, <1>2 DEF Phases
  <2>3. Turns'
    BY <1>1, <1>2, <1>3, <1>6 DEF Turns
  <2>4. Waiting = {}
    BY DEF Waiting, Range
  <2>5. ASSUME kept = {}, NEW s \in Asked PROVE Finished(s)
    <3>1. file.recs[s] = << >>
      BY <1>1, <2>4, <2>5 DEF Turns
    <3>2. pos[s] \in Nat /\ pos[s] <= Len(file.recs[s])
      BY <1>3 DEF DecodeInv, TypeOK
    <3>. QED
      BY <3>1, <3>2 DEF Finished
  <2>. QED
    BY <1>7, <2>1, <2>2, <2>3, <2>5
<1>14. CASE ScanEnds
  <2>. USE <1>14 DEF ScanEnds
  <2>1. TypeOK' /\ HeldDataIsLive'
    BY <1>1 DEF TypeOK, HeldDataIsLive
  <2>2. Phases'
    BY <1>1, <1>2 DEF Phases
  <2>3. Turns'
    BY <1>1, <1>2, <1>3, <1>6 DEF Turns
  <2>4. ASSUME ScanComplete, NEW s \in Asked PROVE Finished(s)
    <3>1. pos[s] \in Nat /\ pos[s] <= Len(file.recs[s]) /\ Len(file.recs[s]) \in Nat
      BY <1>1, <1>3, FileFacts DEF DecodeInv, TypeOK
    <3>2. CASE s \in kept
      <4>1. ~Pending(s) /\ cur_time = scan_to
        BY <2>4, <3>2 DEF ScanComplete
      <4>2. CASE pos[s] < Len(file.recs[s])
        <5>1. pos[s] + 1 \in DOMAIN file.recs[s]
          BY <1>1, <1>3, <3>1, <4>2, FileFacts
        <5>2. /\ file.recs[s][pos[s] + 1].tick \in Nat
              /\ file.recs[s][pos[s] + 1].tick <= file.end
          BY <1>1, <1>3, <5>1, FileFacts, RecordFacts
        <5>3. ~(file.recs[s][pos[s] + 1].tick <= scan_to)
          BY <4>1, <4>2 DEF Pending
        <5>4. scan_to \in Nat /\ file.end \in Nat /\ scan_to # file.end /\ scan_to < file.end
          BY <1>1, <5>2, <5>3, ScanBounds
        <5>5. /\ ask.from # None /\ ask.to # Unbounded
              /\ ask.to \in Int /\ ask.to <= scan_to
          BY <1>1, <5>4, ScanBounds
        <5>6. file.recs[s][pos[s] + 1].tick > ask.to
          BY <5>2, <5>3, <5>4, <5>5
        <5>. QED
          BY <5>5, <5>6 DEF Finished
      <4>. QED
        BY <3>1, <4>2 DEF Finished
    <3>3. CASE s \notin kept
      <4>1. file.recs[s] = << >>
        BY <1>1, <3>3 DEF Turns, Waiting, Range
      <4>. QED
        BY <3>1, <4>1 DEF Finished
    <3>. QED
      BY <3>2, <3>3
  <2>. QED
    BY <1>7, <2>1, <2>2, <2>3, <2>4
<1>15. rc = 0 /\ pc \in {"values", "pack", "boxes", "done"} => \A s \in Asked : Finished(s)
  BY <1>1, <1>2 DEF Scanned
<1>16. CASE DestroyValues
  <2>. USE <1>16 DEF DestroyValues
  <2>1. TypeOK' /\ HeldDataIsLive'
    BY <1>1 DEF TypeOK, HeldDataIsLive, Phases
  <2>2. Phases'
    BY <1>1, <1>2 DEF Phases
  <2>3. Turns'
    BY <1>1, <1>2, <1>3, <1>6 DEF Turns
  <2>. QED
    BY <1>7, <1>15, <2>1, <2>2, <2>3
<1>17. CASE DestroyPack
  <2>. USE <1>17 DEF DestroyPack
  <2>1. TypeOK' /\ HeldDataIsLive'
    BY <1>1 DEF TypeOK, HeldDataIsLive, Phases
  <2>2. Phases'
    BY <1>1, <1>2 DEF Phases
  <2>3. Turns'
    BY <1>1, <1>2, <1>3, <1>6 DEF Turns
  <2>. QED
    BY <1>7, <1>15, <2>1, <2>2, <2>3
<1>18. CASE FreeBoxes
  <2>. USE <1>18 DEF FreeBoxes
  <2>1. TypeOK' /\ HeldDataIsLive'
    BY <1>1 DEF TypeOK, HeldDataIsLive, Phases
  <2>2. Phases'
    BY <1>1, <1>2 DEF Phases
  <2>3. Turns'
    BY <1>1, <1>2, <1>3, <1>6 DEF Turns
  <2>. QED
    BY <1>7, <1>15, <2>1, <2>2, <2>3
<1>. QED
  BY <1>8, <1>9, <1>10, <1>11, <1>12, <1>13, <1>14, <1>16, <1>17, <1>18

LEMMA Stutter == DecodeInv /\ UNCHANGED vars => DecodeInv'
<1>. SUFFICES ASSUME DecodeInv, UNCHANGED vars PROVE DecodeInv'
  OBVIOUS
<1>. USE DEF vars, wlf
<1>1. /\ TypeOK' /\ HeldDataIsLive' /\ Phases' /\ Turns'
      /\ file' \in Files /\ ask' \in Requests
  <2>1. TypeOK' /\ HeldDataIsLive'
    BY DEF DecodeInv, TypeOK, HeldDataIsLive
  <2>2. Phases'
    BY DEF DecodeInv, Phases
  <2>3. Turns'
    BY DEF DecodeInv, Turns, Waiting, Asked
  <2>. QED
    BY <2>1, <2>2, <2>3 DEF DecodeInv
<1>2. \A s \in Sid : pos'[s] <= Len(file'.recs[s]) /\ InOrder(s, traces'[s])
  BY DEF DecodeInv
<1>3. \A s : /\ RightSoFar(s) => RightSoFar(s)'
             /\ EventsSoFar(s) => EventsSoFar(s)'
             /\ Finished(s) => Finished(s)'
             /\ AtSeed(s) => AtSeed(s)'
  BY SignalUntouched
<1>4. Asked' = Asked /\ Waiting' = Waiting /\ scan_from' = scan_from /\ scan_to' = scan_to
  BY DEF Asked, Waiting, scan_from, scan_to
<1>. HIDE DEF Asked, Waiting, scan_from, scan_to
<1>5. \A s : /\ NotLate(s) => NotLate(s)'
             /\ Traced(s) => Traced(s)'
  BY <1>3, <1>4 DEF NotLate, Traced
<1>6. Scanned'
  BY <1>3, <1>4, <1>5 DEF DecodeInv, Scanned
<1>7. Streamed'
  BY <1>3, <1>4 DEF DecodeInv, Streamed, Emitted
<1>. QED
  BY <1>1, <1>2, <1>6, <1>7 DEF DecodeInv

(* What a step of the scan starts from.                                    *)
LEMMA ScanFacts ==
  ASSUME DecodeInv, pc = "scan"
  PROVE  /\ vendor = "wlf" /\ file \in Files /\ ask \in Requests
         /\ TypeOK /\ Phases /\ Turns /\ HeldDataIsLive
         /\ cur_time \in Nat /\ cur_time \in scan_from..scan_to
         /\ have_time <=> cur_time > scan_from
         /\ Asked \subseteq Sid /\ kept \subseteq Asked
         /\ \A s \in Sid : /\ Traced(s) /\ InOrder(s, traces[s])
                           /\ pos[s] \in Nat /\ pos[s] <= Len(file.recs[s])
                           /\ traces[s] \in Seq(Record)
         /\ \A s \in Asked : NotLate(s)
<1>1. /\ TypeOK /\ HeldDataIsLive /\ Phases /\ Turns /\ Scanned
      /\ file \in Files /\ ask \in Requests
  BY DEF DecodeInv
<1>2. vendor = "wlf"
  BY <1>1 DEF TypeOK, Phases
<1>3. Asked \subseteq Sid /\ kept \subseteq Asked
  BY <1>1, RequestsAssumption DEF Asked, Turns
<1>4. \A s \in Sid : pos[s] \in Nat /\ traces[s] \in Seq(Record)
  BY <1>1 DEF TypeOK, Trace, Record
<1>5. \A s \in Sid : pos[s] <= Len(file.recs[s]) /\ InOrder(s, traces[s])
  BY DEF DecodeInv
<1>6. /\ cur_time \in scan_from..scan_to /\ (have_time <=> cur_time > scan_from)
      /\ \A s \in Sid : Traced(s)
      /\ \A s \in Asked : NotLate(s)
  BY <1>1, <1>2 DEF Scanned
<1>7. cur_time \in Nat
  BY <1>1 DEF TypeOK
<1>. QED
  BY <1>1, <1>2, <1>3, <1>4, <1>5, <1>6, <1>7

(* The library advances its time when nothing is pending.                  *)
LEMMA TimeStep ==
  ASSUME DecodeInv, time_advance_cb
  PROVE  DecodeInv'
<1>. USE DEF host
<1>1. pc = "scan"
  BY DEF time_advance_cb
<1>2. /\ UNCHANGED <<file, vendor, ask, pc, todo, pos, pack, kept, values, boxes, vct, traces, rc>>
      /\ cur_time' = cur_time + 1 /\ cur_time < scan_to /\ have_time'
      /\ \A s \in kept : ~Pending(s)
  BY DEF time_advance_cb
<1>3. Asked' = Asked /\ Waiting' = Waiting /\ scan_from' = scan_from /\ scan_to' = scan_to
  BY <1>2 DEF Asked, Waiting, scan_from, scan_to
<1>4. scan_from \in Nat /\ scan_to \in Nat
  BY <1>1, ScanFacts, ScanBounds
<1>. HIDE DEF scan_from, scan_to, Asked
<1>5. ASSUME NEW s \in Sid PROVE Traced(s)'
  <2>1. Traced(s) /\ traces[s] \in Seq(Record) /\ cur_time \in Nat
    BY <1>1, ScanFacts
  <2>2. NoneAfter(traces[s], cur_time + 1)
    <3>1. \A i \in DOMAIN traces[s] : traces[s][i].tick \in Nat
      BY <2>1, RecordFacts
    <3>. QED
      BY <2>1, <3>1 DEF Traced, NoneAfter
  <2>3. (RightSoFar(s) => RightSoFar(s)') /\ (EventsSoFar(s) => EventsSoFar(s)')
    BY <1>2, SignalUntouched
  <2>. QED
    BY <1>2, <2>1, <2>2, <2>3 DEF Traced
<1>6. ASSUME NEW s \in Asked PROVE NotLate(s)'
  <2>1. /\ s \in Sid /\ file \in Files /\ cur_time \in Nat
        /\ pos[s] \in Nat /\ pos[s] <= Len(file.recs[s])
    BY <1>1, ScanFacts
  <2>2. SUFFICES ASSUME pos[s] < Len(file.recs[s])
                 PROVE  file.recs[s][pos[s] + 1].tick >= cur_time + 1
    BY <1>2 DEF NotLate
  <2>3. pos[s] + 1 \in DOMAIN file.recs[s]
    BY <2>1, <2>2, FileFacts
  <2>4. file.recs[s][pos[s] + 1].tick \in Nat
    BY <2>1, <2>3, FileFacts, RecordFacts
  <2>5. s \in kept
    <3>1. todo = << >>
      BY <1>1, ScanFacts DEF Turns
    <3>2. Waiting = {}
      BY <3>1 DEF Waiting, Range
    <3>3. s \notin kept => file.recs[s] = << >>
      BY <1>1, <3>2, ScanFacts DEF Turns
    <3>. QED
      BY <2>3, <3>3
  <2>6. ~Pending(s)
    BY <1>2, <2>5
  <2>. QED
    BY <2>1, <2>2, <2>4, <2>6 DEF Pending
<1>7. Scanned'
  <2>1. /\ cur_time' \in scan_from..scan_to
        /\ have_time' <=> cur_time' > scan_from
    BY <1>1, <1>2, <1>4, ScanFacts
  <2>. QED
    BY <1>1, <1>2, <1>3, <1>5, <1>6, <2>1 DEF Scanned
<1>8. Streamed'
  BY <1>1, <1>2, ScanFacts DEF Streamed
<1>9. TypeOK' /\ HeldDataIsLive'
  <2>1. cur_time' \in Nat /\ have_time' \in BOOLEAN
    BY <1>1, ScanFacts DEF time_advance_cb
  <2>. QED
    BY <1>1, <1>2, <2>1, ScanFacts DEF TypeOK, HeldDataIsLive
<1>10. Phases' /\ Turns'
  BY <1>1, <1>2, <1>3, ScanFacts DEF Phases, Turns
<1>11. /\ file' \in Files /\ ask' \in Requests
       /\ \A s \in Sid : pos'[s] <= Len(file'.recs[s]) /\ InOrder(s, traces'[s])
  BY <1>1, <1>2, ScanFacts
<1>. QED
  BY <1>7, <1>8, <1>9, <1>10, <1>11 DEF DecodeInv

(* An event's record joins its trace, unchanged.                           *)
LEMMA EventAppended ==
  ASSUME UNCHANGED <<file, vendor, ask>>, file \in Files,
         NEW s \in Sid, s \in EventSid, EventsSoFar(s),
         traces[s] \in Seq(Record), pos[s] \in Nat, pos[s] < Len(file.recs[s]),
         pos'[s] = pos[s] + 1,
         traces'[s] = Append(traces[s], file.recs[s][pos[s] + 1])
  PROVE  EventsSoFar(s)'
<1>1. PICK d \in 0..Len(file.recs[s]) :
        /\ pos[s] = Len(traces[s]) + d
        /\ d > 0 => /\ d < Len(file.recs[s]) /\ ask.from # None
                    /\ file.recs[s][d + 1].tick <= ask.from
                    /\ vendor = "wlf" => file.recs[s][d + 1].tick < scan_from
        /\ \A i \in DOMAIN traces[s] :
             traces[s][i] = file.recs[s][i + d] \/ SeedEntry(s, i, d)
  BY DEF EventsSoFar
<1>n. PICK n \in Nat : n = Len(traces[s])
  OBVIOUS
<1>2. scan_from' = scan_from
  BY DEF scan_from
<1>. HIDE DEF scan_from
<1>3. file.recs[s] \in Seq(Record) /\ pos[s] + 1 \in DOMAIN file.recs[s]
  BY FileFacts
<1>4. file.recs[s][pos[s] + 1] \in Record
  BY <1>3, RecordFacts
<1>5. /\ DOMAIN traces[s] = 1..n /\ DOMAIN traces'[s] = 1..(n + 1) /\ Len(traces'[s]) = n + 1
      /\ traces'[s][n + 1] = file.recs[s][pos[s] + 1]
      /\ \A i \in 1..n : traces'[s][i] = traces[s][i]
  BY <1>n, <1>4, AppendFacts, RecordFacts
<1>6. pos'[s] = Len(traces'[s]) + d /\ pos[s] = n + d
  BY <1>1, <1>n, <1>5
<1>7. ASSUME NEW i \in 1..(n + 1)
      PROVE  traces'[s][i] = file'.recs[s][i + d] \/ SeedEntry(s, i, d)'
  <2>1. CASE i = n + 1
    <3>1. i + d = pos[s] + 1
      BY <1>1, <1>6, <2>1
    <3>. QED
      BY <1>5, <2>1, <3>1
  <2>2. CASE i # n + 1
    <3>1. i \in 1..n
      BY <2>2
    <3>2. traces[s][i] = file.recs[s][i + d] \/ SeedEntry(s, i, d)
      BY <1>1, <1>5, <3>1
    <3>3. SeedEntry(s, i, d) => SeedEntry(s, i, d)'
      BY <1>2, <1>5, <3>1 DEF SeedEntry
    <3>. QED
      BY <1>5, <3>1, <3>2, <3>3
  <2>. QED
    BY <2>1, <2>2
<1>. QED
  BY <1>1, <1>2, <1>5, <1>6, <1>7 DEF EventsSoFar

(* A change is emitted during the scan: what is left to show when its      *)
(* signal stays right.                                                     *)
LEMMA ScanEmits ==
  ASSUME DecodeInv, pc = "scan",
         UNCHANGED <<file, vendor, ask, pc, todo, cur_time, have_time, pack, kept, values,
                     boxes, vct, rc>>,
         NEW s \in Sid, NEW n \in DOMAIN file.recs[s], NEW tag \in Nat,
         pos' = [pos EXCEPT ![s] = n],
         traces' = [traces EXCEPT ![s] = fold_change(@, s, tag, file.recs[s][n].val)],
         NoneAfter(traces[s], tag), tag <= cur_time,
         RightSoFar(s)', s \in EventSid => EventsSoFar(s)', NotLate(s)'
  PROVE  DecodeInv'
<1>1. /\ TypeOK /\ Phases /\ Turns /\ HeldDataIsLive
      /\ file \in Files /\ ask \in Requests /\ vendor = "wlf" /\ cur_time \in Nat
      /\ Asked \subseteq Sid
  BY ScanFacts
<1>2. /\ traces \in [Sid -> Seq(Record)] /\ pos \in [Sid -> Nat]
      /\ file.recs[s] \in Seq(Record) /\ n \in Nat /\ n > 0 /\ n <= Len(file.recs[s])
  <2>1. traces \in [Sid -> Seq(Record)] /\ pos \in [Sid -> Nat]
    BY <1>1 DEF TypeOK, Trace, Record
  <2>2. file.recs[s] \in Seq(Record)
    BY <1>1, FileFacts
  <2>3. n \in 1..Len(file.recs[s])
    BY <2>2
  <2>. QED
    BY <2>1, <2>2, <2>3
<1>3. /\ pos'[s] = n /\ traces'[s] = fold_change(traces[s], s, tag, file.recs[s][n].val)
      /\ \A q \in Sid : q # s => pos'[q] = pos[q] /\ traces'[q] = traces[q]
      /\ file.recs[s][n].val \in Value
  BY <1>2, RecordFacts
<1>4. /\ traces'[s] \in Seq(Record) /\ traces'[s] # << >>
      /\ InOrder(s, traces'[s]) /\ NoneAfter(traces'[s], tag)
  <2>1. InOrder(s, traces[s]) /\ traces[s] \in Seq(Record)
    BY ScanFacts
  <2>. QED
    BY <1>3, <2>1, FoldKeepsOrder
<1>5. traces' \in [Sid -> Seq(Record)] /\ pos' \in [Sid -> Nat]
  <2>1. DOMAIN traces' = Sid /\ traces' = [q \in Sid |-> traces'[q]]
    BY <1>2
  <2>2. \A q \in Sid : traces'[q] \in Seq(Record)
    BY <1>2, <1>3, <1>4
  <2>. QED
    BY <1>2, <2>1, <2>2
<1>6. TypeOK' /\ HeldDataIsLive'
  BY <1>1, <1>5 DEF TypeOK, HeldDataIsLive, Trace, Record
<1>7. Asked' = Asked /\ Waiting' = Waiting /\ scan_from' = scan_from /\ scan_to' = scan_to
  BY DEF Asked, Waiting, scan_from, scan_to
<1>. HIDE DEF Asked, scan_from, scan_to
<1>8. Phases' /\ Turns'
  BY <1>1, <1>7 DEF Phases, Turns
<1>9. \A q \in Sid : pos'[q] <= Len(file'.recs[q]) /\ InOrder(q, traces'[q])
  BY <1>2, <1>3, <1>4 DEF DecodeInv
<1>10. ASSUME NEW q \in Sid PROVE Traced(q)'
  <2>1. CASE q = s
    <3>1. \A i \in DOMAIN traces'[s] : traces'[s][i].tick \in Nat
      BY <1>4, RecordFacts
    <3>2. NoneAfter(traces'[s], cur_time)
      BY <1>1, <1>4, <3>1 DEF NoneAfter
    <3>. QED
      BY <1>2, <1>3, <2>1, <3>2 DEF Traced
  <2>2. CASE q # s
    <3>1. (RightSoFar(q) => RightSoFar(q)') /\ (EventsSoFar(q) => EventsSoFar(q)')
      BY <1>3, <2>2, SignalUntouched
    <3>2. Traced(q)
      BY ScanFacts
    <3>. QED
      BY <1>3, <2>2, <3>1, <3>2 DEF Traced
  <2>. QED
    BY <2>1, <2>2
<1>11. ASSUME NEW q \in Asked PROVE NotLate(q)'
  <2>1. NotLate(q) /\ q \in Sid
    BY <1>1, ScanFacts
  <2>. QED
    BY <1>3, <1>7, <2>1 DEF NotLate
<1>12. Scanned'
  <2>1. /\ cur_time \in scan_from..scan_to /\ (have_time <=> cur_time > scan_from)
    BY ScanFacts
  <2>. QED
    BY <1>7, <1>10, <1>11, <2>1 DEF Scanned
<1>13. Streamed'
  BY <1>1 DEF Streamed
<1>. QED
  BY <1>1, <1>6, <1>8, <1>9, <1>12, <1>13 DEF DecodeInv

(* A record delivered at its own tick.                                     *)
LEMMA DeliveredInTime ==
  ASSUME DecodeInv, pc = "scan",
         UNCHANGED <<file, vendor, ask, pc, todo, cur_time, have_time, pack, kept, values,
                     boxes, vct, rc>>,
         NEW s \in Sid, s \in Asked, Pending(s),
         pos[s] > 0 \/ have_time,
         pos' = [pos EXCEPT ![s] = pos[s] + 1],
         traces' = [traces EXCEPT
                      ![s] = fold_change(@, s, cur_time, file.recs[s][pos[s] + 1].val)]
  PROVE  DecodeInv'
<1>1. /\ file \in Files /\ ask \in Requests /\ TypeOK /\ cur_time \in Nat
      /\ Traced(s) /\ NotLate(s) /\ traces[s] \in Seq(Record) /\ InOrder(s, traces[s])
      /\ pos[s] \in Nat /\ (have_time <=> cur_time > scan_from)
  BY ScanFacts
<1>2. scan_from \in Nat /\ scan_from' = scan_from
  BY <1>1, ScanBounds DEF scan_from
<1>. HIDE DEF scan_from
<1>n. PICK n \in Nat : n = pos[s]
  BY <1>1
<1>3. /\ file.recs[s] \in Seq(Record) /\ ByTick(file.recs[s])
      /\ n < Len(file.recs[s]) /\ n + 1 \in DOMAIN file.recs[s]
  BY <1>1, <1>n, FileFacts DEF Pending
<1>4. /\ file.recs[s][n + 1].tick \in Nat /\ file.recs[s][n + 1].val \in Value
      /\ file.recs[s][n + 1] = Entry(file.recs[s][n + 1].tick, file.recs[s][n + 1].val)
  BY <1>3, RecordFacts
<1>5. file.recs[s][n + 1].tick = cur_time
  <2>1. file.recs[s][n + 1].tick <= cur_time
    BY <1>n DEF Pending
  <2>2. file.recs[s][n + 1].tick >= cur_time
    BY <1>1, <1>2, <1>3, <1>n DEF NotLate
  <2>. QED
    BY <1>1, <1>4, <2>1, <2>2
<1>6. /\ pos'[s] = n + 1
      /\ traces'[s] = fold_change(traces[s], s, cur_time, file.recs[s][n + 1].val)
  BY <1>1, <1>n DEF TypeOK
<1>7. NoneAfter(traces[s], cur_time) /\ RightSoFar(s)
  BY <1>1 DEF Traced
<1>8. RightSoFar(s)'
  <2>1. LeftEdge(s)' = LeftEdge(s)
    <3>1. \A t : NetValue(s, t)' = NetValue(s, t)
      BY DEF NetValue
    <3>. QED
      BY <1>2, <3>1 DEF LeftEdge
  <2>2. LeftEdge(s) \in Int
    BY <1>1, EdgeIsTick
  <2>3. SeesRight(file.recs[s], n, traces[s], LeftEdge(s))
    BY <1>7, <1>n DEF RightSoFar
  <2>4. SeesRight(file.recs[s], n + 1, traces'[s], LeftEdge(s))
    BY <1>1, <1>3, <1>5, <1>6, <1>7, <2>2, <2>3, FoldSeesRight
  <2>. QED
    BY <1>6, <2>1, <2>4 DEF RightSoFar
<1>9. s \in EventSid => EventsSoFar(s)'
  <2>1. SUFFICES ASSUME s \in EventSid PROVE EventsSoFar(s)'
    OBVIOUS
  <2>2. EventsSoFar(s)
    BY <1>1, <2>1 DEF Traced
  <2>3. traces'[s] = Append(traces[s], file.recs[s][pos[s] + 1])
    BY <1>4, <1>5, <1>6, <1>n, <2>1 DEF fold_change
  <2>. QED
    BY <1>1, <1>3, <1>6, <1>n, <2>1, <2>2, <2>3, EventAppended
<1>10. NotLate(s)'
  <2>1. SUFFICES ASSUME n + 1 < Len(file.recs[s])
                 PROVE  file.recs[s][n + 2].tick >= cur_time
    BY <1>6 DEF NotLate
  <2>2. n + 2 \in DOMAIN file.recs[s] /\ n + 1 <= n + 2
    BY <1>3, <2>1
  <2>3. file.recs[s][n + 1].tick <= file.recs[s][n + 2].tick
    BY <1>3, <2>2 DEF ByTick
  <2>4. file.recs[s][n + 2].tick \in Nat
    BY <1>3, <2>2, RecordFacts
  <2>. QED
    BY <1>1, <1>5, <2>3, <2>4
<1>11. /\ pos' = [pos EXCEPT ![s] = n + 1]
       /\ traces' = [traces EXCEPT ![s] = fold_change(@, s, cur_time, file.recs[s][n + 1].val)]
  BY <1>n
<1>12. cur_time <= cur_time
  BY <1>1
<1>. QED
  BY <1>1, <1>3, <1>7, <1>8, <1>9, <1>10, <1>11, <1>12, ScanEmits

(* The signal is logged where the scan starts: its trace opens with the    *)
(* value it has there, stamped before the window.                          *)
LEMMA SeedDelivered ==
  ASSUME DecodeInv, pc = "scan",
         UNCHANGED <<file, vendor, ask, pc, todo, cur_time, have_time, pack, kept, values,
                     boxes, vct, rc>>,
         NEW s \in Sid, s \in Asked, Pending(s), pos[s] = 0, ~have_time,
         NEW n, n = FirstDelivered(s),
         pos' = [pos EXCEPT ![s] = n],
         traces' = [traces EXCEPT ![s] = fold_change(@, s, seed_tag, file.recs[s][n].val)]
  PROVE  DecodeInv'
<1>1. /\ file \in Files /\ ask \in Requests /\ TypeOK /\ vendor = "wlf"
      /\ Traced(s) /\ cur_time \in Nat /\ cur_time \in scan_from..scan_to
      /\ (have_time <=> cur_time > scan_from)
  BY ScanFacts
<1>2. /\ scan_from \in Nat /\ seed_tag \in Nat
      /\ scan_from > 0 => ask.from # None /\ ask.from \in Int /\ scan_from <= ask.from
      /\ scan_from > 0 => seed_tag = scan_from - 1
      /\ scan_from = 0 => seed_tag = 0
  BY <1>1, ScanBounds
<1>3. scan_from' = scan_from /\ seed_tag' = seed_tag
  BY DEF scan_from, seed_tag
<1>. HIDE DEF scan_from, seed_tag
<1>4. cur_time = scan_from
  BY <1>1, <1>2
<1>5. /\ file.recs[s] \in Seq(Record) /\ ByTick(file.recs[s]) /\ file.recs[s] # << >>
      /\ DOMAIN file.recs[s] = 1..Len(file.recs[s]) /\ Len(file.recs[s]) \in Nat
      /\ \A i \in DOMAIN file.recs[s] :
           /\ file.recs[s][i].tick \in Nat /\ file.recs[s][i].val \in Value
           /\ file.recs[s][i] = Entry(file.recs[s][i].tick, file.recs[s][i].val)
  <2>1. file.recs[s] \in Seq(Record) /\ ByTick(file.recs[s])
    BY <1>1, FileFacts
  <2>2. file.recs[s] # << >>
    BY DEF Pending
  <2>. QED
    BY <2>1, <2>2, RecordFacts
<1>6. /\ n \in DOMAIN file.recs[s]
      /\ n = 1 \/ file.recs[s][n].tick < scan_from
      /\ \A j \in DOMAIN file.recs[s] : j = 1 \/ file.recs[s][j].tick < scan_from => j <= n
  BY <1>1, <1>5, FirstDeliveredFacts
<1>7. 1 \in DOMAIN file.recs[s] /\ file.recs[s][1].tick <= scan_from
  BY <1>4, <1>5 DEF Pending
<1>8. traces[s] = << >> /\ NoneAfter(traces[s], seed_tag)
  BY <1>1 DEF Traced, NoneAfter
<1>9. /\ pos'[s] = n
      /\ traces'[s] = fold_change(<< >>, s, seed_tag, file.recs[s][n].val)
      /\ traces'[s] = <<Entry(seed_tag, file.recs[s][n].val)>>
  BY <1>1, <1>8 DEF TypeOK, fold_change
<1>10. /\ file.recs[s][n].tick <= scan_from
       /\ file.recs[s][n].tick <= LeftEdge(s) /\ seed_tag <= LeftEdge(s)
       /\ LeftEdge(s) \in Int
  <2>1. LeftEdge(s) \in Int
    BY <1>1, EdgeIsTick
  <2>2. CASE file.recs[s][n].tick < scan_from
    <3>1. LeftEdge(s) >= scan_from - 1 /\ scan_from > 0
      BY <1>1, <1>2, <1>5, <1>6, <2>2 DEF LeftEdge
    <3>. QED
      BY <1>2, <1>5, <1>6, <2>1, <2>2, <3>1
  <2>3. CASE ~(file.recs[s][n].tick < scan_from)
    <3>1. n = 1 /\ file.recs[s][1].tick = scan_from
      BY <1>2, <1>5, <1>6, <1>7, <2>3
    <3>2. ASSUME NEW i \in DOMAIN file.recs[s] PROVE ~(file.recs[s][i].tick <= scan_from - 1)
      <4>1. file.recs[s][1].tick <= file.recs[s][i].tick
        BY <1>5, <1>7 DEF ByTick
      <4>. QED
        BY <1>2, <1>5, <3>1, <4>1
    <3>3. NetValue(s, scan_from - 1) = None
      BY <3>2 DEF NetValue, ValueAt, UpTo
    <3>4. LeftEdge(s) = scan_from
      BY <1>1, <3>3 DEF LeftEdge
    <3>. QED
      BY <1>2, <3>1, <3>4
  <2>. QED
    BY <2>2, <2>3
<1>11. RightSoFar(s)'
  <2>1. LeftEdge(s)' = LeftEdge(s)
    <3>1. \A t : NetValue(s, t)' = NetValue(s, t)
      BY DEF NetValue
    <3>. QED
      BY <1>3, <3>1 DEF LeftEdge
  <2>2. SeesRight(file.recs[s], n, traces'[s], LeftEdge(s))
    BY <1>2, <1>5, <1>6, <1>9, <1>10, FirstSeesRight
  <2>. QED
    BY <1>9, <2>1, <2>2 DEF RightSoFar
<1>12. EventsSoFar(s)'
  <2>0. n - 1 \in Nat /\ n = (n - 1) + 1 /\ n \in Nat
    BY <1>5, <1>6
  <2>1. PICK d \in Nat : n = d + 1
    BY <2>0
  <2>2. d \in 0..Len(file.recs[s]) /\ d < Len(file.recs[s])
    BY <1>5, <1>6, <2>1
  <2>3. /\ DOMAIN traces'[s] = {1} /\ Len(traces'[s]) = 1
        /\ traces'[s][1] = Entry(seed_tag, file.recs[s][n].val)
    <3>1. \A e : DOMAIN <<e>> = {1} /\ Len(<<e>>) = 1 /\ <<e>>[1] = e
      OBVIOUS
    <3>. QED
      BY <1>9, <3>1
  <2>4. pos'[s] = Len(traces'[s]) + d
    <3>1. pos'[s] = n /\ Len(traces'[s]) = 1
      BY <1>9, <2>3
    <3>2. n = 1 + d
      BY <2>0, <2>1
    <3>. QED
      BY <3>1, <3>2
  <2>5. d > 0 => /\ ask.from # None /\ file.recs[s][d + 1].tick <= ask.from
                 /\ file.recs[s][d + 1].tick < scan_from
    BY <1>2, <1>5, <1>6, <2>1
  <2>6. traces'[s][1] = file.recs[s][1 + d] \/ SeedEntry(s, 1, d)'
    <3>1. n = 1 + d
      BY <2>1
    <3>2. CASE scan_from > 0
      <4>1. traces'[s][1].tick = scan_from - 1
        <5>1. seed_tag = scan_from - 1 /\ seed_tag \in Nat
          BY <1>2, <3>2
        <5>2. PICK val : val = file.recs[s][n].val
          OBVIOUS
        <5>3. traces'[s][1] = Entry(seed_tag, val)
          BY <2>3, <5>2
        <5>4. Entry(seed_tag, val).tick = seed_tag
          BY DEF Entry
        <5>. QED
          BY <5>1, <5>3, <5>4
      <4>2. file.recs[s][1 + d].tick <= scan_from
        BY <1>10, <3>1
      <4>. QED
        BY <1>1, <1>3, <3>2, <4>1, <4>2 DEF SeedEntry
    <3>3. CASE scan_from = 0
      <4>1. file.recs[s][n].tick = 0 /\ seed_tag = 0
        BY <1>2, <1>5, <1>6, <1>10, <3>3
      <4>2. file.recs[s][n] = Entry(0, file.recs[s][n].val)
        BY <1>5, <1>6, <4>1
      <4>. QED
        BY <2>3, <3>1, <4>1, <4>2
    <3>. QED
      BY <1>2, <3>2, <3>3
  <2>. QED
    BY <1>3, <2>2, <2>3, <2>4, <2>5, <2>6 DEF EventsSoFar
<1>13. NotLate(s)'
  <2>1. SUFFICES ASSUME n < Len(file.recs[s])
                 PROVE  file.recs[s][n + 1].tick >= cur_time
    BY <1>9 DEF NotLate
  <2>2. n + 1 \in DOMAIN file.recs[s] /\ ~(n + 1 <= n)
    BY <1>5, <1>6, <2>1
  <2>3. ~(file.recs[s][n + 1].tick < scan_from)
    BY <1>6, <2>2
  <2>. QED
    BY <1>2, <1>4, <1>5, <2>2, <2>3
<1>14. seed_tag <= cur_time
  BY <1>2, <1>4
<1>. QED
  BY <1>2, <1>6, <1>8, <1>11, <1>12, <1>13, <1>14, ScanEmits

(* Whatever signal the library delivers.                                   *)
LEMMA SignalStep ==
  ASSUME DecodeInv, signal_event_cb
  PROVE  DecodeInv'
<1>. USE DEF host, wlf
<1>1. /\ pc = "scan"
      /\ UNCHANGED <<file, vendor, ask, pc, todo, cur_time, have_time, pack, kept, values,
                     boxes, vct, rc>>
  BY DEF signal_event_cb
<1>s. PICK s \in kept : \E cb \in Callbacks(s) :
        /\ pos' = [pos EXCEPT ![s] = cb.rec]
        /\ CASE cb.reason = "EVENT" -> Emit(s, cur_time, file.recs[s][cb.rec].val)
             [] cb.reason = "STARTLOG" ->
                  Emit(s, IF have_time THEN cur_time ELSE seed_tag, file.recs[s][cb.rec].val)
             [] OTHER -> UNCHANGED traces
  BY DEF signal_event_cb
<1>2. PICK cb \in Callbacks(s) :
        /\ pos' = [pos EXCEPT ![s] = cb.rec]
        /\ CASE cb.reason = "EVENT" -> Emit(s, cur_time, file.recs[s][cb.rec].val)
             [] cb.reason = "STARTLOG" ->
                  Emit(s, IF have_time THEN cur_time ELSE seed_tag, file.recs[s][cb.rec].val)
             [] OTHER -> UNCHANGED traces
  BY <1>s
<1>3. /\ s \in Sid /\ s \in Asked /\ TypeOK /\ pos[s] \in Nat /\ Traced(s) /\ NotLate(s)
      /\ file \in Files /\ ask \in Requests
      /\ cur_time \in Nat /\ cur_time \in scan_from..scan_to
      /\ (have_time <=> cur_time > scan_from)
  BY <1>1, <1>2, ScanFacts
<1>4. scan_from \in Nat
  BY <1>3, ScanBounds
<1>. HIDE DEF scan_from
<1>5. CASE ~Pending(s)
  <2>1. cb.reason = "ENDLOG" /\ cb.rec = pos[s]
    BY <1>2, <1>5 DEF Callbacks
  <2>2. pos' = pos /\ traces' = traces
    BY <1>2, <1>3, <2>1 DEF TypeOK
  <2>. QED
    BY <1>1, <2>2, Stutter DEF vars
<1>6. CASE Pending(s) /\ pos[s] > 0
  <2>1. cb.reason = "EVENT" /\ cb.rec = pos[s] + 1
    BY <1>2, <1>3, <1>6 DEF Callbacks, NextDelivered
  <2>2. traces' = [traces EXCEPT
                      ![s] = fold_change(@, s, cur_time, file.recs[s][pos[s] + 1].val)]
    BY <1>2, <2>1 DEF Emit
  <2>. QED
    BY <1>1, <1>2, <1>3, <1>6, <2>1, <2>2, DeliveredInTime
<1>7. CASE Pending(s) /\ pos[s] = 0 /\ have_time
  <2>1. /\ cb.reason = "STARTLOG" /\ cb.rec = FirstDelivered(s)
    BY <1>2, <1>7 DEF Callbacks, NextDelivered
  <2>2. FirstDelivered(s) = 1
    <3>1. /\ file.recs[s] \in Seq(Record) /\ ByTick(file.recs[s]) /\ file.recs[s] # << >>
      BY <1>3, <1>7, FileFacts DEF Pending
    <3>2. 1 \in DOMAIN file.recs[s] /\ file.recs[s][1].tick >= cur_time
      BY <1>3, <1>4, <1>7, <3>1 DEF NotLate, Pending
    <3>3. PICK p : p = FirstDelivered(s)
      OBVIOUS
    <3>4. p \in DOMAIN file.recs[s] /\ (p = 1 \/ file.recs[s][p].tick < scan_from)
      BY <1>3, <3>1, <3>3, FirstDeliveredFacts
    <3>5. /\ file.recs[s][1].tick <= file.recs[s][p].tick
          /\ file.recs[s][1].tick \in Nat /\ file.recs[s][p].tick \in Nat
      BY <3>1, <3>2, <3>4, RecordFacts DEF ByTick
    <3>. QED
      BY <1>3, <1>4, <1>7, <3>2, <3>3, <3>4, <3>5
  <2>3. pos[s] + 1 = 1
    BY <1>7
  <2>4. traces' = [traces EXCEPT
                      ![s] = fold_change(@, s, cur_time, file.recs[s][pos[s] + 1].val)]
    BY <1>2, <1>7, <2>1, <2>2, <2>3 DEF Emit
  <2>5. pos' = [pos EXCEPT ![s] = pos[s] + 1]
    BY <1>2, <2>1, <2>2, <2>3
  <2>. QED
    BY <1>1, <1>3, <1>7, <2>4, <2>5, DeliveredInTime
<1>8. CASE Pending(s) /\ pos[s] = 0 /\ ~have_time
  <2>1. /\ cb.reason = "STARTLOG" /\ cb.rec = FirstDelivered(s)
    BY <1>2, <1>8 DEF Callbacks, NextDelivered
  <2>2. PICK n : n = FirstDelivered(s)
    OBVIOUS
  <2>3. /\ pos' = [pos EXCEPT ![s] = n]
        /\ traces' = [traces EXCEPT ![s] = fold_change(@, s, seed_tag, file.recs[s][n].val)]
    BY <1>2, <1>8, <2>1, <2>2 DEF Emit
  <2>. QED
    BY <1>1, <1>3, <1>8, <2>2, <2>3, SeedDelivered
<1>. QED
  BY <1>3, <1>5, <1>6, <1>7, <1>8

(* What a step of the streaming starts from.                               *)
LEMMA StreamFacts ==
  ASSUME DecodeInv, pc = "stream"
  PROVE  /\ vendor = "fsdb" /\ file \in Files /\ ask \in Requests
         /\ TypeOK /\ Phases /\ Turns /\ HeldDataIsLive /\ Streamed
         /\ todo \in Seq(Sid) /\ NoRepeats(todo)
         /\ Asked \subseteq Sid /\ Waiting \subseteq Asked
         /\ pos \in [Sid -> Nat] /\ traces \in [Sid -> Seq(Record)]
         /\ \A s \in Sid : /\ InOrder(s, traces[s]) /\ pos[s] <= Len(file.recs[s])
                           /\ file.recs[s] \in Seq(Record) /\ ByTick(file.recs[s])
<1>1. /\ TypeOK /\ HeldDataIsLive /\ Phases /\ Turns /\ Streamed
      /\ file \in Files /\ ask \in Requests
      /\ \A s \in Sid : InOrder(s, traces[s]) /\ pos[s] <= Len(file.recs[s])
  BY DEF DecodeInv
<1>2. vendor = "fsdb"
  BY <1>1 DEF TypeOK, Phases
<1>3. Asked \subseteq Sid /\ Waiting \subseteq Asked /\ NoRepeats(todo)
  BY <1>1, RequestsAssumption DEF Asked, Turns
<1>4. pos \in [Sid -> Nat] /\ traces \in [Sid -> Seq(Record)] /\ todo \in Seq(Sid)
  BY <1>1 DEF TypeOK, Trace, Record
<1>5. \A s \in Sid : file.recs[s] \in Seq(Record) /\ ByTick(file.recs[s])
  BY <1>1, FileFacts
<1>. QED
  BY <1>1, <1>2, <1>3, <1>4, <1>5

(* What a step of the streaming has to show: the state of the one signal   *)
(* it may move, and which signals are through.                             *)
LEMMA StreamStep ==
  ASSUME DecodeInv, pc = "stream", pc' = "stream",
         UNCHANGED <<file, vendor, ask, wlf, rc>>,
         NEW s \in Sid, s \in Waiting, s = Head(todo), todo # << >>,
         \A q \in Sid : q # s => pos'[q] = pos[q] /\ traces'[q] = traces[q],
         pos' \in [Sid -> Nat], traces' \in [Sid -> Seq(Record)],
         pos'[s] <= Len(file.recs[s]), InOrder(s, traces'[s]), Emitted(s)',
         vct = None \/ vct = s,
         \/ todo' = todo /\ vct' = s
         \/ todo' = Tail(todo) /\ vct' = None /\ Finished(s)'
  PROVE  DecodeInv'
<1>. USE DEF wlf
<1>1. /\ vendor = "fsdb" /\ file \in Files /\ ask \in Requests
      /\ TypeOK /\ Phases /\ Turns /\ HeldDataIsLive /\ Streamed
      /\ todo \in Seq(Sid) /\ NoRepeats(todo)
      /\ Asked \subseteq Sid /\ Waiting \subseteq Asked
      /\ \A q \in Sid : InOrder(q, traces[q]) /\ pos[q] <= Len(file.recs[q])
  BY StreamFacts
<1>2. Asked' = Asked
  BY DEF Asked
<1>. HIDE DEF Asked
<1>3. \/ todo' = todo /\ Waiting' = Waiting /\ vct' = s
      \/ /\ todo' = Tail(todo) /\ todo' \in Seq(Sid) /\ NoRepeats(todo')
         /\ Waiting' = Waiting \ {s} /\ vct' = None /\ Finished(s)'
  <2>1. CASE todo' = todo /\ vct' = s
    BY <2>1 DEF Waiting
  <2>2. CASE todo' = Tail(todo) /\ vct' = None /\ Finished(s)'
    <3>1. PICK rest : rest = todo'
      OBVIOUS
    <3>2. rest = Tail(todo)
      BY <2>2, <3>1
    <3>3. /\ rest \in Seq(Sid) /\ NoRepeats(rest)
          /\ Range(rest) = Range(todo) \ {Head(todo)}
      <4>1. todo \in Seq(Sid) /\ NoRepeats(todo) /\ todo # << >>
        BY <1>1
      <4>. QED
        BY ONLY <3>2, <4>1, NextTurn
    <3>4. Waiting' = Waiting \ {s}
      BY <3>1, <3>3 DEF Waiting
    <3>. QED
      BY <2>2, <3>1, <3>3, <3>4
  <2>. QED
    BY <2>1, <2>2
<1>4. TypeOK' /\ HeldDataIsLive'
  <2>1. todo' \in Seq(Sid) /\ vct' \in Sid \cup {None}
    BY <1>1, <1>3
  <2>2. pos' \in [Sid -> Nat] /\ traces' \in [Sid -> Trace]
    BY DEF Trace, Record
  <2>. QED
    BY <1>1, <2>1, <2>2 DEF TypeOK, HeldDataIsLive
<1>5. Phases'
  BY <1>1 DEF Phases
<1>6. Turns'
  BY <1>1, <1>2, <1>3 DEF Turns, Phases
<1>7. Scanned'
  BY <1>1 DEF Scanned
<1>8. \A q \in Sid : pos'[q] <= Len(file'.recs[q]) /\ InOrder(q, traces'[q])
  BY <1>1
<1>9. ASSUME NEW q \in Sid PROVE Emitted(q)'
  <2>1. CASE q = s
    BY <2>1
  <2>2. CASE q # s
    <3>1. pos'[q] = pos[q] /\ traces'[q] = traces[q]
      BY <2>2
    <3>2. Emitted(q)
      BY <1>1 DEF Streamed, Emitted
    <3>. QED
      BY <3>1, <3>2, SignalUntouched DEF Emitted
  <2>. QED
    BY <2>1, <2>2
<1>10. ASSUME NEW q \in Waiting' PROVE q = vct' \/ traces'[q] = << >>
  <2>1. CASE q = s
    BY <1>3, <2>1
  <2>2. CASE q # s
    <3>1. q \in Waiting /\ q \in Sid /\ q # None
      BY <1>1, <1>3, NoneAssumption
    <3>2. q # vct
      BY <2>2, <3>1
    <3>. QED
      BY <1>1, <2>2, <3>1, <3>2 DEF Streamed
  <2>. QED
    BY <2>1, <2>2
<1>11. ASSUME NEW q \in Asked \ Waiting' PROVE Finished(q)'
  <2>1. CASE q = s
    BY <1>3, <2>1
  <2>2. CASE q # s
    <3>1. Finished(q) /\ q \in Sid
      BY <1>1, <1>3, <2>2 DEF Streamed
    <3>2. pos'[q] = pos[q] /\ traces'[q] = traces[q]
      BY <2>2, <3>1
    <3>. QED
      BY <3>1, <3>2, SignalUntouched
  <2>. QED
    BY <2>1, <2>2
<1>12. Streamed'
  BY <1>2, <1>3, <1>9, <1>10, <1>11 DEF Streamed, Emitted
<1>. QED
  BY <1>1, <1>4, <1>5, <1>6, <1>7, <1>8, <1>12 DEF DecodeInv

LEMMA NoCursorStep ==
  ASSUME DecodeInv, NoCursor
  PROVE  DecodeInv'
<1>. USE DEF host, wlf
<1>1. /\ pc = "stream" /\ vct = None /\ todo # << >> /\ todo' = Tail(todo)
      /\ file.recs[Head(todo)] = << >>
      /\ UNCHANGED <<file, vendor, ask, pc, pos, wlf, vct, traces, rc>>
  BY DEF NoCursor
<1>2. PICK s : s = Head(todo)
  OBVIOUS
<1>3. s \in Waiting /\ s \in Sid
  BY <1>1, <1>2, StreamFacts, NextTurn DEF Waiting
<1>4. /\ pos[s] \in Nat /\ pos[s] <= Len(file.recs[s]) /\ InOrder(s, traces[s]) /\ Emitted(s)
      /\ pos \in [Sid -> Nat] /\ traces \in [Sid -> Seq(Record)]
  BY <1>1, <1>3, StreamFacts DEF Streamed
<1>5. Finished(s)' /\ Emitted(s)'
  <2>1. pos[s] = Len(file.recs[s])
    BY <1>1, <1>2, <1>4
  <2>2. Finished(s)
    BY <2>1 DEF Finished
  <2>. QED
    BY <1>1, <1>4, <2>2, SignalUntouched DEF Emitted
<1>6. \A q \in Sid : q # s => pos'[q] = pos[q] /\ traces'[q] = traces[q]
  BY <1>1
<1>. QED
  BY <1>1, <1>2, <1>3, <1>4, <1>5, <1>6, StreamStep

LEMMA OpenCursorStep ==
  ASSUME DecodeInv, OpenCursor
  PROVE  DecodeInv'
<1>. USE DEF host, wlf
<1>1. /\ pc = "stream" /\ vct = None /\ todo # << >> /\ vct' = Head(todo)
      /\ UNCHANGED <<file, vendor, ask, pc, todo, wlf, traces, rc>>
  BY DEF OpenCursor
<1>2. PICK s : s = Head(todo)
  OBVIOUS
<1>3. PICK i \in Positions(s) : pos' = [pos EXCEPT ![s] = i - 1]
  BY <1>2 DEF OpenCursor
<1>4. s \in Waiting /\ s \in Sid
  BY <1>1, <1>2, StreamFacts, NextTurn DEF Waiting
<1>5. /\ InOrder(s, traces[s]) /\ file.recs[s] \in Seq(Record)
      /\ pos \in [Sid -> Nat] /\ traces \in [Sid -> Seq(Record)]
  BY <1>1, <1>4, StreamFacts
<1>6. traces[s] = << >>
  BY <1>1, <1>4, NoneAssumption, StreamFacts DEF Streamed
<1>7. \/ i = 1
      \/ i \in DOMAIN file.recs[s] /\ ask.from # None /\ file.recs[s][i].tick <= ask.from
  BY <1>3 DEF Positions
<1>8. i - 1 \in Nat /\ (i - 1) + 1 = i /\ i - 1 <= Len(file.recs[s])
      /\ (i # 1 => i - 1 < Len(file.recs[s]))
  BY <1>5, <1>7
<1>9. /\ pos'[s] = i - 1 /\ pos' \in [Sid -> Nat]
      /\ \A q \in Sid : q # s => pos'[q] = pos[q] /\ traces'[q] = traces[q]
  BY <1>1, <1>3, <1>4, <1>5, <1>8
<1>10. Emitted(s)'
  <2>1. AtSeed(s)'
    <3>1. CASE i = 1
      BY <1>9, <3>1 DEF AtSeed
    <3>2. CASE i # 1
      BY <1>1, <1>7, <1>8, <1>9, <3>2 DEF AtSeed
    <3>. QED
      BY <3>1, <3>2
  <2>. QED
    BY <1>1, <1>6, <2>1 DEF Emitted
<1>. QED
  BY <1>1, <1>2, <1>4, <1>5, <1>8, <1>9, <1>10, StreamStep

LEMMA ReleaseCursorStep ==
  ASSUME DecodeInv, ReleaseCursor
  PROVE  DecodeInv'
<1>. USE DEF host, wlf
<1>1. /\ pc = "stream" /\ vct # None /\ (AtEnd \/ PastEnd) /\ vct' = None
      /\ todo' = Tail(todo)
      /\ UNCHANGED <<file, vendor, ask, pc, pos, wlf, traces, rc>>
  BY DEF ReleaseCursor
<1>2. PICK s : s = Head(todo)
  OBVIOUS
<1>3. todo # << >> /\ vct = s
  BY <1>1, <1>2, StreamFacts DEF Streamed
<1>4. s \in Waiting /\ s \in Sid
  BY <1>1, <1>2, <1>3, StreamFacts, NextTurn DEF Waiting
<1>5. /\ pos[s] \in Nat /\ pos[s] <= Len(file.recs[s]) /\ InOrder(s, traces[s]) /\ Emitted(s)
      /\ pos \in [Sid -> Nat] /\ traces \in [Sid -> Seq(Record)]
      /\ Len(file.recs[s]) \in Nat
  BY <1>1, <1>4, StreamFacts DEF Streamed
<1>6. Finished(s)
  <2>1. CASE AtEnd
    BY <1>3, <1>5, <2>1 DEF AtEnd, Finished
  <2>2. CASE PastEnd
    BY <1>3, <2>2 DEF PastEnd, Finished
  <2>. QED
    BY <1>1, <2>1, <2>2
<1>7. Finished(s)' /\ Emitted(s)'
  BY <1>1, <1>5, <1>6, SignalUntouched DEF Emitted
<1>8. \A q \in Sid : q # s => pos'[q] = pos[q] /\ traces'[q] = traces[q]
  BY <1>1
<1>. QED
  BY <1>1, <1>2, <1>3, <1>4, <1>5, <1>7, <1>8, StreamStep

LEMMA AllStreamedStep ==
  ASSUME DecodeInv, AllStreamed
  PROVE  DecodeInv'
<1>. USE DEF host, wlf
<1>1. /\ pc = "stream" /\ todo = << >> /\ pc' = "done"
      /\ UNCHANGED <<file, vendor, ask, todo, pos, wlf, vct, traces, rc>>
  BY DEF AllStreamed
<1>2. /\ vendor = "fsdb" /\ file \in Files /\ ask \in Requests
      /\ TypeOK /\ Phases /\ Turns /\ HeldDataIsLive /\ Streamed
      /\ \A s \in Sid : InOrder(s, traces[s]) /\ pos[s] <= Len(file.recs[s])
  BY <1>1, StreamFacts
<1>3. vct = None
  BY <1>1, <1>2 DEF Streamed
<1>4. TypeOK' /\ HeldDataIsLive'
  BY <1>1, <1>2 DEF TypeOK, HeldDataIsLive
<1>5. Asked' = Asked /\ Waiting' = Waiting
  BY <1>1 DEF Asked, Waiting
<1>6. Phases'
  BY <1>1, <1>2, <1>3 DEF Phases
<1>7. Turns'
  BY <1>1, <1>2, <1>5 DEF Turns
<1>8. Scanned'
  BY <1>1, <1>2 DEF Scanned
<1>9. \A s : (Emitted(s) => Emitted(s)') /\ (Finished(s) => Finished(s)')
  BY <1>1, SignalUntouched DEF Emitted
<1>10. Streamed'
  BY <1>1, <1>2, <1>5, <1>9 DEF Streamed
<1>. QED
  BY <1>1, <1>2, <1>4, <1>6, <1>7, <1>8, <1>10 DEF DecodeInv

(* A change under the cursor is emitted with its own tick.                 *)
LEMMA EmitStep ==
  ASSUME DecodeInv, emit_vc
  PROVE  DecodeInv'
<1>. USE DEF host, wlf
<1>1. /\ pc = "stream" /\ vct # None /\ ~AtEnd
      /\ UNCHANGED <<file, vendor, ask, pc, todo, wlf, vct, rc>>
      /\ pos' = [pos EXCEPT ![vct] = @ + 1]
      /\ Emit(vct, file.recs[vct][pos[vct] + 1].tick, file.recs[vct][pos[vct] + 1].val)
  BY DEF emit_vc
<1>2. PICK s : s = vct
  OBVIOUS
<1>3. todo # << >> /\ s = Head(todo)
  BY <1>1, <1>2, StreamFacts DEF Streamed
<1>4. s \in Waiting /\ s \in Sid
  BY <1>1, <1>3, StreamFacts, NextTurn DEF Waiting
<1>5. /\ vendor = "fsdb" /\ file \in Files /\ ask \in Requests
      /\ InOrder(s, traces[s]) /\ Emitted(s)
      /\ file.recs[s] \in Seq(Record) /\ ByTick(file.recs[s])
      /\ pos \in [Sid -> Nat] /\ traces \in [Sid -> Seq(Record)]
      /\ traces[s] \in Seq(Record)
  BY <1>1, <1>4, StreamFacts DEF Streamed
<1>n. PICK n \in Nat : n = pos[s]
  BY <1>4, <1>5
<1>6. n < Len(file.recs[s]) /\ n + 1 \in DOMAIN file.recs[s] /\ n + 1 > 0
  BY <1>1, <1>2, <1>5, <1>n DEF AtEnd
<1>7. PICK tick \in Nat, val \in Value :
        /\ tick = file.recs[s][n + 1].tick /\ val = file.recs[s][n + 1].val
        /\ file.recs[s][n + 1] = Entry(tick, val)
  BY <1>5, <1>6, RecordFacts
<1>8. /\ pos' = [pos EXCEPT ![s] = n + 1]
      /\ traces' = [traces EXCEPT ![s] = fold_change(@, s, tick, val)]
  BY <1>1, <1>2, <1>4, <1>5, <1>7, <1>n DEF Emit
<1>9. /\ pos'[s] = n + 1 /\ traces'[s] = fold_change(traces[s], s, tick, val)
      /\ \A q \in Sid : q # s => pos'[q] = pos[q] /\ traces'[q] = traces[q]
      /\ pos' \in [Sid -> Nat]
  BY <1>4, <1>5, <1>8
<1>10. NoneAfter(traces[s], tick)
  <2>1. CASE traces[s] = << >>
    BY <2>1 DEF NoneAfter
  <2>2. CASE traces[s] # << >>
    <3>1. n > 0 /\ NoneAfter(traces[s], file.recs[s][n].tick)
      BY <1>5, <1>n, <2>2 DEF Emitted
    <3>2. n \in DOMAIN file.recs[s] /\ n <= n + 1
      BY <1>5, <1>6, <3>1
    <3>3. file.recs[s][n].tick <= tick /\ file.recs[s][n].tick \in Nat
      BY <1>5, <1>6, <1>7, <3>2, RecordFacts DEF ByTick
    <3>4. \A i \in DOMAIN traces[s] : traces[s][i].tick \in Nat
      BY <1>5, RecordFacts
    <3>. QED
      BY <3>1, <3>3, <3>4 DEF NoneAfter
  <2>. QED
    BY <2>1, <2>2
<1>11. /\ traces'[s] \in Seq(Record) /\ traces'[s] # << >>
       /\ InOrder(s, traces'[s]) /\ NoneAfter(traces'[s], tick)
  BY <1>5, <1>9, <1>10, FoldKeepsOrder
<1>12. traces' \in [Sid -> Seq(Record)]
  <2>1. traces' = [q \in Sid |-> traces'[q]]
    BY <1>5, <1>8
  <2>2. \A q \in Sid : traces'[q] \in Seq(Record)
    BY <1>5, <1>9, <1>11
  <2>. QED
    BY <2>1, <2>2
<1>13. LeftEdge(s) \in Int /\ LeftEdge(s)' = LeftEdge(s)
  <2>1. LeftEdge(s) \in Int
    BY <1>5, EdgeIsTick
  <2>2. LeftEdge(s)' = LeftEdge(s)
    BY <1>1, <1>5 DEF LeftEdge
  <2>. QED
    BY <2>1, <2>2
<1>14. RightSoFar(s)'
  <2>1. CASE RightSoFar(s)
    <3>1. SeesRight(file.recs[s], n, traces[s], LeftEdge(s))
      BY <1>n, <2>1 DEF RightSoFar
    <3>2. SeesRight(file.recs[s], n + 1, traces'[s], LeftEdge(s))
      BY <1>5, <1>6, <1>7, <1>9, <1>10, <1>13, <3>1, FoldSeesRight
    <3>. QED
      BY <1>1, <1>9, <1>13, <3>2 DEF RightSoFar
  <2>2. CASE traces[s] = << >> /\ pos[s] = 0
    BY <2>1, <2>2, NothingSeesRight DEF RightSoFar
  <2>3. CASE traces[s] = << >> /\ pos[s] # 0
    <3>1. ask.from # None /\ tick <= ask.from
      BY <1>5, <1>7, <1>n, <2>3 DEF Emitted, AtSeed
    <3>2. LeftEdge(s) = ask.from
      BY <1>5, <3>1 DEF LeftEdge
    <3>3. traces'[s] = fold_change(<< >>, s, tick, val)
      BY <1>9, <2>3
    <3>4. SeesRight(file.recs[s], n + 1, traces'[s], LeftEdge(s))
      BY <1>5, <1>6, <1>7, <1>13, <3>1, <3>2, <3>3, FirstSeesRight
    <3>. QED
      BY <1>1, <1>9, <1>13, <3>4 DEF RightSoFar
  <2>. QED
    BY <1>5, <2>1, <2>2, <2>3 DEF Emitted
<1>15. s \in EventSid => EventsSoFar(s)'
  <2>1. SUFFICES ASSUME s \in EventSid PROVE EventsSoFar(s)'
    OBVIOUS
  <2>2. EventsSoFar(s)
    <3>1. CASE traces[s] # << >>
      BY <1>5, <2>1, <3>1 DEF Emitted
    <3>2. CASE traces[s] = << >>
      <4>1. /\ n \in 0..Len(file.recs[s]) /\ n = Len(traces[s]) + n
        BY <1>5, <1>6, <3>2
      <4>2. n > 0 => ask.from # None /\ file.recs[s][n + 1].tick <= ask.from
        BY <1>5, <1>n, <3>2 DEF Emitted, AtSeed
      <4>. QED
        BY <1>5, <1>6, <1>n, <3>2, <4>1, <4>2 DEF EventsSoFar
    <3>. QED
      BY <3>1, <3>2
  <2>3. traces'[s] = Append(traces[s], file.recs[s][pos[s] + 1])
    BY <1>7, <1>9, <1>n, <2>1 DEF fold_change
  <2>. QED
    BY <1>1, <1>4, <1>5, <1>6, <1>9, <1>n, <2>1, <2>2, <2>3, EventAppended
<1>16. Emitted(s)'
  BY <1>1, <1>6, <1>7, <1>9, <1>11, <1>14, <1>15 DEF Emitted
<1>17. pos'[s] <= Len(file.recs[s])
  BY <1>5, <1>6, <1>9
<1>. QED
  BY <1>1, <1>2, <1>3, <1>4, <1>9, <1>11, <1>12, <1>16, <1>17, StreamStep

-----------------------------------------------------------------------------

LEMMA NextDecodeInv == DecodeInv /\ [Next]_vars => DecodeInv'
<1>. SUFFICES ASSUME DecodeInv, [Next]_vars PROVE DecodeInv'
  OBVIOUS
<1>1. CASE UNCHANGED vars
  BY <1>1, Stutter
<1>2. CASE Next
  BY <1>2, ResourceSteps, TimeStep, SignalStep, NoCursorStep, OpenCursorStep, EmitStep,
     ReleaseCursorStep, AllStreamedStep DEF Next
<1>. QED
  BY <1>1, <1>2

(* A decode keeps its invariant, whatever the library does.                *)
THEOREM DecodeInvariant == Spec => []DecodeInv
BY InitDecodeInv, NextDecodeInv, PTL DEF Spec

-----------------------------------------------------------------------------

(***************************************************************************)
(* What the invariant says of a decode that is done.                       *)
(***************************************************************************)

(* An event's records are in its trace, emitted or not yet.                *)
LEMMA EventsDelivered ==
  ASSUME DecodeInv, NEW s \in Sid, s \in EventSid
  PROVE  EventsSoFar(s)
<1>1. vendor = "wlf" => Traced(s)
  BY DEF DecodeInv, Scanned
<1>2. vendor = "fsdb" => Emitted(s)
  BY DEF DecodeInv, Streamed
<1>3. vendor \in {"wlf", "fsdb"} /\ pos[s] \in Nat /\ pos[s] <= Len(file.recs[s])
  BY DEF DecodeInv, TypeOK
<1>4. Len(file.recs[s]) \in Nat
  BY FileFacts DEF DecodeInv
<1>5. CASE vendor = "wlf" \/ traces[s] # << >>
  BY <1>1, <1>2, <1>3, <1>5 DEF Traced, Emitted
<1>6. CASE vendor = "fsdb" /\ traces[s] = << >>
  <2>1. AtSeed(s)
    BY <1>2, <1>6 DEF Emitted
  <2>n. PICK n \in Nat : n = pos[s]
    BY <1>3
  <2>2. n \in 0..Len(file.recs[s]) /\ n = Len(traces[s]) + n
    BY <1>3, <1>4, <1>6, <2>n
  <2>3. n > 0 => /\ n < Len(file.recs[s]) /\ ask.from # None
                 /\ file.recs[s][n + 1].tick <= ask.from
    BY <2>1, <2>n DEF AtSeed
  <2>4. pos[s] = Len(traces[s]) + n /\ DOMAIN traces[s] = {} /\ vendor # "wlf"
    BY <1>6, <2>n, <2>2
  <2>. QED
    BY <2>2, <2>3, <2>4 DEF EventsSoFar
<1>. QED
  BY <1>3, <1>5, <1>6

(* No signal has a value before tick 0.                                    *)
LEMMA NothingBeforeZero ==
  ASSUME NEW changes \in Seq(Record), NEW t \in Int, t < 0
  PROVE  ValueAt(changes, t) = None
<1>1. NoneYet(changes, Len(changes), t)
  BY RecordFacts DEF NoneYet
<1>. QED
  BY <1>1, SeenIsNone, ValueIsSeen

(* A value at t is that of a record at or before t.                        *)
LEMMA SomeValueAt ==
  ASSUME NEW changes \in Seq(Record), NEW t, ValueAt(changes, t) # None
  PROVE  \E i \in DOMAIN changes : changes[i].tick <= t
<1>1. ~NoneYet(changes, Len(changes), t)
  BY SeenIsNone, ValueIsSeen
<1>. QED
  BY <1>1 DEF NoneYet

(* The ticks of the window.                                                *)
LEMMA WindowFacts ==
  ASSUME file \in Files, ask \in Requests, NEW t \in Window
  PROVE  /\ t \in Int
         /\ ask.from = None => t >= 0 /\ (t = 0 \/ t - 1 \in Window)
         /\ ask.from # None => /\ ask.from \in Int /\ t >= ask.from
                               /\ t = ask.from \/ t - 1 \in Window
                               /\ ask.to # Unbounded => ask.to \in Int /\ t <= ask.to
<1>1. /\ file.end \in Nat
      /\ ask.from # None => ask.from \in Int /\ (ask.to # Unbounded => ask.to \in Int)
  BY ScanBounds
<1>2. CASE ask.from = None
  BY <1>1, <1>2 DEF Window
<1>3. CASE ask.from # None
  <2>. DEFINE right == IF ask.to = Unbounded THEN Most(file.end, ask.from) ELSE ask.to
  <2>1. right \in Int /\ (ask.to # Unbounded => right = ask.to)
    BY <1>1, <1>3 DEF Most
  <2>2. Window = ask.from..right
    BY <1>3 DEF Window
  <2>. HIDE DEF right
  <2>3. t \in Int /\ t >= ask.from /\ t <= right
    BY <1>1, <1>3, <2>1, <2>2
  <2>4. t = ask.from \/ t - 1 \in ask.from..right
    BY <1>1, <1>3, <2>1, <2>3
  <2>. QED
    BY <1>1, <1>3, <2>1, <2>2, <2>3, <2>4
<1>. QED
  BY <1>2, <1>3

(* Where a trace starts to be right is not after the window's left edge.   *)
LEMMA LeftEdgeFacts ==
  ASSUME file \in Files, ask \in Requests, NEW s \in Sid, vendor \in {"wlf", "fsdb"}
  PROVE  /\ ask.from = None => LeftEdge(s) = 0
         /\ ask.from # None => LeftEdge(s) <= ask.from \/ LeftEdge(s) = 0
         /\ vendor = "wlf" /\ NetValue(s, scan_from - 1) # None =>
              /\ scan_from > 0 /\ ask.from # None
              /\ LeftEdge(s) <= ask.from - 1
<1>1. /\ scan_from \in Nat
      /\ ask.from = None => scan_from = 0
      /\ ask.from # None => ask.from \in Int /\ (scan_from > 0 => scan_from <= ask.from)
  BY ScanBounds
<1>. HIDE DEF scan_from
<1>2. NetValue(s, scan_from - 1) # None => scan_from > 0
  BY <1>1, FileFacts, NothingBeforeZero DEF NetValue
<1>. QED
  BY <1>1, <1>2 DEF LeftEdge

(* A decode that came to its end has gone through the window of every      *)
(* signal asked for.                                                       *)
LEMMA DoneFinished ==
  ASSUME DecodeInv, pc = "done", rc = 0, NEW s \in Asked
  PROVE  Finished(s)
<1>1. vendor = "fsdb" => Waiting = {}
  BY DEF DecodeInv, Streamed, Waiting, Range
<1>2. vendor = "fsdb" => \A x \in Asked \ Waiting : Finished(x)
  BY DEF DecodeInv, Streamed
<1>3. vendor = "wlf" => \A x \in Asked : Finished(x)
  BY DEF DecodeInv, Scanned
<1>4. vendor \in {"wlf", "fsdb"}
  BY DEF DecodeInv, TypeOK
<1>. QED
  BY <1>1, <1>2, <1>3, <1>4

(* A finished decode has a signal's value from its left edge on, up to the *)
(* window's end.                                                           *)
LEMMA DoneValue ==
  ASSUME DecodeInv, pc = "done", rc = 0, NEW s \in Asked, NEW t \in Int, t >= LeftEdge(s),
         ask.from # None /\ ask.to # Unbounded => t <= ask.to
  PROVE  ValueAt(traces[s], t) = NetValue(s, t)
<1>1. /\ file \in Files /\ ask \in Requests /\ s \in Sid
      /\ vendor \in {"wlf", "fsdb"} /\ pos[s] \in Nat /\ pos[s] <= Len(file.recs[s])
  BY RequestsAssumption DEF DecodeInv, TypeOK, Asked
<1>2. file.recs[s] \in Seq(Record) /\ ByTick(file.recs[s])
  BY <1>1, FileFacts
<1>3. Finished(s)
  BY DoneFinished
<1>4. /\ ask.from # None => ask.from \in Int
      /\ ask.from # None /\ ask.to # Unbounded => ask.to \in Int
  BY <1>1, ScanBounds
<1>5. pos[s] < Len(file.recs[s]) =>
        /\ file.recs[s][pos[s] + 1].tick \in Nat
        /\ ask.from # None /\ ask.to # Unbounded
        /\ file.recs[s][pos[s] + 1].tick > ask.to
  <2>1. pos[s] < Len(file.recs[s]) => pos[s] + 1 \in DOMAIN file.recs[s]
    BY <1>1, <1>2
  <2>. QED
    BY <1>1, <1>2, <1>3, <2>1, RecordFacts DEF Finished
<1>6. Seen(file.recs[s], pos[s], t) = NetValue(s, t)
  <2>1. pos[s] < Len(file.recs[s]) => file.recs[s][pos[s] + 1].tick > t
    BY <1>4, <1>5
  <2>. QED
    BY <1>1, <1>2, <2>1, SeenRest DEF NetValue
<1>7. RightSoFar(s)
  <2>1. CASE vendor = "wlf"
    BY <1>1, <2>1 DEF DecodeInv, Scanned, Traced
  <2>2. CASE vendor = "fsdb"
    <3>1. Emitted(s)
      BY <1>1, <2>2 DEF DecodeInv, Streamed
    <3>2. CASE traces[s] # << >>
      BY <3>1, <3>2 DEF Emitted
    <3>3. CASE traces[s] = << >> /\ pos[s] = 0
      BY <3>3, NothingSeesRight DEF RightSoFar
    <3>4. CASE traces[s] = << >> /\ pos[s] # 0
      <4>1. /\ pos[s] < Len(file.recs[s]) /\ ask.from # None
            /\ file.recs[s][pos[s] + 1].tick <= ask.from
        BY <3>1, <3>4 DEF Emitted, AtSeed
      <4>2. LeftEdge(s) = ask.from
        BY <2>2, <4>1 DEF LeftEdge
      <4>. QED
        BY <1>4, <1>5, <4>1, <4>2
    <3>. QED
      BY <3>2, <3>3, <3>4
  <2>. QED
    BY <1>1, <2>1, <2>2
<1>. QED
  BY <1>6, <1>7 DEF RightSoFar, SeesRight

(* ... and so everywhere in the window, where the file has none before     *)
(* tick 0.                                                                 *)
LEMMA DoneInWindow ==
  ASSUME DecodeInv, pc = "done", rc = 0, NEW s \in Asked, NEW t \in Window
  PROVE  ValueAt(traces[s], t) = NetValue(s, t)
<1>1. /\ file \in Files /\ ask \in Requests /\ s \in Sid
      /\ vendor \in {"wlf", "fsdb"}
  BY RequestsAssumption DEF DecodeInv, TypeOK, Asked
<1>t. traces[s] \in Seq(Record)
  BY <1>1 DEF DecodeInv, TypeOK, Trace, Record
<1>2. LeftEdge(s) \in Int
  BY <1>1, EdgeIsTick
<1>3. CASE t >= LeftEdge(s)
  BY <1>1, <1>3, WindowFacts, DoneValue
<1>4. CASE ~(t >= LeftEdge(s))
  <2>1. t \in Int /\ t < 0
    BY <1>1, <1>2, <1>4, WindowFacts, LeftEdgeFacts
  <2>. QED
    BY <1>1, <1>t, <2>1, FileFacts, NothingBeforeZero DEF NetValue
<1>. QED
  BY <1>3, <1>4

(* A trace with the file's values on both sides of each tick has its net   *)
(* changes.                                                                *)
LEMMA MovesAreNet ==
  ASSUME NEW s, s \notin EventSid, traces[s] \in Seq(Record), InOrder(s, traces[s]),
         NEW T \in SUBSET Int,
         \A t \in T : /\ ValueAt(traces[s], t) = NetValue(s, t)
                      /\ ValueAt(traces[s], t - 1) = NetValue(s, t - 1)
  PROVE  NetChanges(s, T)
<1>1. ASSUME NEW t \in T, NetValue(s, t) # NetValue(s, t - 1)
      PROVE  \E i \in DOMAIN traces[s] : traces[s][i] = Entry(t, NetValue(s, t))
  <2>1. PICK trace : trace = traces[s]
    OBVIOUS
  <2>2. PICK u \in Int : u = t
    OBVIOUS
  <2>3. trace \in Seq(Record) /\ InOrder(s, trace)
    BY <2>1
  <2>4. ValueAt(trace, u) = NetValue(s, t) /\ ValueAt(trace, u - 1) = NetValue(s, t - 1)
    BY <2>1, <2>2
  <2>5. ValueAt(trace, u) # ValueAt(trace, u - 1) =>
          \E i \in DOMAIN trace : trace[i] = Entry(u, ValueAt(trace, u))
    BY <2>3, ChangesAreMoves
  <2>. QED
    BY <1>1, <2>1, <2>2, <2>4, <2>5
<1>2. ASSUME NEW i \in DOMAIN traces[s], traces[s][i].tick \in T
      PROVE  LET t == traces[s][i].tick
             IN  traces[s][i].val = NetValue(s, t) /\ NetValue(s, t) # NetValue(s, t - 1)
  <2>. DEFINE t == traces[s][i].tick
  <2>1. t \in Int /\ t \in T
    BY <1>2
  <2>2. ValueAt(traces[s], t) = traces[s][i].val /\ ValueAt(traces[s], t - 1) # traces[s][i].val
    BY <2>1, ChangesAreMoves
  <2>. QED
    BY <2>1, <2>2
<1>. QED
  BY <1>1, <1>2 DEF NetChanges


(* A finished decode has every change of a signal inside the window.       *)
LEMMA DoneChanges ==
  ASSUME DecodeInv, pc = "done", rc = 0, NEW s \in Asked, s \notin EventSid,
         NEW T \in SUBSET Window,
         ask.from # None /\ ask.from \in T =>
           vendor = "wlf" /\ NetValue(s, scan_from - 1) # None
  PROVE  NetChanges(s, T)
<1>1. /\ file \in Files /\ ask \in Requests /\ s \in Sid
      /\ vendor \in {"wlf", "fsdb"}
  BY RequestsAssumption DEF DecodeInv, TypeOK, Asked
<1>2. traces[s] \in Seq(Record) /\ InOrder(s, traces[s])
  BY <1>1 DEF DecodeInv, TypeOK, Trace, Record
<1>3. file.recs[s] \in Seq(Record)
  BY <1>1, FileFacts
<1>. HIDE DEF scan_from, Asked, Window
<1>4. ASSUME NEW t \in T
      PROVE  ValueAt(traces[s], t - 1) = NetValue(s, t - 1)
  <2>1. t \in Int /\ t \in Window /\ t - 1 \in Int
    BY <1>1, WindowFacts
  <2>2. CASE t - 1 \in Window
    BY <2>2, DoneInWindow
  <2>3. CASE ask.from = None /\ t - 1 \notin Window
    <3>1. t - 1 < 0
      BY <1>1, <2>1, <2>3, WindowFacts
    <3>. QED
      BY <1>2, <1>3, <2>1, <3>1, NothingBeforeZero DEF NetValue
  <2>4. CASE ask.from # None /\ t - 1 \notin Window
    <3>1. t = ask.from /\ (ask.to # Unbounded => ask.to \in Int /\ t <= ask.to)
      BY <1>1, <2>1, <2>4, WindowFacts
    <3>2. vendor = "wlf" /\ NetValue(s, scan_from - 1) # None
      BY <2>4, <3>1
    <3>3. LeftEdge(s) <= t - 1
      BY <1>1, <3>1, <3>2, LeftEdgeFacts
    <3>4. ask.to # Unbounded => t - 1 <= ask.to
      BY <2>1, <3>1
    <3>. QED
      BY <2>1, <3>3, <3>4, DoneValue
  <2>. QED
    BY <2>2, <2>3, <2>4
<1>5. \A t \in T : ValueAt(traces[s], t) = NetValue(s, t)
  BY DoneInWindow
<1>6. T \in SUBSET Int
  BY <1>1, WindowFacts
<1>. QED
  BY <1>2, <1>4, <1>5, <1>6, MovesAreNet

(* ... and every record of an event.                                       *)
LEMMA DoneEvents ==
  ASSUME DecodeInv, pc = "done", rc = 0, NEW s \in Asked, s \in EventSid,
         NEW T \in SUBSET Window,
         ask.from # None /\ ask.from \in T =>
           vendor = "wlf" /\ NetValue(s, scan_from - 1) # None
  PROVE  EveryRecord(s, T)
<1>1. /\ file \in Files /\ ask \in Requests /\ s \in Sid
      /\ vendor \in {"wlf", "fsdb"} /\ pos[s] \in Nat /\ pos[s] <= Len(file.recs[s])
  BY RequestsAssumption DEF DecodeInv, TypeOK, Asked
<1>2. traces[s] \in Seq(Record)
  BY <1>1 DEF DecodeInv, TypeOK, Trace, Record
<1>recs. PICK recs : recs = file.recs[s]
  OBVIOUS
<1>3. recs \in Seq(Record) /\ ByTick(recs)
  BY <1>1, <1>recs, FileFacts
<1>r. PICK right \in Nat : right = Len(recs)
  BY <1>3
<1>n. PICK n \in Nat : n = Len(traces[s])
  BY <1>2
<1>4. /\ DOMAIN recs = 1..right /\ DOMAIN traces[s] = 1..n
      /\ \A i \in 1..right : recs[i].tick \in Nat
      /\ \A i, j \in 1..right : i <= j => recs[i].tick <= recs[j].tick
  BY <1>2, <1>3, <1>r, <1>n, RecordFacts DEF ByTick
<1>5. /\ scan_from \in Nat
      /\ scan_from > 0 => ask.from # None /\ ask.from \in Int /\ scan_from <= ask.from
      /\ ask.from # None => ask.from \in Int
  BY <1>1, ScanBounds
<1>6. EventsSoFar(s)
  BY <1>1, EventsDelivered
<1>f. Finished(s)
  BY DoneFinished
<1>. HIDE DEF scan_from, Asked, Window
<1>7. PICK d \in 0..right :
        /\ pos[s] = n + d
        /\ d > 0 => /\ d < right /\ ask.from # None /\ recs[d + 1].tick <= ask.from
                    /\ vendor = "wlf" => recs[d + 1].tick < scan_from
        /\ \A i \in 1..n :
             \/ traces[s][i] = recs[i + d]
             \/ /\ i = 1 /\ vendor = "wlf" /\ scan_from > 0
                /\ traces[s][1].tick = scan_from - 1
                /\ recs[1 + d].tick <= scan_from
  BY <1>4, <1>6, <1>recs, <1>r, <1>n DEF EventsSoFar, SeedEntry
<1>8. n + d <= right
  BY <1>1, <1>7, <1>recs, <1>r
<1>9. \A t \in T : /\ t \in Int /\ t \in Window
                  /\ ask.from # None => /\ t >= ask.from
                                        /\ ask.to # Unbounded => ask.to \in Int /\ t <= ask.to
  BY <1>1, WindowFacts
<1>10. ASSUME NEW i \in 1..n, traces[s][i].tick \in T
       PROVE  i + d \in 1..right /\ traces[s][i] = recs[i + d]
  <2>1. i + d \in 1..right
    BY <1>8
  <2>2. ~(scan_from > 0 /\ traces[s][i].tick = scan_from - 1)
    BY <1>5, <1>9, <1>10
  <2>. QED
    BY <1>7, <2>1, <2>2
<1>11. ASSUME NEW j \in 1..right, recs[j].tick \in T
       PROVE  j - d \in 1..n /\ traces[s][j - d] = recs[j]
  <2>t. PICK t \in T : t = recs[j].tick
    BY <1>11
  <2>1. /\ t \in Int /\ t = recs[j].tick
        /\ ask.from # None => t >= ask.from /\ (ask.to # Unbounded => ask.to \in Int /\ t <= ask.to)
    <3>1. /\ t \in Int
          /\ ask.from # None => /\ t >= ask.from
                                /\ ask.to # Unbounded => ask.to \in Int /\ t <= ask.to
      <4>1. t \in Window
        OBVIOUS
      <4>. QED
        BY <1>1, <4>1, WindowFacts
    <3>. QED
      BY <2>t, <3>1
  <2>2. j > d
    <3>1. SUFFICES ASSUME j <= d PROVE FALSE
      BY <1>7
    <3>2. d > 0 /\ d < right /\ d + 1 \in 1..right /\ j <= d + 1
      BY <1>7, <3>1
    <3>3. /\ ask.from # None /\ recs[d + 1].tick <= ask.from
          /\ vendor = "wlf" => recs[d + 1].tick < scan_from
      BY <1>7, <3>2
    <3>4. recs[j].tick <= recs[d + 1].tick /\ recs[d + 1].tick \in Nat
      BY <1>4, <3>2
    <3>5. t = ask.from
      BY <1>5, <2>1, <3>3, <3>4
    <3>6. vendor = "wlf"
      BY <2>t, <3>3, <3>5
    <3>. QED
      BY <1>5, <2>1, <3>3, <3>4, <3>5, <3>6
  <2>3. j <= n + d
    <3>1. SUFFICES ASSUME j > n + d PROVE FALSE
      BY <1>7
    <3>2. n + d < right /\ n + d + 1 \in 1..right /\ n + d + 1 <= j
      BY <1>7, <1>8, <3>1
    <3>3. /\ ask.from # None /\ ask.to # Unbounded
          /\ recs[n + d + 1].tick > ask.to
      BY <1>f, <1>7, <1>recs, <1>r, <3>2 DEF Finished
    <3>4. recs[n + d + 1].tick <= recs[j].tick /\ recs[n + d + 1].tick \in Nat
      BY <1>4, <3>2
    <3>. QED
      BY <2>1, <3>3, <3>4
  <2>4. j - d \in 1..n /\ (j - d) + d = j
    BY <1>7, <2>2, <2>3
  <2>5. ~(/\ j - d = 1 /\ vendor = "wlf" /\ scan_from > 0
          /\ recs[1 + d].tick <= scan_from)
    <3>1. SUFFICES ASSUME j - d = 1, vendor = "wlf", scan_from > 0,
                          recs[1 + d].tick <= scan_from
                   PROVE  FALSE
      OBVIOUS
    <3>2. j = 1 + d
      BY <1>7, <3>1
    <3>3. ask.from # None /\ t = ask.from /\ t = scan_from
      BY <1>5, <2>1, <3>1, <3>2
    <3>4. NetValue(s, scan_from - 1) # None
      BY <2>t, <3>3
    <3>5. PICK k \in 1..right : recs[k].tick <= scan_from - 1
      BY <1>3, <1>4, <1>recs, <3>4, SomeValueAt DEF NetValue
    <3>6. k < j
      <4>1. j <= k => recs[j].tick <= recs[k].tick
        BY <1>4
      <4>2. recs[k].tick \in Nat /\ recs[j].tick = scan_from
        BY <1>4, <2>1, <3>3
      <4>3. ~(j <= k)
        BY <1>5, <3>5, <4>1, <4>2
      <4>. QED
        BY <4>3
    <3>7. d > 0
      BY <3>2, <3>6, <1>7
    <3>8. recs[d + 1].tick < scan_from
      BY <1>7, <3>1, <3>7
    <3>9. d + 1 = j
      BY <1>7, <3>2
    <3>. QED
      <4>1. recs[j].tick < scan_from
        BY <3>8, <3>9, Zenon
      <4>. QED
        BY <1>5, <2>1, <3>3, <4>1
  <2>6. \/ traces[s][j - d] = recs[(j - d) + d]
        \/ /\ j - d = 1 /\ vendor = "wlf" /\ scan_from > 0
           /\ recs[1 + d].tick <= scan_from
    BY <1>7, <2>4
  <2>. QED
    BY <2>4, <2>5, <2>6
<1>12. d \in 0..Len(file.recs[s])
  BY <1>7, <1>recs, <1>r
<1>. QED
  BY <1>4, <1>10, <1>11, <1>12, <1>recs DEF EveryRecord


(* What a stopped decode has delivered by the time it got to.              *)
LEMMA StoppedFacts ==
  ASSUME DecodeInv, pc = "done", rc # 0, ask.from = None
  PROVE  /\ vendor = "wlf" /\ scan_from = 0 /\ cur_time \in 0..file.end
         /\ \A s \in Asked : s \in Sid /\ Traced(s) /\ NotLate(s) /\ LeftEdge(s) = 0
<1>1. /\ file \in Files /\ ask \in Requests /\ vendor = "wlf"
      /\ \A s \in Asked : s \in Sid
  BY RequestsAssumption DEF DecodeInv, TypeOK, Phases, Asked
<1>2. scan_from = 0 /\ scan_to = file.end
  BY <1>1, ScanBounds
<1>. HIDE DEF scan_from, scan_to, Asked
<1>3. \A s \in Asked : LeftEdge(s) = 0
  BY <1>1, LeftEdgeFacts
<1>. QED
  BY <1>1, <1>2, <1>3 DEF DecodeInv, Scanned

LEMMA StoppedChanges ==
  ASSUME DecodeInv, pc = "done", rc # 0, ask.from = None, NEW s \in Asked, s \notin EventSid
  PROVE  NetChanges(s, 0..(cur_time - 1))
<1>1. /\ scan_from = 0 /\ cur_time \in Nat /\ s \in Sid
      /\ Traced(s) /\ NotLate(s) /\ LeftEdge(s) = 0
  BY StoppedFacts DEF DecodeInv, TypeOK
<1>2. /\ file.recs[s] \in Seq(Record) /\ ByTick(file.recs[s])
      /\ pos[s] \in Nat /\ pos[s] <= Len(file.recs[s])
  BY <1>1, FileFacts DEF DecodeInv, TypeOK
<1>3. traces[s] \in Seq(Record) /\ InOrder(s, traces[s])
  BY <1>1 DEF DecodeInv, TypeOK, Trace, Record
<1>. HIDE DEF scan_from, Asked
<1>4. ASSUME NEW t \in Int, t >= 0, t < cur_time
      PROVE  ValueAt(traces[s], t) = NetValue(s, t)
  <2>1. ValueAt(traces[s], t) = Seen(file.recs[s], pos[s], t)
    BY <1>1, <1>4 DEF Traced, RightSoFar, SeesRight
  <2>2. pos[s] < Len(file.recs[s]) => file.recs[s][pos[s] + 1].tick > t
    <3>1. pos[s] < Len(file.recs[s]) => file.recs[s][pos[s] + 1].tick >= cur_time
      BY <1>1, <1>4 DEF NotLate
    <3>2. pos[s] < Len(file.recs[s]) => file.recs[s][pos[s] + 1].tick \in Nat
      <4>1. pos[s] < Len(file.recs[s]) => pos[s] + 1 \in DOMAIN file.recs[s]
        BY <1>2
      <4>. QED
        BY <1>2, <4>1, RecordFacts
    <3>. QED
      BY <1>1, <1>4, <3>1, <3>2
  <2>3. Seen(file.recs[s], pos[s], t) = NetValue(s, t)
    BY <1>2, <2>2, SeenRest DEF NetValue
  <2>. QED
    BY <2>1, <2>3
<1>5. ASSUME NEW t \in Int, t < 0
      PROVE  ValueAt(traces[s], t) = NetValue(s, t)
  BY <1>2, <1>3, <1>5, NothingBeforeZero DEF NetValue
<1>6. ASSUME NEW t \in 0..(cur_time - 1)
      PROVE  /\ ValueAt(traces[s], t) = NetValue(s, t)
             /\ ValueAt(traces[s], t - 1) = NetValue(s, t - 1)
  <2>1. /\ t \in Int /\ t >= 0 /\ t < cur_time
        /\ t - 1 \in Int /\ (t - 1 < 0 \/ t - 1 >= 0) /\ t - 1 < cur_time
    BY <1>1
  <2>. QED
    BY <1>4, <1>5, <2>1
<1>7. 0..(cur_time - 1) \in SUBSET Int
  BY <1>1
<1>. QED
  BY <1>3, <1>6, <1>7, MovesAreNet

LEMMA StoppedEvents ==
  ASSUME DecodeInv, pc = "done", rc # 0, ask.from = None, NEW s \in Asked, s \in EventSid
  PROVE  EveryRecord(s, 0..(cur_time - 1))
<1>1. /\ scan_from = 0 /\ cur_time \in Nat /\ s \in Sid
      /\ Traced(s) /\ NotLate(s)
  BY StoppedFacts DEF DecodeInv, TypeOK
<1>2. traces[s] \in Seq(Record)
  BY <1>1 DEF DecodeInv, TypeOK, Trace, Record
<1>recs. PICK recs : recs = file.recs[s]
  OBVIOUS
<1>3. /\ recs \in Seq(Record) /\ ByTick(recs)
      /\ pos[s] \in Nat /\ pos[s] <= Len(recs)
  BY <1>1, <1>recs, FileFacts DEF DecodeInv, TypeOK
<1>r. PICK right \in Nat : right = Len(recs)
  BY <1>3
<1>n. PICK n \in Nat : n = Len(traces[s])
  BY <1>2
<1>4. /\ DOMAIN recs = 1..right /\ DOMAIN traces[s] = 1..n
      /\ \A i \in 1..right : recs[i].tick \in Nat
      /\ \A i, j \in 1..right : i <= j => recs[i].tick <= recs[j].tick
  BY <1>2, <1>3, <1>r, <1>n, RecordFacts DEF ByTick
<1>. HIDE DEF scan_from, Asked
<1>5. pos[s] = n /\ n <= right /\ \A i \in 1..n : traces[s][i] = recs[i]
  <2>1. EventsSoFar(s)
    BY <1>1 DEF Traced
  <2>2. PICK d \in 0..right :
          /\ pos[s] = n + d
          /\ d > 0 => ask.from # None
          /\ \A i \in 1..n : traces[s][i] = recs[i + d] \/ scan_from > 0
    BY <1>4, <2>1, <1>recs, <1>r, <1>n DEF EventsSoFar, SeedEntry
  <2>3. d = 0 /\ ~(scan_from > 0)
    BY <1>1, <2>2
  <2>4. \A i \in 1..n : i + d = i
    BY <2>3
  <2>. QED
    BY <1>3, <1>r, <2>2, <2>3, <2>4
<1>6. ASSUME NEW j \in 1..right, recs[j].tick \in 0..(cur_time - 1) PROVE j \in 1..n
  <2>1. SUFFICES ASSUME j > n PROVE FALSE
    BY <1>5
  <2>2. n < right /\ n + 1 \in 1..right /\ n + 1 <= j
    BY <1>5, <2>1
  <2>3. recs[n + 1].tick <= recs[j].tick /\ recs[n + 1].tick \in Nat /\ recs[j].tick < cur_time
    BY <1>1, <1>4, <1>6, <2>2
  <2>4. (n = 0 /\ cur_time = 0) \/ recs[n + 1].tick >= cur_time
    BY <1>1, <1>5, <1>recs, <1>r, <2>2 DEF NotLate
  <2>. QED
    BY <1>1, <1>4, <2>3, <2>4
<1>7. /\ 0 \in 0..Len(recs)
      /\ \A i \in 1..n : i + 0 = i /\ i \in 1..right
      /\ \A j \in 1..right : j - 0 = j
  BY <1>5, <1>r
<1>8. \A i \in DOMAIN traces[s] : i + 0 \in DOMAIN recs /\ traces[s][i] = recs[i + 0]
  BY <1>4, <1>5, <1>7
<1>9. \A j \in DOMAIN recs : recs[j].tick \in 0..(cur_time - 1) =>
        j - 0 \in DOMAIN traces[s] /\ traces[s][j - 0] = recs[j]
  BY <1>4, <1>5, <1>6, <1>7
<1>. QED
  BY <1>7, <1>8, <1>9, <1>recs DEF EveryRecord

-----------------------------------------------------------------------------

(***************************************************************************)
(* The properties.                                                         *)
(***************************************************************************)

LEMMA DecodeKeepsIInv == DecodeInv => IInv
<1>. SUFFICES ASSUME DecodeInv PROVE IInv
  OBVIOUS
<1>1. ASSUME NEW s \in Sid, NEW i \in 1..(Len(traces[s]) - 1)
      PROVE  IF s \in EventSid
             THEN traces[s][i].tick <= traces[s][i + 1].tick
             ELSE /\ traces[s][i].tick < traces[s][i + 1].tick
                  /\ traces[s][i].val # traces[s][i + 1].val
  <2>1. traces[s] \in Seq(Record) /\ InOrder(s, traces[s])
    BY DEF DecodeInv, TypeOK, Trace, Record
  <2>2. i \in DOMAIN traces[s] /\ i + 1 \in DOMAIN traces[s] /\ i < i + 1
    BY <2>1
  <2>. QED
    BY <2>1, <2>2 DEF InOrder
<1>. QED
  BY <1>1 DEF DecodeInv, IInv, TracesAreFolded

LEMMA DecodeIsTheFile == DecodeInv => SameAsFile
<1>. SUFFICES ASSUME DecodeInv, pc = "done", rc = 0 PROVE SameAsFile
  BY DEF SameAsFile, SameValues, SameChangesInside
<1>1. SameValues
  BY DoneInWindow DEF SameValues
<1>2. ASSUME NEW s \in Asked, NEW T,
             T = IF ask.from = None \/ (vendor = "wlf" /\ NetValue(s, scan_from - 1) # None)
                 THEN Window ELSE Window \ {ask.from}
      PROVE  SameChanges(s, T)
  <2>1. /\ T \in SUBSET Window
        /\ ask.from # None /\ ask.from \in T =>
             vendor = "wlf" /\ NetValue(s, scan_from - 1) # None
    BY <1>2
  <2>2. s \notin EventSid => NetChanges(s, T)
    BY <2>1, DoneChanges
  <2>3. s \in EventSid => EveryRecord(s, T)
    BY <2>1, DoneEvents
  <2>. QED
    BY <2>2, <2>3 DEF SameChanges
<1>3. SameChangesInside
  BY <1>2 DEF SameChangesInside
<1>. QED
  BY <1>1, <1>3 DEF SameAsFile

LEMMA StoppedIsPrefix == DecodeInv => PartialIsPrefix
<1>. SUFFICES ASSUME DecodeInv, pc = "done", rc # 0, ask.from = None
              PROVE  \E cut \in 0..file.end :
                       \A s \in Asked :
                         /\ SameChanges(s, 0..(cut - 1))
                         /\ \A i \in DOMAIN traces[s] : traces[s][i].tick <= cut
  BY DEF PartialIsPrefix
<1>1. cur_time \in 0..file.end
  BY StoppedFacts
<1>2. ASSUME NEW s \in Asked
      PROVE  /\ SameChanges(s, 0..(cur_time - 1))
             /\ \A i \in DOMAIN traces[s] : traces[s][i].tick <= cur_time
  <2>1. NoneAfter(traces[s], cur_time)
    BY StoppedFacts DEF Traced
  <2>2. SameChanges(s, 0..(cur_time - 1))
    BY StoppedChanges, StoppedEvents DEF SameChanges
  <2>. QED
    BY <2>1, <2>2 DEF NoneAfter
<1>. QED
  BY <1>1, <1>2

(* Types, order of the traces and life of what libwlf holds, at every      *)
(* callback (run_scan, signal_event_cb, fold_change).                      *)
THEOREM DecodeKeepsOrder == Spec => []IInv
BY DecodeInvariant, DecodeKeepsIInv, PTL

(* Every way out of a decode has given back the pack, the values, the      *)
(* callback data and the cursor (run_scan's cleanup, stream_signal).       *)
THEOREM EveryHandleReturned == Spec => []HandlesReturned
<1>1. DecodeInv => HandlesReturned
  BY DEF DecodeInv, Phases, HandlesReturned
<1>. QED
  BY <1>1, DecodeInvariant, PTL

(* A decode that came to its end is the file's, whole or windowed, by      *)
(* either bridge: its values throughout the window and its changes inside  *)
(* (both load_traces_windowed, run_trace_decode).                          *)
THEOREM DecodesMatchFile == Spec => []SameAsFile
BY DecodeInvariant, DecodeIsTheFile, PTL

(* A full decode that stopped part way is right up to where it got         *)
(* (run_scan, warn_partial_decode).                                        *)
THEOREM PartialDecodesArePrefixes == Spec => []PartialIsPrefix
BY DecodeInvariant, StoppedIsPrefix, PTL

-----------------------------------------------------------------------------
(***************************************************************************)
(* The registry.                                                           *)
(***************************************************************************)

USE DEF process, session, Goto, Hold, Touch

(* The table rwave is compiled with is one like any other.                 *)
LEMMA OwnIsTable ==
  \A f \in Format : Own(f) \in Table /\ Own(f) # Nothing /\ Own(f).lib = Nothing
  BY RegistryAssumption DEF Own, Table, Slots

LEMMA RegistryStarts == RegistryInit => RegistryInv
  BY RegistryAssumption
  DEF RegistryInit, RegistryInv, RegistryTypeOK, Trusted, Checked, Owned, FilesHeld, MessagesPending, Callers

(* A thread that gives up leaves nothing behind.                           *)
LEMMA FailKeeps ==
  ASSUME RegistryInv, NEW t \in Thread, Fail(t), at[t] \notin Callers,
         UNCHANGED <<process, session, fmt>>
  PROVE  RegistryInv'
<1>1. RegistryTypeOK'
  BY DEF RegistryInv, RegistryTypeOK, Fail, Callers
<1>2. \A f \in Format : Trusted(f)'
  BY RegistryAssumption DEF RegistryInv, RegistryTypeOK, Trusted, Fail, Sound
<1>3. \A u \in Thread : Checked(u)'
  BY RegistryAssumption DEF RegistryInv, RegistryTypeOK, Checked, Fail, Callers
<1>4. \A u \in Thread : Owned(u)'
  BY DEF RegistryInv, RegistryTypeOK, Owned, Fail, Callers
<1>5. FilesHeld' /\ MessagesPending'
  BY DEF RegistryInv, RegistryTypeOK, FilesHeld, MessagesPending, Fail, Callers
<1>. QED
  BY <1>1, <1>2, <1>3, <1>4, <1>5 DEF RegistryInv

-----------------------------------------------------------------------------
(* Looking a format up and resolving it.                                   *)

LEMMA ResolvingKeeps ==
  ASSUME RegistryInv, NEW t \in Thread, Resolving(t)
  PROVE  RegistryInv'
<1>. USE RegistryAssumption
<1>0. RegistryTypeOK /\ Checked(t) /\ Owned(t)
  BY DEF RegistryInv
<1>1. CASE Lookup(t)
  <2>1. RegistryTypeOK'
    BY <1>0, <1>1
    DEF Lookup, RegistryTypeOK, Checked, Callers
  <2>2. \A f \in Format : Trusted(f)'
    BY <1>0, <1>1
    DEF Lookup, RegistryInv, RegistryTypeOK, Trusted, Checked, Sound
  <2>3. \A u \in Thread : Checked(u)'
    BY <1>0, <1>1
    DEF Lookup, RegistryInv, RegistryTypeOK, Trusted, Checked, Callers
  <2>4. \A u \in Thread : Owned(u)'
    BY <1>0, <1>1
    DEF Lookup, RegistryInv, RegistryTypeOK, Owned, FilesHeld, Callers
  <2>5. FilesHeld' /\ MessagesPending'
    BY <1>0, <1>1
    DEF Lookup, RegistryInv, RegistryTypeOK, Owned, FilesHeld, MessagesPending, Callers
  <2>. QED
    BY <2>1, <2>2, <2>3, <2>4, <2>5 DEF RegistryInv
<1>2. CASE LoadExternal(t)
  <2>1. RegistryTypeOK'
    BY <1>0, <1>2
    DEF LoadExternal, RegistryTypeOK, Checked, Callers
  <2>2. \A f \in Format : Trusted(f)'
    BY <1>0, <1>2
    DEF LoadExternal, RegistryInv, RegistryTypeOK, Trusted, Checked, Sound
  <2>3. \A u \in Thread : Checked(u)'
    BY <1>0, <1>2
    DEF LoadExternal, RegistryInv, RegistryTypeOK, Trusted, Checked, Callers
  <2>4. \A u \in Thread : Owned(u)'
    BY <1>0, <1>2
    DEF LoadExternal, RegistryInv, RegistryTypeOK, Owned, FilesHeld, Callers
  <2>5. FilesHeld' /\ MessagesPending'
    BY <1>0, <1>2
    DEF LoadExternal, RegistryInv, RegistryTypeOK, Owned, FilesHeld, MessagesPending, Callers
  <2>. QED
    BY <2>1, <2>2, <2>3, <2>4, <2>5 DEF RegistryInv
<1>3. CASE ExternalFails(t)
  BY <1>3, FailKeeps DEF ExternalFails, Callers
<1>4. CASE NoOverride(t)
  BY <1>4 DEF NoOverride, RegistryInv, RegistryTypeOK, Trusted, Checked, Owned, FilesHeld,
     MessagesPending, Callers, Sound
<1>5. CASE NoBuiltin(t)
  BY <1>5, FailKeeps DEF NoBuiltin, Callers
<1>6. CASE Builtin(t)
  <2>1. CASE Fail(t)
    BY <1>6, <2>1, FailKeeps DEF Builtin, Callers
  <2>2. CASE ~Fail(t)
    <3>1. RegistryTypeOK'
      BY <1>0, <1>6, <2>2, OwnIsTable
      DEF Builtin, RegistryTypeOK, Checked, Callers
    <3>2. \A f \in Format : Trusted(f)'
      BY <1>0, <1>6, <2>2, OwnIsTable
      DEF Builtin, RegistryInv, RegistryTypeOK, Trusted, Checked, Sound
    <3>3. \A u \in Thread : Checked(u)'
      BY <1>0, <1>6, <2>2, OwnIsTable
      DEF Builtin, RegistryInv, RegistryTypeOK, Trusted, Checked, Callers
    <3>4. \A u \in Thread : Owned(u)'
      BY <1>0, <1>6, <2>2, OwnIsTable
      DEF Builtin, RegistryInv, RegistryTypeOK, Owned, FilesHeld, Callers
    <3>5. FilesHeld' /\ MessagesPending'
      BY <1>0, <1>6, <2>2, OwnIsTable
      DEF Builtin, RegistryInv, RegistryTypeOK, Owned, FilesHeld, MessagesPending, Callers
    <3>. QED
      BY <3>1, <3>2, <3>3, <3>4, <3>5 DEF RegistryInv
  <2>. QED
    BY <2>1, <2>2
<1>7. CASE BeginVendor(t)
  BY <1>7 DEF BeginVendor, RegistryInv, RegistryTypeOK, Trusted, Checked, Owned, FilesHeld,
     MessagesPending, Callers, Sound
<1>8. CASE LoadVendor(t)
  <2>1. RegistryTypeOK'
    BY <1>0, <1>8
    DEF LoadVendor, VendorAfter, RegistryTypeOK, Checked, Callers
  <2>2. \A f \in Format : Trusted(f)'
    BY <1>0, <1>8
    DEF LoadVendor, VendorAfter, RegistryInv, RegistryTypeOK, Trusted, Checked, Sound
  <2>3. \A u \in Thread : Checked(u)'
    BY <1>0, <1>8
    DEF LoadVendor, VendorAfter, RegistryInv, RegistryTypeOK, Trusted, Checked, Callers
  <2>4. \A u \in Thread : Owned(u)'
    BY <1>0, <1>8
    DEF LoadVendor, VendorAfter, RegistryInv, RegistryTypeOK, Owned, FilesHeld, Callers
  <2>5. FilesHeld' /\ MessagesPending'
    BY <1>0, <1>8
    DEF LoadVendor, VendorAfter, RegistryInv, RegistryTypeOK, Owned, FilesHeld, MessagesPending, Callers
  <2>. QED
    BY <2>1, <2>2, <2>3, <2>4, <2>5 DEF RegistryInv
<1>9. CASE CheckAbi(t)
  <2>1. CASE Fail(t)
    BY <1>9, <2>1, FailKeeps DEF CheckAbi, Callers
  <2>2. CASE ~Fail(t)
    BY <1>9, <2>2, OwnIsTable DEF CheckAbi, RegistryInv, RegistryTypeOK, Trusted, Checked, Owned,
       FilesHeld, MessagesPending, Callers, Sound
  <2>. QED
    BY <2>1, <2>2
<1>10. CASE CheckSlots(t)
  <2>1. CASE Fail(t)
    BY <1>10, <2>1, FailKeeps DEF CheckSlots, Callers
  <2>2. CASE ~Fail(t)
    BY <1>10, <2>2, OwnIsTable DEF CheckSlots, RegistryInv, RegistryTypeOK, Trusted, Checked, Owned,
       FilesHeld, MessagesPending, Callers, Sound
  <2>. QED
    BY <2>1, <2>2
<1>11. CASE CheckName(t)
  <2>1. CASE Fail(t)
    BY <1>11, <2>1, FailKeeps DEF CheckName, Callers
  <2>2. CASE ~Fail(t)
    BY <1>11, <2>2, OwnIsTable DEF CheckName, RegistryInv, RegistryTypeOK, Trusted, Checked, Owned,
       FilesHeld, MessagesPending, Callers, Sound
  <2>. QED
    BY <2>1, <2>2
<1>12. CASE Insert(t)
  <2>1. RegistryTypeOK'
    BY <1>0, <1>12
    DEF Insert, Winner, Leaked, RegistryTypeOK, Checked, Callers
  <2>2. \A f \in Format : Trusted(f)'
    BY <1>0, <1>12
    DEF Insert, Winner, Leaked, RegistryInv, RegistryTypeOK, Trusted, Checked, Sound
  <2>3. \A u \in Thread : Checked(u)'
    BY <1>0, <1>12
    DEF Insert, Winner, Leaked, RegistryInv, RegistryTypeOK, Trusted, Checked, Callers
  <2>4. \A u \in Thread : Owned(u)'
    BY <1>0, <1>12
    DEF Insert, Winner, Leaked, RegistryInv, RegistryTypeOK, Owned, FilesHeld, Callers
  <2>5. FilesHeld' /\ MessagesPending'
    BY <1>0, <1>12
    DEF Insert, Winner, Leaked, RegistryInv, RegistryTypeOK, Owned, FilesHeld, MessagesPending, Callers
  <2>. QED
    BY <2>1, <2>2, <2>3, <2>4, <2>5 DEF RegistryInv
<1>. QED
  BY <1>1, <1>2, <1>3, <1>4, <1>5, <1>6, <1>7, <1>8, <1>9, <1>10, <1>11, <1>12 DEF Resolving

(* Opening a file, using the session and closing it.                       *)
LEMMA SessionKeeps ==
  ASSUME RegistryInv, NEW t \in Thread, Opening(t) \/ Using(t)
  PROVE  RegistryInv'
<1>. USE RegistryAssumption
<1>0. RegistryTypeOK /\ Checked(t) /\ Owned(t)
  BY DEF RegistryInv
<1>1. CASE OpenFile(t)
  <2>1. RegistryTypeOK'
    BY <1>0, <1>1
    DEF OpenFile, NextName, FilesAfterOpen, RegistryTypeOK, Checked, Callers
  <2>2. \A f \in Format : Trusted(f)'
    BY <1>0, <1>1
    DEF OpenFile, NextName, FilesAfterOpen, RegistryInv, RegistryTypeOK, Trusted, Checked, Sound
  <2>3. \A u \in Thread : Checked(u)'
    BY <1>0, <1>1
    DEF OpenFile, NextName, FilesAfterOpen, RegistryInv, RegistryTypeOK, Trusted, Checked, Callers
  <2>4. \A u \in Thread : Owned(u)'
    BY <1>0, <1>1
    DEF OpenFile, NextName, FilesAfterOpen, RegistryInv, RegistryTypeOK, Owned, FilesHeld, Callers
  <2>5. FilesHeld' /\ MessagesPending'
    BY <1>0, <1>1
    DEF OpenFile, NextName, FilesAfterOpen, RegistryInv, RegistryTypeOK, Owned, FilesHeld, MessagesPending, Callers
  <2>. QED
    BY <2>1, <2>2, <2>3, <2>4, <2>5 DEF RegistryInv
<1>2. CASE OpenFails(t)
  <2>1. RegistryTypeOK'
    BY <1>0, <1>2
    DEF OpenFails, FilesAfterNoInfo, Messages, RegistryTypeOK, Checked, Callers
  <2>2. \A f \in Format : Trusted(f)'
    BY <1>0, <1>2
    DEF OpenFails, FilesAfterNoInfo, Messages, RegistryInv, RegistryTypeOK, Trusted, Checked, Sound
  <2>3. \A u \in Thread : Checked(u)'
    BY <1>0, <1>2
    DEF OpenFails, FilesAfterNoInfo, Messages, RegistryInv, RegistryTypeOK, Trusted, Checked, Callers
  <2>4. \A u \in Thread : Owned(u)'
    BY <1>0, <1>2
    DEF OpenFails, FilesAfterNoInfo, Messages, RegistryInv, RegistryTypeOK, Owned, FilesHeld, Callers
  <2>5. FilesHeld' /\ MessagesPending'
    BY <1>0, <1>2
    DEF OpenFails, FilesAfterNoInfo, Messages, RegistryInv, RegistryTypeOK, Owned, FilesHeld, MessagesPending, Callers
  <2>. QED
    BY <2>1, <2>2, <2>3, <2>4, <2>5 DEF RegistryInv
<1>3. CASE FreeErr(t)
  BY <1>3 DEF FreeErr, RegistryInv, RegistryTypeOK, Trusted, Checked, Owned, FilesHeld,
     MessagesPending, Callers
<1>4. CASE Metadata(t)
  BY <1>4 DEF Metadata, RegistryInv, RegistryTypeOK, Trusted, Checked, Owned, FilesHeld,
     MessagesPending, Callers
<1>5. CASE Call(t)
  BY <1>5 DEF Call, RegistryInv, RegistryTypeOK, Trusted, Checked, Owned, FilesHeld,
     MessagesPending, Callers
<1>6. CASE CallWindowed(t)
  BY <1>6 DEF CallWindowed, RegistryInv, RegistryTypeOK, Trusted, Checked, Owned, FilesHeld,
     MessagesPending, Callers
<1>7. CASE CastForDesign(t)
  BY <1>7 DEF CastForDesign, RegistryInv, RegistryTypeOK, Trusted, Checked, Owned, FilesHeld,
     MessagesPending, Callers
<1>8. CASE Close(t)
  <2>1. RegistryTypeOK'
    BY <1>0, <1>8
    DEF Close, RegistryTypeOK, Checked, Callers
  <2>2. \A f \in Format : Trusted(f)'
    BY <1>0, <1>8
    DEF Close, RegistryInv, RegistryTypeOK, Trusted, Checked, Sound
  <2>3. \A u \in Thread : Checked(u)'
    BY <1>0, <1>8
    DEF Close, RegistryInv, RegistryTypeOK, Trusted, Checked, Callers
  <2>4. \A u \in Thread : Owned(u)'
    BY <1>0, <1>8
    DEF Close, RegistryInv, RegistryTypeOK, Owned, FilesHeld, Callers
  <2>5. FilesHeld' /\ MessagesPending'
    BY <1>0, <1>8
    DEF Close, RegistryInv, RegistryTypeOK, Owned, FilesHeld, MessagesPending, Callers
  <2>. QED
    BY <2>1, <2>2, <2>3, <2>4, <2>5 DEF RegistryInv
<1>. QED
  BY <1>1, <1>2, <1>3, <1>4, <1>5, <1>6, <1>7, <1>8 DEF Opening, Using

LEMMA RegistryKept == RegistryInv /\ [RegistryNext]_registryvars => RegistryInv'
<1>. SUFFICES ASSUME RegistryInv, [RegistryNext]_registryvars  PROVE RegistryInv'
  OBVIOUS
<1>1. ASSUME NEW t \in Thread, Ask(t)  PROVE RegistryInv'
  BY <1>1, RegistryAssumption
  DEF Ask, RegistryInv, RegistryTypeOK, Trusted, Checked, Owned, FilesHeld, MessagesPending, Callers
<1>2. ASSUME NEW t \in Thread, Resolving(t)  PROVE RegistryInv'
  BY <1>2, ResolvingKeeps
<1>3. ASSUME NEW t \in Thread, Opening(t) \/ Using(t)  PROVE RegistryInv'
  BY <1>3, SessionKeeps
<1>4. CASE UNCHANGED registryvars
  BY <1>4 DEF registryvars, RegistryInv, RegistryTypeOK, Trusted, Checked, Owned, FilesHeld, MessagesPending
<1>. QED
  BY <1>1, <1>2, <1>3, <1>4 DEF RegistryNext

(* The inductive invariant of the registry: what is registered passed the  *)
(* checks and stays mapped, who calls calls what is registered, and every  *)
(* file and message has its owner (plugin_backend.rs, the two backends).   *)
THEOREM RegistryInvariant == RegistrySpec => []RegistryInv
  BY RegistryStarts, RegistryKept, PTL DEF RegistrySpec

(* Every session of a format runs on one table whose code is mapped, for   *)
(* any number of threads, however their opens race (plugin_backend.rs      *)
(* load_or_get, register).                                                 *)
THEOREM SessionsShare == RegistrySpec => []SessionsShareMappedTable
<1>1. RegistryInv => SessionsShareMappedTable
  <2>. SUFFICES ASSUME RegistryInv, NEW t \in Thread, at[t] \in Callers
                PROVE  /\ \A u \in Thread : at[u] \in Callers /\ fmt[t] = fmt[u]
                                              => table[t] = table[u]
                       /\ table[t].lib # Nothing => \E r \in mapped : r[2] = table[t].lib
    BY DEF SessionsShareMappedTable
  <2>1. /\ fmt[t] \in Format
        /\ table[t] = registry[fmt[t]] /\ registry[fmt[t]] # Nothing
    BY DEF RegistryInv, Checked, Callers
  <2>2. \A u \in Thread : at[u] \in Callers => table[u] = registry[fmt[u]]
    BY DEF RegistryInv, Checked
  <2>3. registry[fmt[t]].lib # Nothing => <<"process", registry[fmt[t]].lib>> \in mapped
    BY <2>1 DEF RegistryInv, Trusted
  <2>. QED
    BY <2>1, <2>2, <2>3
<1>. QED
  BY <1>1, RegistryInvariant, PTL

-----------------------------------------------------------------------------
(* A table without a library is the one compiled in.                       *)

BuiltIn(tb, f) == tb # Nothing /\ tb.lib = Nothing => tb = Own(f)

OwnTables ==
  /\ \A f \in Format : BuiltIn(registry[f], f)
  /\ \A t \in Thread : /\ BuiltIn(table[t], fmt[t])
                       /\ at[t] \in {"idle", "lookup"} => table[t] = Nothing

(* What the next call relies on: RegistryInv, and where own tables come    *)
(* from.                                                                   *)
TableInv == RegistryInv /\ OwnTables /\ TablesUsedAsDeclared

LEMMA InitTableInv == RegistryInit => TableInv
<1>1. RegistryInit => OwnTables /\ TablesUsedAsDeclared
  BY DEF RegistryInit, OwnTables, BuiltIn, TablesUsedAsDeclared
<1>. QED
  BY <1>1, RegistryStarts DEF TableInv

LEMMA OwnTablesKept == RegistryInv /\ OwnTables /\ [RegistryNext]_registryvars => OwnTables'
<1>. SUFFICES ASSUME RegistryInv, OwnTables, [RegistryNext]_registryvars  PROVE OwnTables'
  OBVIOUS
<1>. USE RegistryAssumption, OwnIsTable
<1>1. ASSUME NEW t \in Thread, Ask(t)  PROVE OwnTables'
  BY <1>1 DEF Ask, RegistryInv, RegistryTypeOK, OwnTables, BuiltIn
<1>2. ASSUME NEW t \in Thread, Fail(t), UNCHANGED <<process, fmt>>  PROVE OwnTables'
  BY <1>2 DEF Fail, RegistryInv, RegistryTypeOK, OwnTables, BuiltIn
<1>3. ASSUME NEW t \in Thread, Lookup(t) \/ LoadExternal(t)  PROVE OwnTables'
  <2>1. fmt[t] \in Format /\ fmt' = fmt /\ registry' = registry
    BY <1>3 DEF Lookup, LoadExternal, RegistryInv, Checked
  <2>2. CASE Lookup(t)
    BY <2>1, <2>2 DEF Lookup, RegistryInv, RegistryTypeOK, OwnTables, BuiltIn
  <2>3. CASE LoadExternal(t)
    <3>1. PICK tb \in External[fmt[t]] : table' = [table EXCEPT ![t] = tb]
      BY <2>3 DEF LoadExternal
    <3>2. tb.lib # Nothing
      BY <2>1
    <3>. QED
      BY <2>1, <2>3, <3>1, <3>2 DEF LoadExternal, RegistryInv, RegistryTypeOK, OwnTables, BuiltIn
  <2>. QED
    BY <1>3, <2>2, <2>3
<1>4. ASSUME NEW t \in Thread, NoOverride(t) \/ BeginVendor(t) \/ LoadVendor(t)
      PROVE  OwnTables'
  BY <1>4 DEF NoOverride, BeginVendor, LoadVendor, RegistryInv, RegistryTypeOK, OwnTables, BuiltIn
<1>5. ASSUME NEW t \in Thread, Builtin(t)  PROVE OwnTables'
  BY <1>2, <1>5 DEF Builtin, RegistryInv, RegistryTypeOK, Checked, OwnTables, BuiltIn
<1>6. ASSUME NEW t \in Thread, CheckAbi(t) \/ CheckSlots(t) \/ CheckName(t)
      PROVE  OwnTables'
  BY <1>2, <1>6
  DEF CheckAbi, CheckSlots, CheckName, RegistryInv, RegistryTypeOK, OwnTables, BuiltIn
<1>7. ASSUME NEW t \in Thread, Insert(t)  PROVE OwnTables'
  <2>1. fmt[t] \in Format /\ fmt' = fmt
    BY <1>7 DEF Insert, RegistryInv, Checked
  <2>2. BuiltIn(Winner(t), fmt[t])
    BY <2>1 DEF Winner, OwnTables
  <2>3. \A f \in Format : BuiltIn(registry'[f], f)
    BY <1>7, <2>1, <2>2 DEF Insert, RegistryInv, RegistryTypeOK, OwnTables
  <2>4. \A u \in Thread : BuiltIn(table'[u], fmt'[u])
    BY <1>7, <2>1, <2>2 DEF Insert, RegistryInv, RegistryTypeOK, OwnTables
  <2>5. \A u \in Thread : at'[u] \in {"idle", "lookup"} => table'[u] = Nothing
    BY <1>7 DEF Insert, RegistryInv, RegistryTypeOK, OwnTables
  <2>. QED
    BY <2>3, <2>4, <2>5 DEF OwnTables, BuiltIn
<1>8. ASSUME NEW t \in Thread, Opening(t) \/ Using(t)  PROVE OwnTables'
  BY <1>8 DEF Opening, OpenFile, OpenFails, FreeErr, Using, Metadata, Call,
     CallWindowed, CastForDesign, Close, RegistryInv, RegistryTypeOK, OwnTables, BuiltIn
<1>9. CASE UNCHANGED registryvars
  BY <1>9 DEF registryvars, OwnTables, BuiltIn
<1>. QED
  BY <1>1, <1>2, <1>3, <1>4, <1>5, <1>6, <1>7, <1>8, <1>9
  DEF RegistryNext, Resolving, ExternalFails, NoBuiltin

LEMMA TouchesAreAllowed ==
  RegistryInv /\ OwnTables /\ TablesUsedAsDeclared /\ [RegistryNext]_registryvars => TablesUsedAsDeclared'
<1>. SUFFICES ASSUME RegistryInv, OwnTables, TablesUsedAsDeclared, [RegistryNext]_registryvars
              PROVE  TablesUsedAsDeclared'
  OBVIOUS
<1>1. ASSUME NEW t \in Thread, CheckAbi(t)  PROVE TablesUsedAsDeclared'
  BY <1>1 DEF CheckAbi, TablesUsedAsDeclared, Slots
<1>2. ASSUME NEW t \in Thread, CheckSlots(t) \/ CheckName(t)  PROVE TablesUsedAsDeclared'
  <2>1. table[t].abi = Version
    BY <1>2 DEF CheckSlots, CheckName, RegistryInv, Checked
  <2>2. touched' \in {<<table[t], "slots">>, <<table[t], "name">>}
    BY <1>2 DEF CheckSlots, CheckName
  <2>. QED
    BY <2>1, <2>2 DEF TablesUsedAsDeclared, Slots
<1>3. ASSUME NEW t \in Thread, at[t] \in Callers
      PROVE  /\ table[t].abi = Version /\ "required" \in table[t].slots
             /\ fmt[t] \in Format /\ table[t].name = fmt[t]
  BY <1>3 DEF RegistryInv, Checked, Trusted, Sound, Callers
<1>4. ASSUME NEW t \in Thread, OpenFile(t) \/ OpenFails(t) \/ Call(t) \/ CallWindowed(t)
                                \/ Metadata(t)
      PROVE  TablesUsedAsDeclared'
  BY <1>3, <1>4 DEF OpenFile, OpenFails, Call, CallWindowed, Metadata,
     TablesUsedAsDeclared, Slots, Callers
<1>5. ASSUME NEW t \in Thread, CastForDesign(t)  PROVE TablesUsedAsDeclared'
  <2>1. table[t] = Own(DesignFormat)
    BY <1>3, <1>5 DEF CastForDesign, IsDesignSession, OwnTables, BuiltIn, RegistryInv,
       Checked, Callers
  <2>. QED
    BY <1>5, <2>1 DEF CastForDesign, TablesUsedAsDeclared, Own, Slots
<1>6. ASSUME touched' = touched  PROVE TablesUsedAsDeclared'
  BY <1>6 DEF TablesUsedAsDeclared
<1>. QED
  BY <1>1, <1>2, <1>4, <1>5, <1>6
  DEF RegistryNext, Ask, Resolving, Lookup, LoadExternal, ExternalFails, NoOverride,
      NoBuiltin, Builtin, BeginVendor, LoadVendor, Insert, Opening, FreeErr,
      Using, Close, registryvars

(* No entry point of another version's table is read, no empty one called, *)
(* no foreign handle taken for an FSDB session (plugin_backend.rs:181-198, *)
(* 570-600): by any thread, at any time.                                   *)
THEOREM CallsAreDeclared == RegistrySpec => []TablesUsedAsDeclared
<1>1. TableInv /\ [RegistryNext]_registryvars => TableInv'
  BY RegistryKept, OwnTablesKept, TouchesAreAllowed DEF TableInv
<1>2. TableInv => TablesUsedAsDeclared
  BY DEF TableInv
<1>. QED
  BY <1>1, <1>2, InitTableInv, PTL DEF RegistrySpec

-----------------------------------------------------------------------------
(* The vendor library of a format is initialised by one thread, once.      *)

Loading(t) == at[t] = "vendor"

VendorInv ==
  /\ inits \in [Compiled -> Nat]
  /\ \A f \in Compiled :
       /\ inits[f] <= 1
       /\ oncelock[f] \in {"unset", "loading"} => inits[f] = 0
  /\ \A t \in Thread : Loading(t) => fmt[t] \in Compiled /\ oncelock[fmt[t]] = "loading"
  /\ \A t, u \in Thread : Loading(t) /\ Loading(u) /\ fmt[t] = fmt[u] => t = u

LEMMA LoadResult ==
  ASSUME NEW load \in VendorLoad
  PROVE  /\ load_npi_once(load).inits \in {0, 1}
         /\ load_libwlf_once(load).inits \in {0, 1}
  BY DEF load_npi_once, load_libwlf_once

LEMMA VendorInvKept == RegistryInv /\ VendorInv /\ [RegistryNext]_registryvars => VendorInv'
<1>. SUFFICES ASSUME RegistryInv, VendorInv, [RegistryNext]_registryvars  PROVE VendorInv'
  OBVIOUS
<1>. USE RegistryAssumption
<1>0. RegistryTypeOK
  BY DEF RegistryInv
<1>1. ASSUME NEW t \in Thread, BeginVendor(t)  PROVE VendorInv'
  BY <1>0, <1>1 DEF BeginVendor, RegistryTypeOK, VendorInv, Loading
<1>2. ASSUME NEW t \in Thread, LoadVendor(t)  PROVE VendorInv'
  <2>0. PICK load \in VendorLoad :
          LET result == IF fmt[t] = DesignFormat THEN load_npi_once(load)
                                                 ELSE load_libwlf_once(load)
          IN  /\ inits' = [inits EXCEPT ![fmt[t]] = @ + result.inits]
              /\ oncelock' = [oncelock EXCEPT ![fmt[t]] = VendorAfter(result)]
    BY <1>2 DEF LoadVendor
  <2>. DEFINE r == IF fmt[t] = DesignFormat THEN load_npi_once(load)
                                            ELSE load_libwlf_once(load)
  <2>1. /\ r.inits \in {0, 1}
        /\ inits' = [inits EXCEPT ![fmt[t]] = @ + r.inits]
        /\ oncelock' = [oncelock EXCEPT ![fmt[t]] = VendorAfter(r)]
    <3>1. r.inits \in {0, 1}
      BY LoadResult
    <3>. QED
      BY <2>0, <3>1
  <2>. HIDE DEF r
  <2>2. /\ fmt[t] \in Compiled /\ oncelock[fmt[t]] = "loading" /\ inits[fmt[t]] = 0
        /\ fmt' = fmt /\ at' = [at EXCEPT ![t] = "builtin"]
        /\ VendorAfter(r) \in {"loaded", "failed"}
    BY <1>2 DEF LoadVendor, VendorInv, Loading, VendorAfter
  <2>3. inits' \in [Compiled -> Nat] /\ inits'[fmt[t]] <= 1
    BY <2>1, <2>2 DEF VendorInv
  <2>4. \A f \in Compiled :
          /\ inits'[f] <= 1
          /\ oncelock'[f] \in {"unset", "loading"} => inits'[f] = 0
    <3>. TAKE f \in Compiled
    <3>1. CASE f = fmt[t]
      BY <1>0, <2>1, <2>2, <2>3, <3>1 DEF RegistryTypeOK
    <3>2. CASE f # fmt[t]
      BY <1>0, <2>1, <2>2, <3>2 DEF RegistryTypeOK, VendorInv
    <3>. QED
      BY <3>1, <3>2
  <2>5. \A u \in Thread : at'[u] = "vendor" => at[u] = "vendor" /\ u # t
    BY <1>0, <2>2 DEF RegistryTypeOK
  <2>6. \A u \in Thread : at'[u] = "vendor" =>
          fmt[u] \in Compiled /\ oncelock'[fmt[u]] = "loading"
    BY <1>0, <1>2, <2>1, <2>2, <2>5 DEF RegistryTypeOK, VendorInv, Loading, LoadVendor
  <2>7. \A u, w \in Thread :
          at'[u] = "vendor" /\ at'[w] = "vendor" /\ fmt[u] = fmt[w] => u = w
    BY <2>5 DEF VendorInv, Loading
  <2>. QED
    BY <2>2, <2>3, <2>4, <2>6, <2>7 DEF VendorInv, Loading
<1>3. ASSUME NEW t \in Thread, NEW label, label # "vendor", at[t] # "vendor",
             at' = [at EXCEPT ![t] = label], UNCHANGED <<oncelock, inits>>,
             \A u \in Thread : u # t => fmt'[u] = fmt[u]
      PROVE  VendorInv'
  BY <1>0, <1>3 DEF RegistryTypeOK, VendorInv, Loading
<1>4. ASSUME UNCHANGED <<at, fmt, oncelock, inits>>  PROVE VendorInv'
  BY <1>4 DEF VendorInv, Loading
<1>5. ASSUME NEW t \in Thread, Ask(t)  PROVE VendorInv'
  BY <1>0, <1>3, <1>5 DEF Ask, RegistryTypeOK
<1>6. ASSUME NEW t \in Thread,
             \/ Lookup(t) \/ LoadExternal(t) \/ ExternalFails(t) \/ NoOverride(t)
             \/ NoBuiltin(t) \/ Builtin(t)
      PROVE  VendorInv'
  BY <1>3, <1>6
  DEF Lookup, LoadExternal, ExternalFails, NoOverride, NoBuiltin, Builtin, Fail
<1>7. ASSUME NEW t \in Thread, CheckAbi(t) \/ CheckSlots(t) \/ CheckName(t) \/ Insert(t)
      PROVE  VendorInv'
  BY <1>3, <1>7 DEF CheckAbi, CheckSlots, CheckName, Insert, Fail
<1>8. ASSUME NEW t \in Thread, OpenFile(t) \/ OpenFails(t) \/ FreeErr(t) \/ Close(t)
      PROVE  VendorInv'
  BY <1>3, <1>8 DEF OpenFile, OpenFails, FreeErr, Close
<1>9. ASSUME NEW t \in Thread,
             Metadata(t) \/ Call(t) \/ CallWindowed(t) \/ CastForDesign(t)
      PROVE  VendorInv'
  BY <1>4, <1>9 DEF Metadata, Call, CallWindowed, CastForDesign
<1>. QED
  BY <1>1, <1>2, <1>4, <1>5, <1>6, <1>7, <1>8, <1>9
  DEF RegistryNext, Resolving, Opening, Using, registryvars

(* One step of the registry is one step of a write-once map, or none.      *)
LEMMA RegistrySteps == RegistryInv /\ [RegistryNext]_registryvars => [Registered!Next]_registry
<1>. SUFFICES ASSUME RegistryInv, [RegistryNext]_registryvars  PROVE [Registered!Next]_registry
  OBVIOUS
<1>1. ASSUME NEW t \in Thread, Insert(t)  PROVE [Registered!Next]_registry
  <2>1. fmt[t] \in Format /\ table[t] \in Table
    BY <1>1 DEF Insert, RegistryInv, Checked
  <2>2. CASE registry[fmt[t]] # Nothing
    BY <1>1, <2>1, <2>2 DEF Insert, Winner, RegistryInv, RegistryTypeOK
  <2>3. CASE registry[fmt[t]] = Nothing
    <3>1. registry' = [registry EXCEPT ![fmt[t]] = table[t]] /\ registry'[fmt[t]] = table[t]
      BY <1>1, <2>1, <2>3 DEF Insert, Winner, RegistryInv, RegistryTypeOK
    <3>2. Registered!Put(fmt[t])
      BY <2>1, <2>3, <3>1 DEF Registered!Put
    <3>. QED
      BY <2>1, <3>2 DEF Registered!Next
  <2>. QED
    BY <2>2, <2>3
<1>2. ASSUME registry' = registry  PROVE [Registered!Next]_registry
  BY <1>2
<1>. QED
  BY <1>1, <1>2
  DEF RegistryNext, Ask, Resolving, Lookup, LoadExternal, ExternalFails, NoOverride,
      NoBuiltin, Builtin, BeginVendor, LoadVendor, CheckAbi, CheckSlots,
      CheckName, Opening, OpenFile, OpenFails, FreeErr, Using, Metadata, Call,
      CallWindowed, CastForDesign, Close, registryvars

(* So is one step of the outcomes of the vendor loads.                     *)
LEMMA OutcomeSteps == RegistryInv /\ VendorInv /\ [RegistryNext]_registryvars => [Loaded!Next]_Outcome
<1>. SUFFICES ASSUME RegistryInv, VendorInv, [RegistryNext]_registryvars  PROVE [Loaded!Next]_Outcome
  OBVIOUS
<1>0. oncelock \in [Compiled -> {"unset", "loading", "loaded", "failed"}]
  BY DEF RegistryInv, RegistryTypeOK
<1>1. ASSUME NEW t \in Thread, BeginVendor(t)  PROVE [Loaded!Next]_Outcome
  <2>1. Outcome' = Outcome
    BY <1>0, <1>1 DEF BeginVendor, Outcome
  <2>. QED
    BY <2>1
<1>2. ASSUME NEW t \in Thread, LoadVendor(t)  PROVE [Loaded!Next]_Outcome
  <2>1. PICK r : oncelock' = [oncelock EXCEPT ![fmt[t]] = VendorAfter(r)]
    BY <1>2 DEF LoadVendor
  <2>2. fmt[t] \in Compiled /\ oncelock[fmt[t]] = "loading"
    BY <1>2 DEF LoadVendor, VendorInv, Loading
  <2>3. VendorAfter(r) \in {"loaded", "failed"}
    BY DEF VendorAfter
  <2>4. /\ Outcome[fmt[t]] = Nothing
        /\ Outcome'[fmt[t]] = VendorAfter(r)
        /\ Outcome' = [Outcome EXCEPT ![fmt[t]] = VendorAfter(r)]
    BY <1>0, <2>1, <2>2, <2>3 DEF Outcome
  <2>5. Loaded!Put(fmt[t])
    BY <2>3, <2>4 DEF Loaded!Put
  <2>. QED
    BY <2>2, <2>5 DEF Loaded!Next
<1>3. ASSUME oncelock' = oncelock  PROVE [Loaded!Next]_Outcome
  BY <1>3 DEF Outcome
<1>. QED
  BY <1>1, <1>2, <1>3
  DEF RegistryNext, Ask, Resolving, Lookup, LoadExternal, ExternalFails, NoOverride,
      NoBuiltin, Builtin, CheckAbi, CheckSlots, CheckName, Insert, Opening,
      OpenFile, OpenFails, FreeErr, Using, Metadata, Call, CallWindowed,
      CastForDesign, Close, registryvars

(* LOADED_PLUGINS and the OnceLocks refine the write-once map, and no      *)
(* vendor library is initialised twice (plugin_backend.rs:39-53,           *)
(* wlf_sys.rs:228-236), for any number of racing threads.                  *)
THEOREM RegistryIsWriteOnce == RegistrySpec => WriteOnce
<1>1. RegistryInit => VendorInv /\ Registered!Init /\ Loaded!Init
  BY DEF RegistryInit, VendorInv, Loading, Registered!Init, Loaded!Init, Outcome
<1>2. VendorInv => \A f \in Compiled : inits[f] <= 1
  BY DEF VendorInv
<1>. QED
  BY <1>1, <1>2, VendorInvKept, RegistrySteps, OutcomeSteps, RegistryInvariant, PTL
  DEF RegistrySpec, WriteOnce, Registered!Spec, Loaded!Spec
=============================================================================
