--------------------------- MODULE SessionProofs ----------------------------
(***************************************************************************)
(* A batch session.  First its lines, for every argument vector and every  *)
(* input: the two passes over the arguments agree, no flag of a command    *)
(* that runs is passed over, every line that holds a command gets one      *)
(* result and its number, and the splitter gives back any words typed in   *)
(* any quoting.  Then the traces it keeps between the lines, for every     *)
(* file, threshold, batch size and set of commands: each line is answered  *)
(* from complete data unless a decode stopped part way, the traces of a    *)
(* window stay out of the cache, and streaming holds at most one batch     *)
(* beyond what was resident.                                               *)
(*                                                                         *)
(* The loops of the code are taken position by position (Scanned, Taken,   *)
(* Prescanned, JoinedUp), and what holds at each position is carried from  *)
(* one to the next by UpTo.                                                *)
(***************************************************************************)
EXTENDS CommandLine, TraceCache, FiniteSetTheorems, SequenceTheorems,
        WellFoundedInduction, TLAPS

(***************************************************************************)
(* Induction up to n, over a set of numbers.                               *)
(***************************************************************************)
LEMMA UpTo ==
  ASSUME NEW n \in Nat, NEW S, 0 \in S, \A i \in 1..n : i - 1 \in S => i \in S
  PROVE  \A i \in 0..n : i \in S
<1>. DEFINE Outside == {i \in Nat : i \in 0..n /\ i \notin S}
<1>1. SUFFICES ASSUME NEW j \in 0..n, j \notin S PROVE FALSE
  OBVIOUS
<1>2. j \in Outside
  BY <1>1
<1>3. PICK k \in Outside : \A r \in Outside : ~(<<r, k>> \in OpToRel(<, Nat))
  BY <1>2, NatLessThanWellFounded, WFMin
<1>4. k \in Nat /\ k \in 0..n /\ k \notin S
  OBVIOUS
<1>5. k # 0
  BY <1>4
<1>6. k \in 1..n /\ k - 1 \in 0..n /\ k - 1 \in Nat /\ k - 1 < k
  BY <1>4, <1>5
<1>7. k - 1 \notin S
  BY <1>4, <1>6
<1>8. k - 1 \in Outside
  BY <1>6, <1>7
<1>9. <<k - 1, k>> \in OpToRel(<, Nat)
  BY <1>4, <1>6 DEF OpToRel
<1>. QED
  BY <1>3, <1>8, <1>9

(***************************************************************************)
(* The loops of the model, as what they have after each position.          *)
(***************************************************************************)

Scanned(after, s, text, n) ==
  /\ DOMAIN after = 0..n
  /\ after[0] = s
  /\ \A i \in 1..n : after[i] = ScanChar(after[i - 1], text[i])

Taken(after, tokens, batch_mode, n) ==
  /\ DOMAIN after = 0..n
  /\ after[0] = Acc
  /\ \A i \in 1..n : after[i] = TakeToken(after[i - 1], tokens[i], batch_mode)

Prescanned(after, tokens, value_flags, n) ==
  /\ DOMAIN after = 0..n
  /\ after[0] = Unscanned
  /\ \A i \in 1..n : after[i] = PrescanToken(after[i - 1], tokens[i], value_flags)

JoinedUp(upto, texts, n) ==
  /\ DOMAIN upto = 0..n
  /\ upto[0] = << >>
  /\ \A i \in 1..n : upto[i] = upto[i - 1] \o texts[i]

(* Whatever the scanner starts from, a scan has a state at every position. *)
LEMMA ScanPositions ==
  ASSUME NEW s, NEW text, Len(text) \in Nat
  PROVE  \E after : Scanned(after, s, text, Len(text)) /\ Scan(s, text) = after[Len(text)]
<1>. DEFINE n == Len(text)
            Run(g, m) == g = [i \in 0..m |-> IF i = 0 THEN s ELSE ScanChar(g[i - 1], text[i])]
            S == {m \in 0..n : \E g : Run(g, m)}
<1>1. 0 \in S
  <2>1. Run([i \in 0..0 |-> s], 0)
    OBVIOUS
  <2>. HIDE DEF Run
  <2>2. \E g : Run(g, 0)
    BY <2>1
  <2>. QED
    BY <2>2
<1>2. ASSUME NEW m \in 1..n, m - 1 \in S PROVE m \in S
  <2>1. PICK g : Run(g, m - 1)
    BY <1>2
  <2>. DEFINE h == [i \in 0..m |-> IF i < m THEN g[i] ELSE ScanChar(g[m - 1], text[m])]
  <2>2. ASSUME NEW i \in 0..m
        PROVE  h[i] = IF i = 0 THEN s ELSE ScanChar(h[i - 1], text[i])
    <3>1. CASE i = 0
      <4>1. h[0] = g[0]
        OBVIOUS
      <4>2. g[0] = s
        BY <2>1
      <4>. QED
        BY <3>1, <4>1, <4>2
    <3>2. CASE i \in 1..(m - 1)
      <4>1. i \in 0..(m - 1) /\ i # 0 /\ i - 1 \in 0..m /\ i - 1 < m /\ i < m
        BY <3>2
      <4>2. h[i] = g[i] /\ h[i - 1] = g[i - 1]
        BY <4>1
      <4>3. g[i] = ScanChar(g[i - 1], text[i])
        BY <2>1, <4>1
      <4>. QED
        BY <4>1, <4>2, <4>3
    <3>3. CASE i = m
      <4>1. h[m] = ScanChar(g[m - 1], text[m])
        OBVIOUS
      <4>2. h[m - 1] = g[m - 1]
        OBVIOUS
      <4>. QED
        BY <3>3, <4>1, <4>2
    <3>. QED
      BY <3>1, <3>2, <3>3
  <2>3. h = [i \in 0..m |-> h[i]]
    OBVIOUS
  <2>. HIDE DEF h
  <2>4. h = [i \in 0..m |-> IF i = 0 THEN s ELSE ScanChar(h[i - 1], text[i])]
    BY <2>2, <2>3
  <2>. QED
    BY <2>4
<1>3. n \in S
  <2>. HIDE DEF S
  <2>1. \A i \in 0..n : i \in S
    BY <1>1, <1>2, UpTo
  <2>. QED
    BY <2>1
<1>4. \E g : Run(g, n)
  BY <1>3
<1>5. PICK g : Run(g, n) /\ Scan(s, text) = g[n]
  <2>1. Run(CHOOSE g : Run(g, n), n)
    BY <1>4
  <2>2. Scan(s, text) = (CHOOSE g : Run(g, n))[n]
    BY DEF Scan
  <2>. QED
    BY <2>1, <2>2
<1>6. Scanned(g, s, text, n)
  BY <1>5 DEF Scanned
<1>. QED
  BY <1>5, <1>6
(* So has the token loop.                                                  *)
LEMMA TakePositions ==
  ASSUME NEW tokens, NEW batch_mode, Len(tokens) \in Nat
  PROVE  \E after : Taken(after, tokens, batch_mode, Len(tokens)) /\ TakeTokens(tokens, batch_mode) = after[Len(tokens)]
<1>. DEFINE n == Len(tokens)
            Run(g, m) == g = [i \in 0..m |-> IF i = 0 THEN Acc ELSE TakeToken(g[i - 1], tokens[i], batch_mode)]
            S == {m \in 0..n : \E g : Run(g, m)}
<1>1. 0 \in S
  <2>1. Run([i \in 0..0 |-> Acc], 0)
    OBVIOUS
  <2>. HIDE DEF Run
  <2>2. \E g : Run(g, 0)
    BY <2>1
  <2>. QED
    BY <2>2
<1>2. ASSUME NEW m \in 1..n, m - 1 \in S PROVE m \in S
  <2>1. PICK g : Run(g, m - 1)
    BY <1>2
  <2>. DEFINE h == [i \in 0..m |-> IF i < m THEN g[i] ELSE TakeToken(g[m - 1], tokens[m], batch_mode)]
  <2>2. ASSUME NEW i \in 0..m
        PROVE  h[i] = IF i = 0 THEN Acc ELSE TakeToken(h[i - 1], tokens[i], batch_mode)
    <3>1. CASE i = 0
      <4>1. h[0] = g[0]
        OBVIOUS
      <4>2. g[0] = Acc
        BY <2>1
      <4>. QED
        BY <3>1, <4>1, <4>2
    <3>2. CASE i \in 1..(m - 1)
      <4>1. i \in 0..(m - 1) /\ i # 0 /\ i - 1 \in 0..m /\ i - 1 < m /\ i < m
        BY <3>2
      <4>2. h[i] = g[i] /\ h[i - 1] = g[i - 1]
        BY <4>1
      <4>3. g[i] = TakeToken(g[i - 1], tokens[i], batch_mode)
        BY <2>1, <4>1
      <4>. QED
        BY <4>1, <4>2, <4>3
    <3>3. CASE i = m
      <4>1. h[m] = TakeToken(g[m - 1], tokens[m], batch_mode)
        OBVIOUS
      <4>2. h[m - 1] = g[m - 1]
        OBVIOUS
      <4>. QED
        BY <3>3, <4>1, <4>2
    <3>. QED
      BY <3>1, <3>2, <3>3
  <2>3. h = [i \in 0..m |-> h[i]]
    OBVIOUS
  <2>. HIDE DEF h
  <2>4. h = [i \in 0..m |-> IF i = 0 THEN Acc ELSE TakeToken(h[i - 1], tokens[i], batch_mode)]
    BY <2>2, <2>3
  <2>. QED
    BY <2>4
<1>3. n \in S
  <2>. HIDE DEF S
  <2>1. \A i \in 0..n : i \in S
    BY <1>1, <1>2, UpTo
  <2>. QED
    BY <2>1
<1>4. \E g : Run(g, n)
  BY <1>3
<1>5. PICK g : Run(g, n) /\ TakeTokens(tokens, batch_mode) = g[n]
  <2>1. Run(CHOOSE g : Run(g, n), n)
    BY <1>4
  <2>2. TakeTokens(tokens, batch_mode) = (CHOOSE g : Run(g, n))[n]
    BY DEF TakeTokens
  <2>. QED
    BY <2>1, <2>2
<1>6. Taken(g, tokens, batch_mode, n)
  BY <1>5 DEF Taken
<1>. QED
  BY <1>5, <1>6
(* So has the scan for --help, --version and --batch.                      *)
LEMMA PrescanPositions ==
  ASSUME NEW tokens, NEW value_flags, Len(tokens) \in Nat
  PROVE  \E after : Prescanned(after, tokens, value_flags, Len(tokens)) /\ PrescanOver(tokens, value_flags) = after[Len(tokens)]
<1>. DEFINE n == Len(tokens)
            Run(g, m) == g = [i \in 0..m |-> IF i = 0 THEN Unscanned ELSE PrescanToken(g[i - 1], tokens[i], value_flags)]
            S == {m \in 0..n : \E g : Run(g, m)}
<1>1. 0 \in S
  <2>1. Run([i \in 0..0 |-> Unscanned], 0)
    OBVIOUS
  <2>. HIDE DEF Run
  <2>2. \E g : Run(g, 0)
    BY <2>1
  <2>. QED
    BY <2>2
<1>2. ASSUME NEW m \in 1..n, m - 1 \in S PROVE m \in S
  <2>1. PICK g : Run(g, m - 1)
    BY <1>2
  <2>. DEFINE h == [i \in 0..m |-> IF i < m THEN g[i] ELSE PrescanToken(g[m - 1], tokens[m], value_flags)]
  <2>2. ASSUME NEW i \in 0..m
        PROVE  h[i] = IF i = 0 THEN Unscanned ELSE PrescanToken(h[i - 1], tokens[i], value_flags)
    <3>1. CASE i = 0
      <4>1. h[0] = g[0]
        OBVIOUS
      <4>2. g[0] = Unscanned
        BY <2>1
      <4>. QED
        BY <3>1, <4>1, <4>2
    <3>2. CASE i \in 1..(m - 1)
      <4>1. i \in 0..(m - 1) /\ i # 0 /\ i - 1 \in 0..m /\ i - 1 < m /\ i < m
        BY <3>2
      <4>2. h[i] = g[i] /\ h[i - 1] = g[i - 1]
        BY <4>1
      <4>3. g[i] = PrescanToken(g[i - 1], tokens[i], value_flags)
        BY <2>1, <4>1
      <4>. QED
        BY <4>1, <4>2, <4>3
    <3>3. CASE i = m
      <4>1. h[m] = PrescanToken(g[m - 1], tokens[m], value_flags)
        OBVIOUS
      <4>2. h[m - 1] = g[m - 1]
        OBVIOUS
      <4>. QED
        BY <3>3, <4>1, <4>2
    <3>. QED
      BY <3>1, <3>2, <3>3
  <2>3. h = [i \in 0..m |-> h[i]]
    OBVIOUS
  <2>. HIDE DEF h
  <2>4. h = [i \in 0..m |-> IF i = 0 THEN Unscanned ELSE PrescanToken(h[i - 1], tokens[i], value_flags)]
    BY <2>2, <2>3
  <2>. QED
    BY <2>4
<1>3. n \in S
  <2>. HIDE DEF S
  <2>1. \A i \in 0..n : i \in S
    BY <1>1, <1>2, UpTo
  <2>. QED
    BY <2>1
<1>4. \E g : Run(g, n)
  BY <1>3
<1>5. PICK g : Run(g, n) /\ PrescanOver(tokens, value_flags) = g[n]
  <2>1. Run(CHOOSE g : Run(g, n), n)
    BY <1>4
  <2>2. PrescanOver(tokens, value_flags) = (CHOOSE g : Run(g, n))[n]
    BY DEF PrescanOver
  <2>. QED
    BY <2>1, <2>2
<1>6. Prescanned(g, tokens, value_flags, n)
  BY <1>5 DEF Prescanned
<1>. QED
  BY <1>5, <1>6
(* So have texts put one after the other.                                  *)
LEMMA JoinedPositions ==
  ASSUME NEW texts, Len(texts) \in Nat
  PROVE  \E after : JoinedUp(after, texts, Len(texts)) /\ Joined(texts) = after[Len(texts)]
<1>. DEFINE n == Len(texts)
            Run(g, m) == g = [i \in 0..m |-> IF i = 0 THEN << >> ELSE g[i - 1] \o texts[i]]
            S == {m \in 0..n : \E g : Run(g, m)}
<1>1. 0 \in S
  <2>1. Run([i \in 0..0 |-> << >>], 0)
    OBVIOUS
  <2>. HIDE DEF Run
  <2>2. \E g : Run(g, 0)
    BY <2>1
  <2>. QED
    BY <2>2
<1>2. ASSUME NEW m \in 1..n, m - 1 \in S PROVE m \in S
  <2>1. PICK g : Run(g, m - 1)
    BY <1>2
  <2>. DEFINE h == [i \in 0..m |-> IF i < m THEN g[i] ELSE g[m - 1] \o texts[m]]
  <2>2. ASSUME NEW i \in 0..m
        PROVE  h[i] = IF i = 0 THEN << >> ELSE h[i - 1] \o texts[i]
    <3>1. CASE i = 0
      <4>1. h[0] = g[0]
        OBVIOUS
      <4>2. g[0] = << >>
        BY <2>1
      <4>. QED
        BY <3>1, <4>1, <4>2
    <3>2. CASE i \in 1..(m - 1)
      <4>1. i \in 0..(m - 1) /\ i # 0 /\ i - 1 \in 0..m /\ i - 1 < m /\ i < m
        BY <3>2
      <4>2. h[i] = g[i] /\ h[i - 1] = g[i - 1]
        BY <4>1
      <4>3. g[i] = g[i - 1] \o texts[i]
        BY <2>1, <4>1
      <4>. QED
        BY <4>1, <4>2, <4>3
    <3>3. CASE i = m
      <4>1. h[m] = g[m - 1] \o texts[m]
        OBVIOUS
      <4>2. h[m - 1] = g[m - 1]
        OBVIOUS
      <4>. QED
        BY <3>3, <4>1, <4>2
    <3>. QED
      BY <3>1, <3>2, <3>3
  <2>3. h = [i \in 0..m |-> h[i]]
    OBVIOUS
  <2>. HIDE DEF h
  <2>4. h = [i \in 0..m |-> IF i = 0 THEN << >> ELSE h[i - 1] \o texts[i]]
    BY <2>2, <2>3
  <2>. QED
    BY <2>4
<1>3. n \in S
  <2>. HIDE DEF S
  <2>1. \A i \in 0..n : i \in S
    BY <1>1, <1>2, UpTo
  <2>. QED
    BY <2>1
<1>4. \E g : Run(g, n)
  BY <1>3
<1>5. PICK g : Run(g, n) /\ Joined(texts) = g[n]
  <2>1. Run(CHOOSE g : Run(g, n), n)
    BY <1>4
  <2>2. Joined(texts) = (CHOOSE g : Run(g, n))[n]
    BY DEF Joined
  <2>. QED
    BY <2>1, <2>2
<1>6. JoinedUp(g, texts, n)
  <2>1. DOMAIN g = 0..n
    BY <1>5
  <2>2. \A i \in 0..n : g[i] = IF i = 0 THEN << >> ELSE g[i - 1] \o texts[i]
    BY <1>5, Zenon
  <2>3. g[0] = << >>
    BY <2>2
  <2>4. \A i \in 1..n : i \in 0..n /\ i # 0
    OBVIOUS
  <2>5. \A i \in 1..n : g[i] = g[i - 1] \o texts[i]
    BY <2>2, <2>4, Zenon
  <2>. QED
    BY <2>1, <2>3, <2>5 DEF JoinedUp
<1>. QED
  BY <1>5, <1>6
(***************************************************************************)
(* The two passes over the arguments.                                      *)
(***************************************************************************)

(* An accumulator has its fields, and no other.                            *)
IsAcc(a) ==
  a = [opt |-> a.opt, set |-> a.set, condition |-> a.condition, command |-> a.command,
       positionals |-> a.positionals, wants |-> a.wants, ok |-> a.ok]

IsScan(p) == p = [print |-> p.print, skip |-> p.skip, batch |-> p.batch]

(* What it holds comes from the flags and the commands there are.          *)
Sound(a) ==
  /\ IsAcc(a) /\ a.ok \in BOOLEAN
  /\ a.wants \in VALUE_FLAGS \cup {"none"}
  /\ DOMAIN a.opt \subseteq VALUE_FLAGS
  /\ a.set \subseteq BareFlags
  /\ a.command \in CommandNames \cup {"none"}

(* The passes are in step: both inside a flag's value or neither, and of   *)
(* one mind about --batch, unless one of them has stopped.                 *)
InStep(p, a) ==
  \/ p.print
  \/ ~a.ok
  \/ (p.skip <=> a.wants # "none") /\ (p.batch <=> "--batch" \in a.set)

ScanShape(p) == IsScan(p) /\ p.print \in BOOLEAN /\ p.skip \in BOOLEAN /\ p.batch \in BOOLEAN

LEMMA AccFacts ==
  /\ Sound(Acc) /\ Acc.ok /\ Acc.set = {} /\ Acc.wants = "none"
  /\ ScanShape(Unscanned) /\ InStep(Unscanned, Acc)
<1>1. DOMAIN << >> \subseteq VALUE_FLAGS
  OBVIOUS
<1>2. Acc.opt = << >> /\ Acc.set = {} /\ Acc.wants = "none" /\ Acc.ok = TRUE /\ Acc.command = "none"
  BY DEF Acc
<1>3. IsAcc(Acc)
  BY DEF IsAcc, Acc
<1>4. Sound(Acc)
  BY <1>1, <1>2, <1>3 DEF Sound
<1>5. ScanShape(Unscanned) /\ ~Unscanned.skip /\ ~Unscanned.batch
  BY DEF ScanShape, IsScan, Unscanned
<1>6. InStep(Unscanned, Acc)
  BY <1>2, <1>5 DEF InStep, ScanShape
<1>7. Acc.ok
  BY DEF Acc
<1>. QED
  BY <1>2, <1>4, <1>5, <1>6, <1>7

LEMMA FailedFacts ==
  ASSUME NEW a, Sound(a)
  PROVE  Sound(Failed(a)) /\ ~Failed(a).ok /\ Failed(a).set = a.set /\ Failed(a).command = a.command
<1>. DEFINE b == Failed(a)
<1>0. b = [a EXCEPT !.ok = FALSE]
  BY DEF Failed
<1>. HIDE DEF b
<1>1. b = [opt |-> a.opt, set |-> a.set, condition |-> a.condition, command |-> a.command,
           positionals |-> a.positionals, wants |-> a.wants, ok |-> FALSE]
  <2>1. a = [opt |-> a.opt, set |-> a.set, condition |-> a.condition, command |-> a.command,
             positionals |-> a.positionals, wants |-> a.wants, ok |-> a.ok]
    BY DEF Sound, IsAcc
  <2>. QED
    BY <1>0, <2>1
<1>3. IsAcc(b) /\ b.set = a.set /\ b.command = a.command /\ b.opt = a.opt /\ b.wants = a.wants
  BY <1>1 DEF IsAcc
<1>4. b.ok \in BOOLEAN /\ ~b.ok
  BY <1>1
<1>5. Sound(b) /\ ~b.ok /\ b.set = a.set /\ b.command = a.command
  BY <1>3, <1>4 DEF Sound
<1>. QED
  BY <1>5 DEF b

(* What taking a value does.                                               *)
LEMMA TakeValueFacts ==
  ASSUME NEW a, Sound(a), a.wants # "none", NEW v
  PROVE  LET b == TakeValue(a, v)
         IN  Sound(b) /\ b.wants = "none" /\ b.set = a.set
<1>. DEFINE f == a.wants
            c == [a EXCEPT !.wants = "none"]
<1>1. Sound(c) /\ c.wants = "none" /\ c.set = a.set /\ c.opt = a.opt
  BY DEF Sound, IsAcc
<1>. HIDE DEF c
<1>2. CASE f = "--condition"
  <2>1. TakeValue(a, v) = [c EXCEPT !.condition = Append(@, v)]
    BY <1>2 DEF TakeValue, c
  <2>. QED
    BY <1>1, <2>1 DEF Sound, IsAcc
<1>3. CASE f # "--condition" /\ f \in {"--limit", "--depth"} /\ ~Is(v, DOMAIN Number)
  <2>1. TakeValue(a, v) = Failed(c)
    BY <1>3 DEF TakeValue, c
  <2>. QED
    BY <1>1, <2>1 DEF Sound, IsAcc, Failed
<1>4. CASE f # "--condition" /\ ~(f \in {"--limit", "--depth"} /\ ~Is(v, DOMAIN Number))
  <2>. DEFINE o == [g \in DOMAIN c.opt \cup {f} |-> IF g = f THEN v ELSE c.opt[g]]
  <2>1. TakeValue(a, v) = [c EXCEPT !.opt = o]
    BY <1>4 DEF TakeValue, c
  <2>2. DOMAIN o \subseteq VALUE_FLAGS
    BY <1>1 DEF Sound
  <2>. HIDE DEF o
  <2>. QED
    BY <1>1, <2>1, <2>2 DEF Sound, IsAcc
<1>. QED
  BY <1>2, <1>3, <1>4

LEMMA TakeFlagFacts ==
  ASSUME NEW a, Sound(a), NEW f \in BareFlags
  PROVE  LET b == TakeFlag(a, f)
         IN  Sound(b) /\ b.wants = a.wants /\ (b.ok => b.set = a.set \cup {f})
<1>1. CASE f \in DOMAIN Opposite /\ Opposite[f] \in a.set
  BY <1>1 DEF TakeFlag, Sound, IsAcc, Failed
<1>2. CASE ~(f \in DOMAIN Opposite /\ Opposite[f] \in a.set)
  <2>1. TakeFlag(a, f) = [a EXCEPT !.set = @ \cup {f}]
    BY <1>2 DEF TakeFlag
  <2>. QED
    BY <2>1 DEF Sound, IsAcc
<1>. QED
  BY <1>1, <1>2

LEMMA TakeWordFacts ==
  ASSUME NEW a, Sound(a), NEW t, NEW batch_mode
  PROVE  LET b == TakeWord(a, t, batch_mode)
         IN  Sound(b) /\ b.wants = a.wants /\ b.set = a.set
<1>1. CASE batch_mode \/ a.command # "none"
  BY <1>1 DEF TakeWord, Sound, IsAcc
<1>2. CASE ~(batch_mode \/ a.command # "none") /\ Is(t, CommandNames)
  <2>1. Named(t) \in CommandNames
    BY <1>2 DEF Is, Named
  <2>2. TakeWord(a, t, batch_mode) = [a EXCEPT !.command = Named(t)]
    BY <1>2 DEF TakeWord
  <2>. QED
    BY <2>1, <2>2 DEF Sound, IsAcc
<1>3. CASE ~(batch_mode \/ a.command # "none") /\ ~Is(t, CommandNames)
  BY <1>3 DEF TakeWord, Sound, IsAcc, Failed
<1>. QED
  BY <1>1, <1>2, <1>3

(* One token keeps the passes in step, and what is accumulated sound.      *)
LEMMA TokenStep ==
  ASSUME NEW a, Sound(a), NEW p, ScanShape(p), NEW t, NEW batch_mode
  PROVE  LET b == TakeToken(a, t, batch_mode)
             q == PrescanToken(p, t, VALUE_FLAGS)
         IN  /\ Sound(b)
             /\ ScanShape(q)
             /\ InStep(p, a) => InStep(q, b)
<1>. DEFINE b == TakeToken(a, t, batch_mode)
            q == PrescanToken(p, t, VALUE_FLAGS)
<1>. SUFFICES Sound(b) /\ ScanShape(q) /\ (InStep(p, a) => InStep(q, b))
  OBVIOUS
<1>1. /\ ScanShape(q)
      /\ p.print => q.print
      /\ ~p.print /\ p.skip => ~q.skip /\ (q.batch <=> p.batch)
      /\ ~p.print /\ ~p.skip /\ ~Is(t, {"--help", "--version", "-h"}) =>
           /\ q.batch <=> (p.batch \/ Is(t, {"--batch"}))
           /\ q.skip <=> Is(t, VALUE_FLAGS)
      /\ ~p.print /\ ~p.skip /\ Is(t, {"--help", "--version", "-h"}) => q.print
  <2>0. p = [print |-> p.print, skip |-> p.skip, batch |-> p.batch]
        /\ p.print \in BOOLEAN /\ p.skip \in BOOLEAN /\ p.batch \in BOOLEAN
    BY DEF ScanShape, IsScan
  <2>1. CASE p.print
    <3>1. q = p
      BY <2>0, <2>1 DEF PrescanToken
    <3>. QED
      BY <3>1, <2>1
  <2>2. CASE ~p.print /\ p.skip
    <3>1. q = [p EXCEPT !.skip = FALSE]
      BY <2>0, <2>2 DEF PrescanToken
    <3>2. q = [print |-> p.print, skip |-> FALSE, batch |-> p.batch]
      BY <3>1, <2>0
    <3>. HIDE DEF q
    <3>. QED
      BY <3>2, <2>2, <2>0 DEF ScanShape, IsScan
  <2>3. CASE ~p.print /\ ~p.skip /\ Is(t, {"--help", "--version", "-h"})
    <3>1. q = [p EXCEPT !.print = TRUE]
      BY <2>0, <2>3 DEF PrescanToken
    <3>2. q = [print |-> TRUE, skip |-> p.skip, batch |-> p.batch]
      BY <3>1, <2>0
    <3>. HIDE DEF q
    <3>. QED
      BY <3>2, <2>3, <2>0 DEF ScanShape, IsScan
  <2>4. CASE ~p.print /\ ~p.skip /\ ~Is(t, {"--help", "--version", "-h"})
    <3>1. q = [p EXCEPT !.batch = @ \/ Is(t, {"--batch"}), !.skip = Is(t, VALUE_FLAGS)]
      BY <2>0, <2>4 DEF PrescanToken
    <3>. DEFINE y == p.batch \/ Is(t, {"--batch"})
                z == Is(t, VALUE_FLAGS)
    <3>2. y \in BOOLEAN /\ z \in BOOLEAN
      BY DEF Is
    <3>3. q = [print |-> p.print, skip |-> z, batch |-> y]
      BY <3>1, <2>0
    <3>4. q.print = p.print /\ q.skip = z /\ q.batch = y /\ IsScan(q)
      BY <3>3 DEF IsScan
    <3>. HIDE DEF q
    <3>. QED
      BY <3>2, <3>4, <2>4, <2>0 DEF ScanShape
  <2>. QED
    BY <2>1, <2>2, <2>3, <2>4
<1>2. CASE ~a.ok
  <2>1. b = a
    BY <1>2 DEF TakeToken, Sound
  <2>. QED
    BY <1>1, <1>2, <2>1 DEF InStep, ScanShape, Sound
<1>3. CASE a.ok /\ a.wants # "none"
  <2>1. b = TakeValue(a, t)
    BY <1>3 DEF TakeToken, Sound
  <2>2. Sound(b) /\ b.wants = "none" /\ b.set = a.set
    BY <1>3, <2>1, TakeValueFacts
  <2>. QED
    BY <1>1, <1>3, <2>2 DEF InStep, ScanShape, Sound
<1>4. CASE a.ok /\ a.wants = "none" /\ Is(t, VALUE_FLAGS)
  <2>1. b = [a EXCEPT !.wants = Named(t)]
    BY <1>4 DEF TakeToken, Sound
  <2>2. Named(t) \in VALUE_FLAGS /\ t[1] \in VALUE_FLAGS
    BY <1>4 DEF Is, Named
  <2>3. ~Is(t, {"--batch"}) /\ ~Is(t, {"--help", "--version", "-h"}) /\ Named(t) # "none"
    BY <2>2 DEF Is, VALUE_FLAGS
  <2>4. IsAcc(b) /\ b.wants = Named(t) /\ b.set = a.set /\ b.opt = a.opt /\ b.ok = a.ok /\ b.command = a.command
    BY <2>1 DEF Sound, IsAcc
  <2>. HIDE DEF b, q
  <2>5. Sound(b)
    BY <2>2, <2>4 DEF Sound
  <2>. QED
    BY <1>1, <1>4, <2>3, <2>4, <2>5 DEF InStep, ScanShape, Sound
<1>5. CASE a.ok /\ a.wants = "none" /\ ~Is(t, VALUE_FLAGS) /\ Is(t, BareFlags)
  <2>1. b = TakeFlag(a, Named(t))
    BY <1>5 DEF TakeToken, Sound
  <2>2. Named(t) \in BareFlags /\ t[1] = Named(t)
    BY <1>5 DEF Is, Named
  <2>3. Sound(b) /\ b.wants = a.wants /\ (b.ok => b.set = a.set \cup {Named(t)})
    BY <2>1, <2>2, TakeFlagFacts
  <2>4. Is(t, {"--batch"}) <=> Named(t) = "--batch"
    BY <1>5, <2>2 DEF Is
  <2>5. ~Is(t, {"--help", "--version", "-h"})
    BY <2>2 DEF Is, BareFlags
  <2>6. Is(t, {"--batch"}) \in BOOLEAN
    BY DEF Is
  <2>. HIDE DEF b, q
  <2>. QED
    BY <1>1, <1>5, <2>3, <2>4, <2>5, <2>6 DEF InStep, ScanShape, Sound
<1>6. CASE a.ok /\ a.wants = "none" /\ ~Is(t, VALUE_FLAGS) /\ ~Is(t, BareFlags)
  <2>1. b = Failed(a) \/ b = TakeWord(a, t, batch_mode)
    BY <1>6 DEF TakeToken, Sound
  <2>2. Sound(b) /\ (b.ok => b.wants = a.wants /\ b.set = a.set)
    BY <2>1, FailedFacts, TakeWordFacts
  <2>3. ~Is(t, {"--batch"})
    BY <1>6 DEF Is, BareFlags
  <2>. HIDE DEF b, q
  <2>. QED
    BY <1>1, <1>6, <2>2, <2>3 DEF InStep, ScanShape, Sound
<1>. QED
  BY <1>2, <1>3, <1>4, <1>5, <1>6 DEF Sound

(* So do all of them.                                                      *)
LEMMA TokensStep ==
  ASSUME NEW tokens, Len(tokens) \in Nat, NEW batch_mode
  PROVE  LET a == TakeTokens(tokens, batch_mode)
             p == Prescan(tokens)
         IN  Sound(a) /\ ScanShape(p) /\ InStep(p, a)
<1>. DEFINE n == Len(tokens)
<1>1. PICK after : Taken(after, tokens, batch_mode, n) /\ TakeTokens(tokens, batch_mode) = after[n]
  BY TakePositions
<1>2. PICK scan : Prescanned(scan, tokens, VALUE_FLAGS, n) /\ PrescanOver(tokens, VALUE_FLAGS) = scan[n]
  BY PrescanPositions
<1>. DEFINE S == {i \in 0..n : Sound(after[i]) /\ ScanShape(scan[i]) /\ InStep(scan[i], after[i])}
<1>3. 0 \in S
  BY <1>1, <1>2, AccFacts DEF Taken, Prescanned
<1>4. ASSUME NEW i \in 1..n, i - 1 \in S PROVE i \in S
  <2>1. after[i] = TakeToken(after[i - 1], tokens[i], batch_mode)
    BY <1>1 DEF Taken
  <2>2. scan[i] = PrescanToken(scan[i - 1], tokens[i], VALUE_FLAGS)
    BY <1>2 DEF Prescanned
  <2>3. Sound(after[i - 1]) /\ ScanShape(scan[i - 1]) /\ InStep(scan[i - 1], after[i - 1])
    BY <1>4
  <2>4. Sound(after[i]) /\ ScanShape(scan[i]) /\ InStep(scan[i], after[i])
    BY <2>1, <2>2, <2>3, TokenStep
  <2>. QED
    BY <2>4
<1>5. n \in S
  <2>. HIDE DEF S
  <2>1. \A i \in 0..n : i \in S
    BY <1>3, <1>4, UpTo
  <2>. QED
    BY <2>1
<1>. QED
  BY <1>1, <1>2, <1>5 DEF Prescan

(* What a line or an argument vector comes to.                             *)
LEMMA AccumulateFacts ==
  ASSUME NEW tokens, Len(tokens) \in Nat, NEW batch_mode
  PROVE  LET acc == accumulate(tokens, batch_mode)
         IN  /\ Sound(acc)
             /\ ~Prescan(tokens).print /\ acc.ok => (Prescan(tokens).batch <=> "--batch" \in acc.set)
<1>. DEFINE a == TakeTokens(tokens, batch_mode)
            p == Prescan(tokens)
            acc == accumulate(tokens, batch_mode)
<1>. SUFFICES Sound(acc) /\ (~p.print /\ acc.ok => (p.batch <=> "--batch" \in acc.set))
  OBVIOUS
<1>1. Sound(a) /\ ScanShape(p) /\ InStep(p, a)
  BY TokensStep
<1>2. CASE a.wants = "none"
  <2>1. acc = a
    BY <1>2 DEF accumulate
  <2>. HIDE DEF a, p, acc
  <2>. QED
    BY <1>1, <1>2, <2>1 DEF InStep, ScanShape, Sound
<1>3. CASE a.wants # "none"
  <2>1. acc = Failed(a)
    BY <1>3 DEF accumulate
  <2>. HIDE DEF a, p, acc
  <2>. QED
    BY <1>1, <2>1, FailedFacts
<1>. QED
  BY <1>2, <1>3

(***************************************************************************)
(* The splitter.                                                           *)
(***************************************************************************)

Mode == {"plain", "label", "escape", "single", "double", "backslash"}

Scanners == [mode : Mode, tokens : Seq(Text), cur : Text, in_token : BOOLEAN, label : Text]

LEMMA TextFacts ==
  /\ << >> \in Text
  /\ \A c \in Atoms : <<c>> \in Text
  /\ \A c, d \in Atoms : <<c, d>> \in Text
  /\ {" ", "'", "\"", "\\", "#"} \subseteq Atoms
  /\ \A a, b \in Text : a \o b \in Text
  /\ \A a \in Text, c \in Atoms : Append(a, c) \in Text
  /\ \A a \in Text : Len(a) \in Nat /\ \A i \in 1..Len(a) : a[i] \in Atoms
  /\ \A a \in Text : a \o << >> = a
<1>1. << >> \in Text
  BY DEF Text
<1>2. \A c \in Atoms : <<c>> \in Text
  BY DEF Text
<1>7. \A c, d \in Atoms : <<c, d>> \in Text
  BY DEF Text
<1>3. \A a, b \in Text : a \o b \in Text
  BY DEF Text
<1>4. \A a \in Text, c \in Atoms : Append(a, c) \in Text
  BY DEF Text
<1>5. \A a \in Text : Len(a) \in Nat /\ \A i \in 1..Len(a) : a[i] \in Atoms
  BY DEF Text
<1>6. \A a \in Text : a \o << >> = a
  BY DEF Text
<1>. QED
  BY <1>1, <1>2, <1>3, <1>4, <1>5, <1>6, <1>7, AtomsAssumption

LEMMA ScannerFacts == Scanner \in Scanners /\ Scanner.mode = "plain" /\ Scanner.tokens = << >>
                      /\ ~Scanner.in_token /\ Scanner.cur = << >> /\ Scanner.label = << >>
<1>1. << >> \in Text /\ << >> \in Seq(Text)
  BY TextFacts, EmptySeq
<1>. QED
  BY <1>1 DEF Scanner, Scanners, Mode

(* Pushing characters, and ending a word.                                  *)
LEMMA PushFacts ==
  ASSUME NEW s \in Scanners, NEW m \in Mode, NEW c \in Text
  PROVE  LET b == Push(s, m, c)
         IN  b \in Scanners /\ b.mode = m /\ b.tokens = s.tokens /\ b.cur = s.cur \o c
             /\ b.in_token /\ b.label = s.label
<1>. DEFINE b == Push(s, m, c)
<1>1. b = [s EXCEPT !.mode = m, !.cur = s.cur \o c, !.in_token = TRUE]
  BY DEF Push
<1>2. s.cur \o c \in Text
  BY TextFacts DEF Scanners
<1>. HIDE DEF b
<1>3. b \in Scanners /\ b.mode = m /\ b.tokens = s.tokens /\ b.cur = s.cur \o c
      /\ b.in_token /\ b.label = s.label
  BY <1>1, <1>2 DEF Scanners
<1>. QED
  BY <1>3 DEF b

LEMMA EndTokenFacts ==
  ASSUME NEW s \in Scanners
  PROVE  LET b == EndToken(s)
         IN  /\ b \in Scanners /\ b.mode = s.mode /\ b.label = s.label /\ ~b.in_token
             /\ s.in_token => b.tokens = Append(s.tokens, s.cur) /\ b.cur = << >>
             /\ ~s.in_token => b = s
<1>. DEFINE b == EndToken(s)
<1>. SUFFICES /\ b \in Scanners /\ b.mode = s.mode /\ b.label = s.label /\ ~b.in_token
              /\ s.in_token => b.tokens = Append(s.tokens, s.cur) /\ b.cur = << >>
              /\ ~s.in_token => b = s
  OBVIOUS
<1>1. CASE s.in_token
  <2>1. b = [s EXCEPT !.tokens = Append(s.tokens, s.cur), !.cur = << >>, !.in_token = FALSE]
    BY <1>1 DEF EndToken
  <2>2. Append(s.tokens, s.cur) \in Seq(Text) /\ << >> \in Text
    <3>1. s.tokens \in Seq(Text) /\ s.cur \in Text
      BY DEF Scanners
    <3>. QED
      BY <3>1, TextFacts, AppendProperties
  <2>. HIDE DEF b
  <2>. QED
    BY <1>1, <2>1, <2>2 DEF Scanners
<1>2. CASE ~s.in_token
  <2>1. b = s
    BY <1>2 DEF EndToken
  <2>. QED
    BY <1>2, <2>1
<1>. QED
  BY <1>1, <1>2

(* Changing the mode alone.                                                *)
LEMMA ModeFacts ==
  ASSUME NEW s \in Scanners, NEW m \in Mode
  PROVE  LET b == [s EXCEPT !.mode = m]
         IN  b \in Scanners /\ b.mode = m /\ b.tokens = s.tokens /\ b.cur = s.cur
             /\ b.in_token = s.in_token /\ b.label = s.label
BY DEF Scanners

(* The cases of a character outside quotes.                                *)
LEMMA PlainCases ==
  ASSUME NEW s \in Scanners, s.mode = "plain", NEW c
  PROVE  /\ c = " " => ScanChar(s, c) = EndToken(s)
         /\ c = "'" => ScanChar(s, c) = Push(s, "single", << >>)
         /\ c = "\"" => ScanChar(s, c) = Push(s, "double", << >>)
         /\ c = "\\" => ScanChar(s, c) = [s EXCEPT !.mode = "escape"]
         /\ c = "#" /\ ~s.in_token => ScanChar(s, c) = [s EXCEPT !.mode = "label"]
         /\ c \notin {" ", "'", "\"", "\\", "#"} => ScanChar(s, c) = Push(s, "plain", <<c>>)
         /\ c = "#" /\ s.in_token => ScanChar(s, c) = Push(s, "plain", <<c>>)
<1>. USE DEF ScanChar, Scanners
<1>1. c = " " => ScanChar(s, c) = EndToken(s)
  OBVIOUS
<1>2. c = "'" => ScanChar(s, c) = Push(s, "single", << >>)
  OBVIOUS
<1>3. c = "\"" => ScanChar(s, c) = Push(s, "double", << >>)
  OBVIOUS
<1>4. c = "\\" => ScanChar(s, c) = [s EXCEPT !.mode = "escape"]
  OBVIOUS
<1>5. c = "#" /\ ~s.in_token => ScanChar(s, c) = [s EXCEPT !.mode = "label"]
  OBVIOUS
<1>6. c \notin {" ", "'", "\"", "\\", "#"} => ScanChar(s, c) = Push(s, "plain", <<c>>)
  OBVIOUS
<1>7. c = "#" /\ s.in_token => ScanChar(s, c) = Push(s, "plain", <<c>>)
  OBVIOUS
<1>. QED
  BY <1>1, <1>2, <1>3, <1>4, <1>5, <1>6, <1>7

(* The cases of a character inside quotes, after a backslash, in a label.  *)
LEMMA OtherCases ==
  ASSUME NEW s, NEW c
  PROVE  /\ s.mode = "label" => ScanChar(s, c) = [s EXCEPT !.label = Append(s.label, c)]
         /\ s.mode = "escape" => ScanChar(s, c) = Push(s, "plain", <<c>>)
         /\ s.mode = "single" /\ c = "'" => ScanChar(s, c) = [s EXCEPT !.mode = "plain"]
         /\ s.mode = "single" /\ c # "'" => ScanChar(s, c) = Push(s, "single", <<c>>)
         /\ s.mode = "backslash" => ScanChar(s, c) = Push(s, "double", AfterBackslash(c))
         /\ s.mode = "double" /\ c = "\"" => ScanChar(s, c) = [s EXCEPT !.mode = "plain"]
         /\ s.mode = "double" /\ c = "\\" => ScanChar(s, c) = [s EXCEPT !.mode = "backslash"]
         /\ s.mode = "double" /\ c \notin {"\"", "\\"} => ScanChar(s, c) = Push(s, "double", <<c>>)
<1>. USE DEF ScanChar
<1>1. s.mode = "label" => ScanChar(s, c) = [s EXCEPT !.label = Append(s.label, c)]
  OBVIOUS
<1>2. s.mode = "escape" => ScanChar(s, c) = Push(s, "plain", <<c>>)
  OBVIOUS
<1>3. s.mode = "single" /\ c = "'" => ScanChar(s, c) = [s EXCEPT !.mode = "plain"]
  OBVIOUS
<1>4. s.mode = "single" /\ c # "'" => ScanChar(s, c) = Push(s, "single", <<c>>)
  OBVIOUS
<1>5. s.mode = "backslash" => ScanChar(s, c) = Push(s, "double", AfterBackslash(c))
  OBVIOUS
<1>6. s.mode = "double" /\ c = "\"" => ScanChar(s, c) = [s EXCEPT !.mode = "plain"]
  OBVIOUS
<1>7. s.mode = "double" /\ c = "\\" => ScanChar(s, c) = [s EXCEPT !.mode = "backslash"]
  OBVIOUS
<1>8. s.mode = "double" /\ c \notin {"\"", "\\"} => ScanChar(s, c) = Push(s, "double", <<c>>)
  OBVIOUS
<1>. QED
  BY <1>1, <1>2, <1>3, <1>4, <1>5, <1>6, <1>7, <1>8

(* A scan has begun a word, or is about to; nothing has come but blanks;   *)
(* or a label has come first.                                              *)
Busy(s) == s.tokens # << >> \/ (s.mode # "label" /\ (s.in_token \/ s.mode = "escape"))
Quiet(s) == s.tokens = << >> /\ s.mode = "plain" /\ ~s.in_token /\ s.label = << >>
Labelled(s) == s.tokens = << >> /\ s.mode = "label" /\ ~s.in_token

(* One character.                                                          *)
LEMMA CharFacts ==
  ASSUME NEW s \in Scanners, NEW c \in Atoms
  PROVE  LET b == ScanChar(s, c)
         IN  /\ b \in Scanners
             /\ Busy(s) => Busy(b)
             /\ Labelled(s) => Labelled(b)
             /\ Quiet(s) => IF c = " " THEN Quiet(b) ELSE IF c = "#" THEN Labelled(b) ELSE Busy(b)
<1>. DEFINE b == ScanChar(s, c)
            Good == /\ b \in Scanners
                    /\ Busy(s) => Busy(b)
                    /\ Labelled(s) => Labelled(b)
                    /\ Quiet(s) => IF c = " " THEN Quiet(b) ELSE IF c = "#" THEN Labelled(b)
                                   ELSE Busy(b)
<1>. SUFFICES Good
  OBVIOUS
<1>0. <<c>> \in Text /\ << >> \in Text /\ AfterBackslash(c) \in Text
  <2>1. <<"\\", c>> \in Text
    BY TextFacts
  <2>2. AfterBackslash(c) = <<c>> \/ AfterBackslash(c) = <<"\\", c>>
    BY DEF AfterBackslash
  <2>. QED
    BY <2>1, <2>2, TextFacts
<1>1. CASE s.mode = "label"
  <2>1. b = [s EXCEPT !.label = Append(s.label, c)]
    BY <1>1, OtherCases
  <2>2. Append(s.label, c) \in Text
    BY TextFacts DEF Scanners
  <2>3. b \in Scanners /\ b.mode = s.mode /\ b.tokens = s.tokens /\ b.in_token = s.in_token
    <3>. HIDE DEF b
    <3>. QED
      BY <2>1, <2>2 DEF Scanners
  <2>. HIDE DEF b
  <2>. QED
    BY <1>1, <2>3 DEF Busy, Labelled, Quiet
<1>2. ASSUME NEW m \in Mode, m # "label", NEW w \in Text, b = Push(s, m, w), s.mode # "label",
             s.mode = "plain" => c \notin {" ", "#"} \/ s.in_token
      PROVE  Good
  <2>0. Push(s, m, w) \in Scanners /\ Push(s, m, w).mode = m /\ Push(s, m, w).in_token
    BY <1>2, PushFacts
  <2>1. b \in Scanners /\ b.mode = m /\ b.in_token
    BY <1>2, <2>0
  <2>2. s.mode = "plain" /\ s.in_token => ~Quiet(s)
    BY DEF Quiet
  <2>. HIDE DEF b
  <2>. QED
    BY <1>2, <2>1, <2>2 DEF Busy, Labelled, Quiet
<1>3. ASSUME NEW m \in Mode, b = [s EXCEPT !.mode = m], s.mode # "label",
             m # "label" \/ (c = "#" /\ ~s.in_token /\ s.mode = "plain"),
             s.mode = "plain" => m # "plain" /\ (m # "label" => m = "escape" /\ c \notin {" ", "#"}),
             s.mode # "plain" => s.mode # "escape"
      PROVE  Good
  <2>. DEFINE d == [s EXCEPT !.mode = m]
  <2>0. d \in Scanners /\ d.mode = m /\ d.tokens = s.tokens /\ (d.in_token <=> s.in_token)
        /\ d.label = s.label
    BY <1>3, ModeFacts
  <2>1. b \in Scanners /\ b.mode = m /\ b.tokens = s.tokens /\ (b.in_token <=> s.in_token)
        /\ b.label = s.label
    <3>. HIDE DEF b, d
    <3>1. b = d
      BY <1>3 DEF d
    <3>. QED
      BY <2>0, <3>1
  <2>2. c = "#" => c # " "
    OBVIOUS
  <2>. HIDE DEF b
  <2>. QED
    BY <1>3, <2>1, <2>2 DEF Busy, Labelled, Quiet
<1>4. CASE s.mode = "escape"
  BY <1>0, <1>2, <1>4, OtherCases DEF Mode
<1>5. CASE s.mode = "single"
  BY <1>0, <1>2, <1>3, <1>5, OtherCases DEF Mode
<1>6. CASE s.mode = "backslash"
  BY <1>0, <1>2, <1>6, OtherCases DEF Mode
<1>7. CASE s.mode = "double"
  BY <1>0, <1>2, <1>3, <1>7, OtherCases DEF Mode
<1>8. CASE s.mode = "plain"
  <2>1. CASE c = " "
    <3>1. b = EndToken(s)
      BY <1>8, <2>1, PlainCases
    <3>2. /\ b \in Scanners /\ b.mode = s.mode /\ b.label = s.label /\ ~b.in_token
          /\ s.in_token => b.tokens = Append(s.tokens, s.cur) /\ b.cur = << >>
          /\ ~s.in_token => b = s
      BY <3>1, EndTokenFacts
    <3>3. Append(s.tokens, s.cur) # << >>
      BY AppendProperties DEF Scanners
    <3>. HIDE DEF b
    <3>. QED
      BY <1>8, <2>1, <3>2, <3>3 DEF Busy, Labelled, Quiet
  <2>2. CASE c \in {"'", "\""}
    BY <1>0, <1>2, <1>8, <2>2, PlainCases DEF Mode
  <2>3. CASE c = "\\"
    BY <1>0, <1>3, <1>8, <2>3, PlainCases DEF Mode
  <2>4. CASE c = "#" /\ ~s.in_token
    BY <1>0, <1>3, <1>8, <2>4, PlainCases DEF Mode
  <2>5. CASE c \notin {" ", "'", "\"", "\\", "#"} \/ (c = "#" /\ s.in_token)
    BY <1>0, <1>2, <1>8, <2>5, PlainCases DEF Mode
  <2>. QED
    BY <2>1, <2>2, <2>3, <2>4, <2>5
<1>9. s.mode \in Mode
  BY DEF Scanners
<1>. QED
  BY <1>1, <1>4, <1>5, <1>6, <1>7, <1>8, <1>9 DEF Mode

(* Of some numbers up to n there is a least and a greatest.                *)
LEMMA Extremes ==
  ASSUME NEW n \in Nat, NEW T \in SUBSET (1..n), T # {}
  PROVE  /\ \E i \in T : \A j \in T : i <= j
         /\ \E i \in T : \A j \in T : j <= i
<1>. DEFINE Low == {m \in 0..n : (\E i \in T : i <= m) => \E g \in T : \A j \in T : g <= j}
            High == {m \in 0..n : (\E i \in T : i <= m) =>
                                    \E g \in T : \A j \in T : j <= m => j <= g}
<1>1. 0 \in Low /\ 0 \in High
  OBVIOUS
<1>2. ASSUME NEW m \in 1..n, m - 1 \in Low PROVE m \in Low
  <2>1. CASE \E i \in T : i <= m - 1
    BY <1>2, <2>1
  <2>2. CASE ~ \E i \in T : i <= m - 1
    <3>1. \A j \in T : m <= j
      BY <2>2
    <3>. QED
      BY <3>1
  <2>. QED
    BY <2>1, <2>2
<1>3. ASSUME NEW m \in 1..n, m - 1 \in High PROVE m \in High
  <2>1. CASE m \in T
    BY <2>1
  <2>2. CASE m \notin T
    <3>1. \A j \in T : j <= m <=> j <= m - 1
      BY <2>2
    <3>. QED
      BY <1>3, <3>1
  <2>. QED
    BY <2>1, <2>2
<1>4. n \in Low /\ n \in High
  <2>. HIDE DEF Low, High
  <2>1. \A i \in 0..n : i \in Low
    BY <1>1, <1>2, UpTo
  <2>2. \A i \in 0..n : i \in High
    BY <1>1, <1>3, UpTo
  <2>. QED
    BY <2>1, <2>2
<1>5. \A i \in T : i <= n
  OBVIOUS
<1>. QED
  BY <1>4, <1>5

(* The text between its first and its last character that is not a blank.  *)
Solid(text, i, j) ==
  /\ i \in 1..Len(text) /\ j \in 1..Len(text) /\ i <= j
  /\ text[i] # " " /\ text[j] # " "
  /\ \A k \in 1..Len(text) : text[k] # " " => i <= k /\ k <= j

Cut(t, text, i, j) == Solid(text, i, j) /\ t = SubSeq(text, i, j)

LEMMA TrimFacts ==
  ASSUME NEW text \in Text
  PROVE  \/ (\A k \in 1..Len(text) : text[k] = " ") /\ Trim(text) = << >>
         \/ \E i, j \in 1..Len(text) : Cut(Trim(text), text, i, j)
<1>. DEFINE n == Len(text)
            T == {i \in DOMAIN text : text[i] # " "}
<1>1. n \in Nat /\ DOMAIN text = 1..n
  BY DEF Text
<1>2. CASE T = {}
  BY <1>1, <1>2 DEF Trim
<1>3. CASE T # {}
  <2>. DEFINE i == CHOOSE i \in T : \A j \in T : i <= j
              j == CHOOSE j \in T : \A k \in T : k <= j
  <2>1. T \in SUBSET (1..n)
    BY <1>1
  <2>2. /\ \E k \in T : \A m \in T : k <= m
        /\ \E k \in T : \A m \in T : m <= k
    <3>. HIDE DEF T
    <3>. QED
      BY <1>1, <1>3, <2>1, Extremes
  <2>3. i \in T /\ \A m \in T : i <= m
    <3>. HIDE DEF T
    <3>. QED
      BY <2>2
  <2>4. j \in T /\ \A m \in T : m <= j
    <3>. HIDE DEF T
    <3>. QED
      BY <2>2
  <2>5. Trim(text) = SubSeq(text, i, j)
    BY <1>3 DEF Trim
  <2>. HIDE DEF i, j
  <2>6. Solid(text, i, j) /\ i \in 1..n /\ j \in 1..n
    BY <1>1, <2>3, <2>4 DEF Solid
  <2>7. Cut(Trim(text), text, i, j)
    BY <2>5, <2>6, Zenon DEF Cut
  <2>. QED
    BY <2>6, <2>7
<1>. QED
  BY <1>2, <1>3

LEMMA SolidTrim ==
  ASSUME NEW text \in Text, NEW i \in 1..Len(text), NEW j \in 1..Len(text), NEW t,
         Cut(t, text, i, j)
  PROVE  /\ t \in Text /\ Len(t) = j - i + 1 /\ t # << >> /\ t[1] = text[i]
         /\ \A k \in 1..(j - i + 1) : t[k] = text[i + k - 1]
<1>1. Len(text) \in Nat /\ i \in 1..Len(text) /\ j \in 1..Len(text) /\ i <= j
  <2>1. Len(text) \in Nat
    BY DEF Text
  <2>. QED
    BY <2>1 DEF Solid, Cut
<1>2. \A k \in i..j : text[k] \in Atoms
  BY <1>1 DEF Text
<1>3. t \in Seq(Atoms) /\ Len(t) = j - i + 1 /\ \A k \in 1..(j - i + 1) : t[k] = text[i + k - 1]
  BY <1>1, <1>2, SubSeqProperties DEF Text, Cut
<1>4. j - i + 1 \in Nat /\ 1 \in 1..(j - i + 1) /\ i + 1 - 1 = i
  BY <1>1
<1>5. t # << >> /\ t[1] = text[i]
  BY <1>1, <1>3, <1>4
<1>. QED
  BY <1>3, <1>5 DEF Text

(* A scan stays a scan.                                                    *)
LEMMA ScannedType ==
  ASSUME NEW text \in Text, NEW s \in Scanners, NEW after, Scanned(after, s, text, Len(text))
  PROVE  \A i \in 0..Len(text) : after[i] \in Scanners
<1>. DEFINE S == {i \in 0..Len(text) : after[i] \in Scanners}
<1>1. Len(text) \in Nat
  BY DEF Text
<1>2. 0 \in S
  BY <1>1 DEF Scanned
<1>3. ASSUME NEW i \in 1..Len(text), i - 1 \in S PROVE i \in S
  <2>1. after[i - 1] \in Scanners /\ text[i] \in Atoms
    BY <1>1, <1>3, TextFacts
  <2>2. after[i] = ScanChar(after[i - 1], text[i])
    BY DEF Scanned
  <2>3. after[i] \in Scanners
    BY <2>1, <2>2, CharFacts
  <2>. QED
    BY <2>3
<1>4. \A i \in 0..Len(text) : i \in S
  <2>. HIDE DEF S
  <2>. QED
    BY <1>1, <1>2, <1>3, UpTo
<1>. QED
  BY <1>4

LEMMA ScanType ==
  ASSUME NEW text \in Text, NEW s \in Scanners
  PROVE  Scan(s, text) \in Scanners
<1>1. Len(text) \in Nat /\ Len(text) \in 0..Len(text)
  BY DEF Text
<1>2. PICK after : Scanned(after, s, text, Len(text)) /\ Scan(s, text) = after[Len(text)]
  BY <1>1, ScanPositions
<1>. QED
  BY <1>1, <1>2, ScannedType

(* A text of blanks, or a comment, leaves the scanner without a word; any  *)
(* other has it hold one or fail.                                          *)
LEMMA ScanVerdict ==
  ASSUME NEW text \in Text
  PROVE  LET s == Scan(Scanner, text)
         IN  IF HoldsCommand(text) THEN Busy(s) ELSE Quiet(s) \/ Labelled(s)
<1>. DEFINE n == Len(text)
            s == Scan(Scanner, text)
<1>. SUFFICES IF HoldsCommand(text) THEN Busy(s) ELSE Quiet(s) \/ Labelled(s)
  OBVIOUS
<1>1. n \in Nat /\ n \in 0..n /\ \A i \in 1..n : text[i] \in Atoms
  BY DEF Text
<1>2. PICK after : Scanned(after, Scanner, text, n) /\ s = after[n]
  BY <1>1, ScanPositions
<1>. HIDE DEF s
<1>3. \A i \in 0..n : after[i] \in Scanners
  BY <1>2, ScannedType, ScannerFacts
<1>4. after[0] = Scanner /\ \A i \in 1..n : after[i] = ScanChar(after[i - 1], text[i])
  BY <1>2 DEF Scanned
<1>5. ASSUME NEW i \in 1..n
      PROVE  /\ Busy(after[i - 1]) => Busy(after[i])
             /\ Labelled(after[i - 1]) => Labelled(after[i])
             /\ Quiet(after[i - 1]) => IF text[i] = " " THEN Quiet(after[i])
                                       ELSE IF text[i] = "#" THEN Labelled(after[i])
                                       ELSE Busy(after[i])
  <2>1. i - 1 \in 0..n
    BY <1>1
  <2>. QED
    BY <1>1, <1>3, <1>4, <2>1, CharFacts
<1>6. Quiet(after[0])
  BY <1>4, ScannerFacts DEF Quiet
<1>7. CASE (\A k \in 1..n : text[k] = " ") /\ Trim(text) = << >>
  <2>. DEFINE S == {i \in 0..n : Quiet(after[i])}
  <2>1. 0 \in S
    BY <1>1, <1>6
  <2>2. ASSUME NEW i \in 1..n, i - 1 \in S PROVE i \in S
    <3>1. Quiet(after[i - 1]) /\ text[i] = " "
      BY <1>7, <2>2
    <3>2. Quiet(after[i])
      BY <1>5, <3>1
    <3>. QED
      BY <1>1, <3>2
  <2>3. \A i \in 0..n : i \in S
    <3>. HIDE DEF S
    <3>. QED
      BY <1>1, <2>1, <2>2, UpTo
  <2>4. ~HoldsCommand(text)
    BY <1>7 DEF HoldsCommand, Blank
  <2>. QED
    BY <1>1, <1>2, <2>3, <2>4
<1>8. ASSUME NEW i \in 1..n, NEW j \in 1..n, Cut(Trim(text), text, i, j)
      PROVE  IF HoldsCommand(text) THEN Busy(s) ELSE Quiet(s) \/ Labelled(s)
  <2>1. Trim(text) # << >> /\ Trim(text)[1] = text[i]
    BY <1>8, SolidTrim
  <2>2. HoldsCommand(text) <=> text[i] # "#"
    BY <2>1 DEF HoldsCommand, Blank
  <2>3. text[i] # " " /\ \A k \in 1..n : k < i => text[k] = " "
    <3>1. text[i] # " " /\ \A k \in 1..n : text[k] # " " => i <= k
      BY <1>8 DEF Solid, Cut
    <3>2. \A k \in 1..n : ~(k < i /\ i <= k)
      BY <1>1
    <3>. QED
      BY <3>1, <3>2, Zenon
  <2>. DEFINE Verdict(k) == IF k < i THEN Quiet(after[k])
                            ELSE IF text[i] = "#" THEN Labelled(after[k]) ELSE Busy(after[k])
              S == {k \in 0..n : Verdict(k)}
  <2>4. 0 \in S
    BY <1>1, <1>6
  <2>5. ASSUME NEW k \in 1..n, k - 1 \in S PROVE k \in S
    <3>1. Verdict(k - 1)
      BY <2>5
    <3>2. CASE k < i
      <4>0. k - 1 < i
        BY <1>1, <3>2
      <4>1. Quiet(after[k - 1]) /\ text[k] = " "
        BY <2>3, <3>1, <3>2, <4>0
      <4>2. Quiet(after[k])
        BY <1>5, <4>1
      <4>. QED
        BY <3>2, <4>2
    <3>3. CASE k = i
      <4>1. Quiet(after[k - 1])
        BY <1>1, <3>1, <3>3
      <4>2. IF text[i] = "#" THEN Labelled(after[k]) ELSE Busy(after[k])
        BY <1>5, <2>3, <3>3, <4>1
      <4>. QED
        BY <3>3, <4>2
    <3>4. CASE k > i
      <4>1. IF text[i] = "#" THEN Labelled(after[k - 1]) ELSE Busy(after[k - 1])
        BY <1>1, <3>1, <3>4
      <4>2. IF text[i] = "#" THEN Labelled(after[k]) ELSE Busy(after[k])
        BY <1>5, <4>1
      <4>. QED
        BY <3>4, <4>2
    <3>. QED
      BY <1>1, <3>2, <3>3, <3>4
  <2>6. n \in S
    <3>. HIDE DEF S
    <3>1. \A k \in 0..n : k \in S
      BY <1>1, <2>4, <2>5, UpTo
    <3>. QED
      BY <1>1, <3>1
  <2>. QED
    BY <1>1, <1>2, <2>2, <2>6
<1>. QED
  BY <1>7, <1>8, TrimFacts

(* What run_batch makes of a line: nothing for a blank one or a comment;   *)
(* words, or an error, for any other.                                      *)
LEMMA SplitFacts ==
  ASSUME NEW text \in Text
  PROVE  LET s == split_line(text)
         IN  /\ s = [ok |-> s.ok, tokens |-> s.tokens, label |-> s.label] /\ s.ok \in BOOLEAN
             /\ s.tokens \in Seq(Text) /\ Len(s.tokens) \in Nat
             /\ HoldsCommand(text) <=> ~s.ok \/ s.tokens # << >>
<1>. DEFINE r == Scan(Scanner, text)
            e == EndToken(r)
            s == split_line(text)
<1>. SUFFICES /\ s = [ok |-> s.ok, tokens |-> s.tokens, label |-> s.label] /\ s.ok \in BOOLEAN
              /\ s.tokens \in Seq(Text) /\ Len(s.tokens) \in Nat
              /\ HoldsCommand(text) <=> ~s.ok \/ s.tokens # << >>
  OBVIOUS
<1>1. r \in Scanners
  BY ScanType, ScannerFacts
<1>2. IF HoldsCommand(text) THEN Busy(r) ELSE Quiet(r) \/ Labelled(r)
  BY ScanVerdict
<1>3. /\ e \in Scanners /\ e.mode = r.mode /\ ~e.in_token
      /\ r.in_token => e.tokens = Append(r.tokens, r.cur)
      /\ ~r.in_token => e = r
  <2>. HIDE DEF r
  <2>. QED
    BY <1>1, EndTokenFacts
<1>4. s = [ok |-> e.mode \in {"plain", "label"}, tokens |-> e.tokens, label |-> Trim(e.label)]
  BY DEF split_line
<1>5. Append(r.tokens, r.cur) # << >>
  <2>. HIDE DEF r
  <2>. QED
    BY <1>1, AppendProperties DEF Scanners
<1>. HIDE DEF r, e, s
<1>6. s.tokens = e.tokens /\ (s.ok <=> e.mode \in {"plain", "label"}) /\ s.ok \in BOOLEAN
      /\ s = [ok |-> s.ok, tokens |-> s.tokens, label |-> s.label]
  <2>. DEFINE ok == e.mode \in {"plain", "label"}
  <2>1. ok \in BOOLEAN
    OBVIOUS
  <2>2. s = [ok |-> ok, tokens |-> e.tokens, label |-> Trim(e.label)]
    BY <1>4
  <2>. HIDE DEF ok
  <2>3. s.tokens = e.tokens /\ s.ok = ok /\ s = [ok |-> s.ok, tokens |-> s.tokens, label |-> s.label]
    BY <2>2
  <2>4. (s.ok <=> ok) /\ s.ok \in BOOLEAN
    BY <2>1, <2>3
  <2>. QED
    BY <2>3, <2>4 DEF ok
<1>7. e.tokens \in Seq(Text) /\ Len(e.tokens) \in Nat
  BY <1>3 DEF Scanners
<1>8. CASE HoldsCommand(text)
  <2>1. Busy(r)
    BY <1>2, <1>8
  <2>2. CASE r.in_token
    BY <1>3, <1>5, <1>6, <1>7, <1>8, <2>2
  <2>3. CASE ~r.in_token
    BY <1>3, <1>6, <1>7, <1>8, <2>1, <2>3 DEF Busy
  <2>. QED
    BY <2>2, <2>3
<1>9. CASE ~HoldsCommand(text)
  <2>1. Quiet(r) \/ Labelled(r)
    BY <1>2, <1>9
  <2>. QED
    BY <1>3, <1>6, <1>7, <1>9, <2>1 DEF Quiet, Labelled
<1>. QED
  BY <1>8, <1>9

(***************************************************************************)
(* Lines as they are typed.                                                *)
(***************************************************************************)

LEMMA JoinedType ==
  ASSUME NEW texts \in Seq(Text), NEW upto, JoinedUp(upto, texts, Len(texts))
  PROVE  \A i \in 0..Len(texts) : upto[i] \in Text
<1>. DEFINE n == Len(texts)
            S == {i \in 0..n : upto[i] \in Text}
<1>1. n \in Nat /\ \A i \in 1..n : texts[i] \in Text
  OBVIOUS
<1>2. 0 \in S
  <2>1. upto[0] = << >> /\ << >> \in Text
    BY TextFacts DEF JoinedUp
  <2>. QED
    BY <1>1, <2>1
<1>3. ASSUME NEW i \in 1..n, i - 1 \in S PROVE i \in S
  <2>1. upto[i] = upto[i - 1] \o texts[i]
    BY DEF JoinedUp
  <2>2. upto[i - 1] \in Text /\ texts[i] \in Text
    BY <1>1, <1>3
  <2>3. upto[i] \in Text
    BY <2>1, <2>2, TextFacts
  <2>. QED
    BY <2>3
<1>4. \A i \in 0..n : i \in S
  <2>. HIDE DEF S
  <2>. QED
    BY <1>1, <1>2, <1>3, UpTo
<1>. QED
  BY <1>4

LEMMA JoinedIsText ==
  ASSUME NEW texts \in Seq(Text)
  PROVE  Joined(texts) \in Text
<1>1. Len(texts) \in Nat /\ Len(texts) \in 0..Len(texts)
  OBVIOUS
<1>2. PICK upto : JoinedUp(upto, texts, Len(texts)) /\ Joined(texts) = upto[Len(texts)]
  BY <1>1, JoinedPositions
<1>. QED
  BY <1>1, <1>2, JoinedType

(* A character as it is typed in each style.                               *)
LEMMA SpellingFacts ==
  ASSUME NEW c \in Atoms, NEW i
  PROVE  InSingle(c) \in Text /\ InDouble(c) \in Text /\ Unquoted(c, i) \in Text
<1>1. InSingle(c) \in {<<"'", "\\", "'", "'">>, <<c>>}
  BY DEF InSingle
<1>2. InDouble(c) \in {<<"\\", c>>, <<c>>}
  BY DEF InDouble
<1>3. Unquoted(c, i) \in {<<"\\", c>>, <<c>>}
  BY DEF Unquoted
<1>4. <<"'", "\\", "'", "'">> \in Text
  <2>1. ASSUME NEW a \in Atoms, NEW b \in Atoms PROVE <<a, b, a, a>> \in Seq(Atoms)
    OBVIOUS
  <2>. QED
    BY <2>1, AtomsAssumption DEF Text
<1>5. <<"\\", c>> \in Text /\ <<c>> \in Text
  BY TextFacts
<1>. QED
  BY <1>1, <1>2, <1>3, <1>4, <1>5

LEMMA SpelledFacts ==
  ASSUME NEW token \in Text
  PROVE  /\ [i \in DOMAIN token |-> InSingle(token[i])] \in Seq(Text)
         /\ Len([i \in DOMAIN token |-> InSingle(token[i])]) = Len(token)
         /\ [i \in DOMAIN token |-> InDouble(token[i])] \in Seq(Text)
         /\ Len([i \in DOMAIN token |-> InDouble(token[i])]) = Len(token)
         /\ [i \in DOMAIN token |-> Unquoted(token[i], i)] \in Seq(Text)
         /\ Len([i \in DOMAIN token |-> Unquoted(token[i], i)]) = Len(token)
<1>1. Len(token) \in Nat /\ DOMAIN token = 1..Len(token) /\ \A i \in DOMAIN token : token[i] \in Atoms
  BY DEF Text
<1>2. \A i \in DOMAIN token : /\ InSingle(token[i]) \in Text
                              /\ InDouble(token[i]) \in Text
                              /\ Unquoted(token[i], i) \in Text
  BY <1>1, SpellingFacts
<1>3. ASSUME NEW f, f = [i \in DOMAIN token |-> f[i]], \A i \in DOMAIN token : f[i] \in Text
      PROVE  f \in Seq(Text) /\ Len(f) = Len(token)
  <2>1. f \in [1..Len(token) -> Text]
    BY <1>1, <1>3
  <2>. QED
    BY <1>1, <2>1
<1>. DEFINE a == [i \in DOMAIN token |-> InSingle(token[i])]
            b == [i \in DOMAIN token |-> InDouble(token[i])]
            c == [i \in DOMAIN token |-> Unquoted(token[i], i)]
<1>4. /\ a = [i \in DOMAIN token |-> a[i]] /\ \A i \in DOMAIN token : a[i] \in Text
      /\ b = [i \in DOMAIN token |-> b[i]] /\ \A i \in DOMAIN token : b[i] \in Text
      /\ c = [i \in DOMAIN token |-> c[i]] /\ \A i \in DOMAIN token : c[i] \in Text
  BY <1>2
<1>. HIDE DEF a, b, c
<1>5. /\ a \in Seq(Text) /\ Len(a) = Len(token)
      /\ b \in Seq(Text) /\ Len(b) = Len(token)
      /\ c \in Seq(Text) /\ Len(c) = Len(token)
  BY <1>3, <1>4
<1>. QED
  BY <1>5 DEF a, b, c

LEMMA QuotedFacts ==
  ASSUME NEW token \in Text, NEW style
  PROVE  Quoted(token, style) \in Text
<1>. DEFINE a == Joined([i \in DOMAIN token |-> InSingle(token[i])])
            b == Joined([i \in DOMAIN token |-> InDouble(token[i])])
            c == Joined([i \in DOMAIN token |-> Unquoted(token[i], i)])
<1>1. a \in Text /\ b \in Text /\ c \in Text
  BY SpelledFacts, JoinedIsText
<1>2. Quoted(token, style) \in {<<"'">> \o a \o <<"'">>, <<"\"">> \o b \o <<"\"">>, c}
  BY DEF Quoted
<1>. HIDE DEF a, b, c
<1>3. <<"'">> \in Text /\ <<"\"">> \in Text
  BY TextFacts
<1>4. <<"'">> \o a \in Text /\ <<"\"">> \o b \in Text
  BY <1>1, <1>3, TextFacts
<1>5. <<"'">> \o a \o <<"'">> \in Text /\ <<"\"">> \o b \o <<"\"">> \in Text
  BY <1>3, <1>4, TextFacts
<1>. QED
  BY <1>1, <1>2, <1>5

WordsTyped(l) == [i \in DOMAIN l.words |-> Quoted(l.words[i], l.style) \o <<" ">>]
LabelTyped(l) == IF l.label = << >> THEN << >> ELSE <<"#", " ">> \o l.label

LineShape(l) ==
  /\ l \in [words : Seq(Text), style : {"plain", "single", "double"}, label : Text]
  /\ Trim(l.label) = l.label

LEMMA TypedFacts ==
  ASSUME NEW l, LineShape(l)
  PROVE  /\ WordsTyped(l) \in Seq(Text) /\ Len(WordsTyped(l)) = Len(l.words)
         /\ Joined(WordsTyped(l)) \in Text
         /\ LabelTyped(l) \in Text
         /\ Typed(l) = Joined(WordsTyped(l)) \o LabelTyped(l)
         /\ Typed(l) \in Text
<1>1. l.words \in Seq(Text) /\ l.label \in Text
  BY DEF LineShape
<1>2. DOMAIN l.words = 1..Len(l.words) /\ Len(l.words) \in Nat
      /\ \A i \in 1..Len(l.words) : l.words[i] \in Text
  BY <1>1
<1>3. \A i \in DOMAIN l.words : Quoted(l.words[i], l.style) \o <<" ">> \in Text
  <2>1. <<" ">> \in Text
    BY TextFacts
  <2>. QED
    BY <1>2, <2>1, QuotedFacts, TextFacts
<1>4. WordsTyped(l) \in Seq(Text) /\ Len(WordsTyped(l)) = Len(l.words)
  <2>. DEFINE w == WordsTyped(l)
  <2>1. w = [i \in 1..Len(l.words) |-> w[i]] /\ \A i \in 1..Len(l.words) : w[i] \in Text
    BY <1>2, <1>3 DEF WordsTyped
  <2>. HIDE DEF w
  <2>2. w \in [1..Len(l.words) -> Text]
    BY <2>1
  <2>3. w \in Seq(Text) /\ Len(w) = Len(l.words)
    BY <1>2, <2>2
  <2>. QED
    BY <2>3 DEF w
<1>5. Joined(WordsTyped(l)) \in Text
  BY <1>4, JoinedIsText
<1>6. LabelTyped(l) \in Text
  BY <1>1, TextFacts DEF LabelTyped
<1>7. Typed(l) = Joined(WordsTyped(l)) \o LabelTyped(l)
  BY DEF Typed, WordsTyped, LabelTyped
<1>8. Joined(WordsTyped(l)) \o LabelTyped(l) \in Text
  BY <1>5, <1>6, TextFacts
<1>. QED
  BY <1>4, <1>5, <1>6, <1>7, <1>8

(* Whatever a line is read from, it is a text.                             *)
LEMMA LineFacts ==
  /\ \A l \in Lines : LineShape(l) /\ Typed(l) \in Text
  /\ \A text \in RawLines : text \in Text
BY LinesAssumption, RawLinesAssumption, TypedFacts DEF LineShape

(***************************************************************************)
(* What comes of the arguments and of a line.                              *)
(***************************************************************************)

IsOutcome(o) == o = [kind |-> o.kind, args |-> o.args, acc |-> o.acc]

(* A flag that a command takes is one it reads, or one that the driver     *)
(* reads; only info takes another, --limit.                                *)
LEMMA AcceptedIsRead ==
  ASSUME NEW c \in CommandNames, NEW f \in VALUE_FLAGS \cup BareFlags, accepts_flag(c, f)
  PROVE  f \in (Reads(c) \cup {"--json", "--batch"}) \cup TakenUnread(c)
<1>1. c \in {"info", "list", "dump", "summary", "snapshot", "compare", "search", "tree", "trace"}
  BY DEF CommandNames
<1>. USE DEF accepts_flag, Reads, SelectionFlags, Selecting, VALUE_FLAGS, BareFlags, TakenUnread
<1>2. CASE c \in {"info", "trace", "tree"}
  BY <1>2
<1>3. CASE c \in {"list", "snapshot", "compare"}
  BY <1>3
<1>4. CASE c \in {"dump", "summary", "search"}
  BY <1>4
<1>. QED
  BY <1>1, <1>2, <1>3, <1>4

LEMMA CheckedIsRead ==
  ASSUME NEW acc, Sound(acc), acc.command # "none", check_command_flags(acc.command, acc)
  PROVE  Spelled(acc) \ (Reads(acc.command) \cup {"--json", "--batch"})
           \subseteq TakenUnread(acc.command)
<1>1. acc.command \in CommandNames
  BY DEF Sound
<1>2. \A f \in Spelled(acc) : f \in VALUE_FLAGS \cup BareFlags
  BY DEF Spelled, Sound, VALUE_FLAGS
<1>3. \A f \in Spelled(acc) : accepts_flag(acc.command, f)
  BY DEF check_command_flags
<1>4. \A f \in Spelled(acc) :
        f \in (Reads(acc.command) \cup {"--json", "--batch"}) \cup TakenUnread(acc.command)
  BY <1>1, <1>2, <1>3, AcceptedIsRead
<1>. QED
  BY <1>4

Heeded(o) == o.kind = "Run" => Unread(o) \subseteq TakenUnread(o.args.command)

LEMMA SingleFacts ==
  ASSUME NEW acc, Sound(acc)
  PROVE  resolve_single(acc).acc = acc /\ Heeded(resolve_single(acc))
<1>. DEFINE o == resolve_single(acc)
            c == acc.command
            a == [command |-> c, opt |-> acc.opt, condition |-> acc.condition,
                  set |-> acc.set \cap {"--exact", "--verbose", "--control"},
                  target |-> TargetAt(acc.positionals, 2),
                  load |-> dir_override(acc) = "load"]
<1>1. \/ o = Outcome("Print", Nothing, acc)
      \/ o = Outcome("Error", Nothing, acc)
      \/ o = Outcome("Run", a, acc) /\ c # "none" /\ check_command_flags(c, acc)
  BY DEF resolve_single
<1>2. a.command = c
  OBVIOUS
<1>. HIDE DEF o, a
<1>3. CASE o = Outcome("Print", Nothing, acc) \/ o = Outcome("Error", Nothing, acc)
  <2>1. o.acc = acc /\ o.kind # "Run"
    BY <1>3 DEF Outcome
  <2>. QED
    BY <2>1 DEF Heeded, o
<1>4. CASE o = Outcome("Run", a, acc) /\ c # "none" /\ check_command_flags(c, acc)
  <2>1. o.acc = acc /\ o.args = a
    BY <1>4 DEF Outcome
  <2>2. Spelled(acc) \ (Reads(c) \cup {"--json", "--batch"}) \subseteq TakenUnread(c)
    BY <1>4, CheckedIsRead
  <2>3. Unread(o) \subseteq TakenUnread(o.args.command)
    BY <1>2, <2>1, <2>2 DEF Unread
  <2>. QED
    BY <2>1, <2>3 DEF Heeded, o
<1>. QED
  BY <1>1, <1>3, <1>4

LEMMA BatchFacts ==
  ASSUME NEW acc
  PROVE  resolve_batch(acc).acc = acc /\ resolve_batch(acc).kind # "Run"
BY DEF resolve_batch, Outcome

LEMMA ParseFacts ==
  ASSUME NEW tokens, Len(tokens) \in Nat
  PROVE  LET o == parse(tokens)
         IN  /\ Heeded(o)
             /\ ~Prescan(tokens).print /\ o.acc.ok =>
                  (Prescan(tokens).batch <=> "--batch" \in o.acc.set)
<1>. DEFINE p == Prescan(tokens)
            o == parse(tokens)
            acc == accumulate(tokens, p.batch)
<1>. SUFFICES Heeded(o) /\ (~p.print /\ o.acc.ok => (p.batch <=> "--batch" \in o.acc.set))
  OBVIOUS
<1>1. Sound(acc) /\ (~p.print /\ acc.ok => (p.batch <=> "--batch" \in acc.set))
  <2>. HIDE DEF p
  <2>1. \A b : LET a == accumulate(tokens, b)
               IN  Sound(a) /\ (~p.print /\ a.ok => (p.batch <=> "--batch" \in a.set))
    BY AccumulateFacts DEF p
  <2>. QED
    BY <2>1
<1>2. CASE p.print \/ tokens = << >>
  <2>1. o = Outcome("Print", Nothing, Acc)
    BY <1>2 DEF parse
  <2>2. o.acc = Acc /\ o.kind # "Run"
    <3>. HIDE DEF o
    <3>. QED
      BY <2>1 DEF Outcome
  <2>3. tokens = << >> => ~p.batch
    <3>1. SUFFICES ASSUME tokens = << >> PROVE ~p.batch
      OBVIOUS
    <3>2. PICK after : Prescanned(after, tokens, VALUE_FLAGS, Len(tokens))
                       /\ PrescanOver(tokens, VALUE_FLAGS) = after[Len(tokens)]
      BY PrescanPositions
    <3>3. p = Unscanned
      BY <3>1, <3>2 DEF Prescanned, Prescan
    <3>. QED
      BY <3>3 DEF Unscanned
  <2>. HIDE DEF o, p
  <2>4. "--batch" \notin o.acc.set
    BY <2>2 DEF Acc
  <2>. QED
    BY <1>2, <2>2, <2>3, <2>4 DEF Heeded
<1>3. CASE ~(p.print \/ tokens = << >>)
  <2>1. o = IF ~acc.ok THEN Outcome("Error", Nothing, acc)
            ELSE IF "--batch" \in acc.set THEN resolve_batch(acc) ELSE resolve_single(acc)
    BY <1>3 DEF parse, parse_inner
  <2>. HIDE DEF o, p, acc
  <2>2. CASE ~acc.ok
    <3>1. o.acc = acc /\ o.kind # "Run"
      BY <2>1, <2>2 DEF Outcome
    <3>. QED
      BY <2>2, <3>1 DEF Heeded
  <2>3. CASE acc.ok /\ "--batch" \in acc.set
    <3>1. o.acc = acc /\ o.kind # "Run"
      BY <2>1, <2>3, BatchFacts
    <3>. QED
      BY <1>1, <1>3, <3>1 DEF Heeded
  <2>4. CASE acc.ok /\ "--batch" \notin acc.set
    <3>1. o.acc = acc /\ Heeded(o)
      BY <1>1, <2>1, <2>4, SingleFacts
    <3>. QED
      BY <1>1, <1>3, <3>1
  <2>. QED
    BY <2>2, <2>3, <2>4
<1>. QED
  BY <1>2, <1>3

LEMMA LineParseFacts ==
  ASSUME NEW tokens, Len(tokens) \in Nat, NEW d
  PROVE  Heeded(parse_batch_line(tokens, d))
<1>. DEFINE acc == accumulate(tokens, FALSE)
            c == acc.command
            o == parse_batch_line(tokens, d)
            dir == IF dir_override(acc) # "none" THEN dir_override(acc) ELSE d.load
            a == [command |-> c, opt |-> MergedOpt(c, acc.opt, d.opt),
                  condition |-> IF acc.condition = << >> THEN d.condition ELSE acc.condition,
                  set |-> (acc.set \cap {"--exact", "--verbose", "--control"}) \cup d.set,
                  target |-> TargetAt(acc.positionals, 1),
                  load |-> dir = "load"]
<1>1. \/ o = Outcome("Error", Nothing, acc)
      \/ o = Outcome("Run", a, acc) /\ c # "none" /\ check_command_flags(c, acc)
  BY DEF parse_batch_line
<1>2. a.command = c
  OBVIOUS
<1>3. Sound(acc)
  BY AccumulateFacts
<1>. HIDE DEF o, a, acc
<1>4. CASE o = Outcome("Error", Nothing, acc)
  <2>1. o.kind # "Run"
    BY <1>4 DEF Outcome
  <2>. QED
    BY <2>1 DEF Heeded, o
<1>5. CASE o = Outcome("Run", a, acc) /\ c # "none" /\ check_command_flags(c, acc)
  <2>1. o.acc = acc /\ o.args = a
    BY <1>5 DEF Outcome
  <2>2. Spelled(acc) \ (Reads(c) \cup {"--json", "--batch"}) \subseteq TakenUnread(c)
    BY <1>3, <1>5, CheckedIsRead
  <2>3. Unread(o) \subseteq TakenUnread(o.args.command)
    BY <1>2, <2>1, <2>2 DEF Unread
  <2>. QED
    BY <2>3 DEF Heeded, o
<1>. QED
  BY <1>1, <1>4, <1>5

(***************************************************************************)
(* The splitter gives back the words a line was typed for.                 *)
(***************************************************************************)

LEMMA ScanNone ==
  ASSUME NEW s
  PROVE  Scan(s, << >>) = s
<1>1. PICK after : Scanned(after, s, << >>, Len(<< >>)) /\ Scan(s, << >>) = after[Len(<< >>)]
  <2>1. Len(<< >>) \in Nat
    OBVIOUS
  <2>. QED
    BY <2>1, ScanPositions
<1>2. Len(<< >>) = 0
  OBVIOUS
<1>. QED
  BY <1>1, <1>2 DEF Scanned

LEMMA ScanOne ==
  ASSUME NEW s, NEW c
  PROVE  Scan(s, <<c>>) = ScanChar(s, c)
<1>. DEFINE t == <<c>>
<1>1. Len(t) = 1 /\ t[1] = c
  OBVIOUS
<1>. HIDE DEF t
<1>2. PICK after : Scanned(after, s, t, 1) /\ Scan(s, t) = after[1]
  BY <1>1, ScanPositions
<1>3. after[0] = s /\ after[1] = ScanChar(after[1 - 1], t[1])
  BY <1>2 DEF Scanned
<1>. QED
  BY <1>1, <1>2, <1>3 DEF t

(* Scanning on from where a scan ended.                                    *)
LEMMA ScanConcat ==
  ASSUME NEW a \in Text, NEW b \in Text, NEW s
  PROVE  Scan(s, a \o b) = Scan(Scan(s, a), b)
<1>. DEFINE m == Len(a)
            n == Len(b)
            t == a \o b
<1>1. m \in Nat /\ n \in Nat /\ Len(t) = m + n
  BY DEF Text
<1>2. \A i \in 1..m : t[i] = a[i]
  BY DEF Text
<1>3. \A i \in 1..n : t[m + i] = b[i]
  BY DEF Text
<1>. HIDE DEF t
<1>4. PICK first : Scanned(first, s, a, m) /\ Scan(s, a) = first[m]
  BY <1>1, ScanPositions
<1>5. PICK second : Scanned(second, first[m], b, n) /\ Scan(first[m], b) = second[n]
  BY <1>1, ScanPositions
<1>6. PICK whole : Scanned(whole, s, t, m + n) /\ Scan(s, t) = whole[m + n]
  BY <1>1, ScanPositions
<1>7. whole[m] = first[m]
  <2>. DEFINE S == {i \in 0..m : whole[i] = first[i]}
  <2>1. 0 \in S
    BY <1>1, <1>4, <1>6 DEF Scanned
  <2>2. ASSUME NEW i \in 1..m, i - 1 \in S PROVE i \in S
    <3>1. i \in 1..(m + n)
      BY <1>1
    <3>2. whole[i] = ScanChar(whole[i - 1], t[i]) /\ first[i] = ScanChar(first[i - 1], a[i])
      BY <1>4, <1>6, <3>1 DEF Scanned
    <3>3. t[i] = a[i] /\ whole[i - 1] = first[i - 1]
      BY <1>2, <2>2
    <3>. QED
      BY <1>1, <3>2, <3>3
  <2>3. \A i \in 0..m : i \in S
    <3>. HIDE DEF S
    <3>. QED
      BY <1>1, <2>1, <2>2, UpTo
  <2>. QED
    BY <1>1, <2>3
<1>8. whole[m + n] = second[n]
  <2>. DEFINE S == {i \in 0..n : whole[m + i] = second[i]}
  <2>1. 0 \in S
    <3>1. m + 0 = m /\ 0 \in 0..n
      BY <1>1
    <3>. QED
      BY <1>5, <1>7, <3>1 DEF Scanned
  <2>2. ASSUME NEW i \in 1..n, i - 1 \in S PROVE i \in S
    <3>1. m + i \in 1..(m + n) /\ m + i - 1 = m + (i - 1)
      BY <1>1
    <3>2. whole[m + i] = ScanChar(whole[m + (i - 1)], t[m + i])
      BY <1>6, <3>1 DEF Scanned
    <3>3. second[i] = ScanChar(second[i - 1], b[i])
      BY <1>5 DEF Scanned
    <3>4. t[m + i] = b[i] /\ whole[m + (i - 1)] = second[i - 1]
      BY <1>3, <2>2
    <3>. QED
      BY <1>1, <3>2, <3>3, <3>4
  <2>3. \A i \in 0..n : i \in S
    <3>. HIDE DEF S
    <3>. QED
      BY <1>1, <2>1, <2>2, UpTo
  <2>. QED
    BY <1>1, <2>3
<1>. QED
  BY <1>4, <1>5, <1>6, <1>8 DEF t

(* The scanner in a mode, with words done and part of a word, within a     *)
(* word or in a gap between two.                                           *)
At(m, words, w, b) ==
  [mode |-> m, tokens |-> words, cur |-> w, in_token |-> b = "word", label |-> << >>]

LEMMA AtFacts ==
  ASSUME NEW m, NEW words, NEW w, NEW b
  PROVE  /\ At(m, words, w, b).mode = m /\ At(m, words, w, b).tokens = words
         /\ (At(m, words, w, b).in_token <=> b = "word") /\ At(m, words, w, b).label = << >>
BY DEF At

LEMMA PushAt ==
  ASSUME NEW m, NEW words, NEW w, NEW b, NEW k, NEW c
  PROVE  Push(At(m, words, w, b), k, c) = At(k, words, w \o c, "word")
<1>. DEFINE s == At(m, words, w, b)
            r == Push(s, k, c)
<1>1. s = [mode |-> m, tokens |-> words, cur |-> w, in_token |-> b = "word", label |-> << >>]
  BY DEF At
<1>2. r = [s EXCEPT !.mode = k, !.cur = @ \o c, !.in_token = TRUE]
  BY DEF Push
<1>. HIDE DEF s, r
<1>3. r = [mode |-> k, tokens |-> words, cur |-> w \o c, in_token |-> TRUE, label |-> << >>]
  BY <1>1, <1>2
<1>. QED
  BY <1>3 DEF At, s, r

(* A word and one more character.                                          *)
Plus(w, c) == w \o <<c>>

LEMMA PushOne ==
  ASSUME NEW m, NEW words, NEW w, NEW b, NEW k, NEW c
  PROVE  Push(At(m, words, w, b), k, <<c>>) = At(k, words, Plus(w, c), "word")
BY PushAt DEF Plus

LEMMA PushNone ==
  ASSUME NEW m, NEW words, NEW w \in Text, NEW b, NEW k
  PROVE  Push(At(m, words, w, b), k, << >>) = At(k, words, w, "word")
<1>. DEFINE e == << >>
<1>1. w \o e = w
  BY TextFacts
<1>. HIDE DEF e
<1>2. Push(At(m, words, w, b), k, e) = At(k, words, w \o e, "word")
  BY PushAt
<1>3. Push(At(m, words, w, b), k, e) = At(k, words, w, "word")
  BY <1>1, <1>2
<1>. QED
  BY <1>3 DEF e

LEMMA PlusFacts ==
  ASSUME NEW w \in Text, NEW c \in Atoms
  PROVE  Plus(w, c) \in Text
BY TextFacts DEF Plus

LEMMA ModeAt ==
  ASSUME NEW m, NEW words, NEW w, NEW b, NEW k
  PROVE  [At(m, words, w, b) EXCEPT !.mode = k] = At(k, words, w, b)
<1>. DEFINE s == At(m, words, w, b)
            r == [s EXCEPT !.mode = k]
<1>1. s = [mode |-> m, tokens |-> words, cur |-> w, in_token |-> b = "word", label |-> << >>]
  BY DEF At
<1>2. r = [s EXCEPT !.mode = k]
  OBVIOUS
<1>. HIDE DEF s, r
<1>3. r = [mode |-> k, tokens |-> words, cur |-> w, in_token |-> b = "word", label |-> << >>]
  BY <1>1, <1>2
<1>. QED
  BY <1>3 DEF At, s, r

LEMMA EndAt ==
  ASSUME NEW m, NEW words, NEW w
  PROVE  EndToken(At(m, words, w, "word")) = At(m, Append(words, w), << >>, "gap")
<1>. DEFINE s == At(m, words, w, "word")
            r == EndToken(s)
<1>1. s = [mode |-> m, tokens |-> words, cur |-> w, in_token |-> TRUE, label |-> << >>]
  BY DEF At
<1>2. s.in_token
  BY DEF At
<1>3. r = [s EXCEPT !.tokens = Append(@, s.cur), !.cur = << >>, !.in_token = FALSE]
  BY <1>2 DEF EndToken
<1>. HIDE DEF s, r
<1>4. r = [mode |-> m, tokens |-> Append(words, w), cur |-> << >>, in_token |-> FALSE, label |-> << >>]
  BY <1>1, <1>3
<1>. QED
  BY <1>4 DEF At, s, r

LEMMA EndedAt ==
  ASSUME NEW m, NEW words, NEW w
  PROVE  EndToken(At(m, words, w, "gap")) = At(m, words, w, "gap")
<1>1. ~At(m, words, w, "gap").in_token
  BY DEF At
<1>. QED
  BY <1>1 DEF EndToken

(* The characters a scanner at some place goes through.                    *)
LEMMA EscapeAt ==
  ASSUME NEW words, NEW w, NEW b, NEW c
  PROVE  ScanChar(At("escape", words, w, b), c)
         = At("plain", words, Plus(w, c), "word")
<1>. DEFINE s == At("escape", words, w, b)
<1>1. s.mode = "escape"
  BY AtFacts
<1>2. Push(s, "plain", <<c>>) = At("plain", words, Plus(w, c), "word")
  BY PushOne
<1>. HIDE DEF s
<1>3. ScanChar(s, c) = Push(s, "plain", <<c>>)
  BY <1>1, OtherCases
<1>. QED
  BY <1>2, <1>3 DEF s

LEMMA CloseSingleAt ==
  ASSUME NEW words, NEW w, NEW b, NEW c, c = "'"
  PROVE  ScanChar(At("single", words, w, b), c)
         = At("plain", words, w, b)
<1>. DEFINE s == At("single", words, w, b)
<1>1. s.mode = "single"
  BY AtFacts
<1>2. [s EXCEPT !.mode = "plain"] = At("plain", words, w, b)
  BY ModeAt
<1>. HIDE DEF s
<1>3. c = "'" => ScanChar(s, c) = [s EXCEPT !.mode = "plain"]
  BY <1>1, OtherCases
<1>. QED
  BY <1>2, <1>3 DEF s

LEMMA SingleAt ==
  ASSUME NEW words, NEW w, NEW b, NEW c, c # "'"
  PROVE  ScanChar(At("single", words, w, b), c)
         = At("single", words, Plus(w, c), "word")
<1>. DEFINE s == At("single", words, w, b)
<1>1. s.mode = "single"
  BY AtFacts
<1>2. Push(s, "single", <<c>>) = At("single", words, Plus(w, c), "word")
  BY PushOne
<1>. HIDE DEF s
<1>3. c # "'" => ScanChar(s, c) = Push(s, "single", <<c>>)
  BY <1>1, OtherCases
<1>. QED
  BY <1>2, <1>3 DEF s

LEMMA BackslashAt ==
  ASSUME NEW words, NEW w, NEW b, NEW c, c \in {"\"", "\\"}
  PROVE  ScanChar(At("backslash", words, w, b), c)
         = At("double", words, Plus(w, c), "word")
<1>. DEFINE s == At("backslash", words, w, b)
<1>1. s.mode = "backslash"
  BY ONLY AtFacts
<1>2. Push(s, "double", <<c>>) = At("double", words, Plus(w, c), "word")
  BY ONLY PushOne
<1>. HIDE DEF s
<1>3. c \in {"\"", "\\"} => AfterBackslash(c) = <<c>>
  BY DEF AfterBackslash
<1>4. ScanChar(s, c) = Push(s, "double", AfterBackslash(c))
  BY <1>1, OtherCases
<1>. QED
  BY <1>2, <1>3, <1>4 DEF s

LEMMA CloseDoubleAt ==
  ASSUME NEW words, NEW w, NEW b, NEW c, c = "\""
  PROVE  ScanChar(At("double", words, w, b), c)
         = At("plain", words, w, b)
<1>. DEFINE s == At("double", words, w, b)
<1>1. s.mode = "double"
  BY ONLY AtFacts
<1>2. [s EXCEPT !.mode = "plain"] = At("plain", words, w, b)
  BY ONLY ModeAt
<1>. HIDE DEF s
<1>3. c = "\"" => ScanChar(s, c) = [s EXCEPT !.mode = "plain"]
  BY <1>1, OtherCases
<1>. QED
  BY <1>2, <1>3 DEF s

LEMMA EscapeDoubleAt ==
  ASSUME NEW words, NEW w, NEW b, NEW c, c = "\\"
  PROVE  ScanChar(At("double", words, w, b), c)
         = At("backslash", words, w, b)
<1>. DEFINE s == At("double", words, w, b)
<1>1. s.mode = "double"
  BY AtFacts
<1>2. [s EXCEPT !.mode = "backslash"] = At("backslash", words, w, b)
  BY ModeAt
<1>. HIDE DEF s
<1>3. c = "\\" => ScanChar(s, c) = [s EXCEPT !.mode = "backslash"]
  BY <1>1, OtherCases
<1>. QED
  BY <1>2, <1>3 DEF s

LEMMA DoubleAt ==
  ASSUME NEW words, NEW w, NEW b, NEW c, c \notin {"\"", "\\"}
  PROVE  ScanChar(At("double", words, w, b), c)
         = At("double", words, Plus(w, c), "word")
<1>. DEFINE s == At("double", words, w, b)
<1>1. s.mode = "double"
  BY ONLY AtFacts
<1>2. Push(s, "double", <<c>>) = At("double", words, Plus(w, c), "word")
  BY ONLY PushOne
<1>. HIDE DEF s
<1>3. c \notin {"\"", "\\"} => ScanChar(s, c) = Push(s, "double", <<c>>)
  BY <1>1, OtherCases
<1>. QED
  BY <1>2, <1>3 DEF s

(* The same outside quotes.                                                *)
LEMMA PlainAtIsScanner ==
  ASSUME NEW words \in Seq(Text), NEW w \in Text, NEW b
  PROVE  LET s == At("plain", words, w, b)
         IN  s \in Scanners /\ s.mode = "plain" /\ (s.in_token <=> b = "word")
<1>1. << >> \in Text
  BY TextFacts
<1>. QED
  BY <1>1 DEF At, Scanners, Mode

LEMMA QuoteAt ==
  ASSUME NEW words \in Seq(Text), NEW w \in Text, NEW b
  PROVE  /\ ScanChar(At("plain", words, w, b), "'") = At("single", words, w, "word")
         /\ ScanChar(At("plain", words, w, b), "\"") = At("double", words, w, "word")
         /\ ScanChar(At("plain", words, w, b), "\\") = At("escape", words, w, b)
<1>. DEFINE s == At("plain", words, w, b)
<1>1. s \in Scanners /\ s.mode = "plain"
  BY PlainAtIsScanner
<1>2. /\ Push(s, "single", << >>) = At("single", words, w, "word")
      /\ Push(s, "double", << >>) = At("double", words, w, "word")
      /\ [s EXCEPT !.mode = "escape"] = At("escape", words, w, b)
  BY PushNone, ModeAt
<1>. HIDE DEF s
<1>3. ScanChar(s, "'") = Push(s, "single", << >>) /\ ScanChar(s, "\"") = Push(s, "double", << >>)
      /\ ScanChar(s, "\\") = [s EXCEPT !.mode = "escape"]
  BY <1>1, PlainCases
<1>. QED
  BY <1>2, <1>3 DEF s

LEMMA BlankAt ==
  ASSUME NEW words \in Seq(Text), NEW w \in Text
  PROVE  ScanChar(At("plain", words, w, "word"), " ") = At("plain", Append(words, w), << >>, "gap")
<1>. DEFINE s == At("plain", words, w, "word")
<1>1. s \in Scanners /\ s.mode = "plain"
  BY PlainAtIsScanner
<1>2. EndToken(s) = At("plain", Append(words, w), << >>, "gap")
  BY EndAt
<1>. HIDE DEF s
<1>3. ScanChar(s, " ") = EndToken(s)
  BY <1>1, PlainCases
<1>. QED
  BY <1>2, <1>3 DEF s

LEMMA PlainAt ==
  ASSUME NEW words \in Seq(Text), NEW w \in Text, NEW b, NEW c,
         c \notin {" ", "'", "\"", "\\", "#"} \/ (c = "#" /\ b = "word")
  PROVE  ScanChar(At("plain", words, w, b), c) = At("plain", words, Plus(w, c), "word")
<1>. DEFINE s == At("plain", words, w, b)
<1>1. s \in Scanners /\ s.mode = "plain" /\ (s.in_token <=> b = "word")
  BY PlainAtIsScanner
<1>2. Push(s, "plain", <<c>>) = At("plain", words, Plus(w, c), "word")
  BY ONLY PushOne
<1>. HIDE DEF s
<1>3. ScanChar(s, c) = Push(s, "plain", <<c>>)
  BY <1>1, PlainCases
<1>. QED
  BY <1>2, <1>3 DEF s

(* Two characters, and the four of a quote inside single quotes.           *)
LEMMA ScanTwo ==
  ASSUME NEW s, NEW c \in Atoms, NEW d \in Atoms
  PROVE  Scan(s, <<c, d>>) = ScanChar(ScanChar(s, c), d)
<1>1. <<c, d>> = <<c>> \o <<d>> /\ <<c>> \in Text /\ <<d>> \in Text
  <2>1. <<c, d>> = <<c>> \o <<d>>
    <3>0. <<c>> \in Seq(Atoms)
      OBVIOUS
    <3>1. <<c>> \in Seq(Atoms) /\ <<c, d>> = Append(<<c>>, d)
      BY <3>0
    <3>2. Append(<<c>>, d) = <<c>> \o <<d>>
      BY <3>1, AppendIsConcat
    <3>. QED
      BY <3>1, <3>2, Zenon
  <2>. QED
    BY <2>1, TextFacts
<1>2. Scan(s, <<c>> \o <<d>>) = Scan(Scan(s, <<c>>), <<d>>)
  BY <1>1, ScanConcat
<1>3. Scan(s, <<c>>) = ScanChar(s, c) /\ \A r : Scan(r, <<d>>) = ScanChar(r, d)
  BY ScanOne
<1>. QED
  BY <1>1, <1>2, <1>3

LEMMA InSingleStep ==
  ASSUME NEW words \in Seq(Text), NEW w \in Text, NEW c \in Atoms
  PROVE  Scan(At("single", words, w, "word"), InSingle(c)) = At("single", words, Plus(w, c), "word")
<1>. DEFINE s == At("single", words, w, "word")
<1>1. CASE c # "'"
  <2>1. InSingle(c) = <<c>>
    BY <1>1 DEF InSingle
  <2>. QED
    BY <1>1, <2>1, ScanOne, SingleAt
<1>2. CASE c = "'"
  <2>. DEFINE x == Plus(w, c)
  <2>1. InSingle(c) = <<"'", "\\", "'", "'">>
    BY <1>2 DEF InSingle
  <2>2. <<"'", "\\", "'", "'">> = <<"'", "\\">> \o <<"'", "'">>
    OBVIOUS
  <2>3. "'" \in Atoms /\ "\\" \in Atoms /\ x \in Text
    BY TextFacts, PlusFacts
  <2>4. <<"'", "\\">> \in Text /\ <<"'", "'">> \in Text
    BY <2>3, TextFacts
  <2>5. Scan(s, <<"'", "\\">>) = ScanChar(ScanChar(s, "'"), "\\")
    BY <2>3, ScanTwo
  <2>6. ScanChar(s, "'") = At("plain", words, w, "word")
    BY CloseSingleAt
  <2>7. ScanChar(At("plain", words, w, "word"), "\\") = At("escape", words, w, "word")
    BY QuoteAt
  <2>8. Scan(At("escape", words, w, "word"), <<"'", "'">>)
        = ScanChar(ScanChar(At("escape", words, w, "word"), "'"), "'")
    BY <2>3, ScanTwo
  <2>9. ScanChar(At("escape", words, w, "word"), "'") = At("plain", words, x, "word")
    BY <1>2, EscapeAt
  <2>. HIDE DEF x
  <2>10. ScanChar(At("plain", words, x, "word"), "'") = At("single", words, x, "word")
    BY <2>3, QuoteAt
  <2>11. Scan(s, <<"'", "\\">> \o <<"'", "'">>) = Scan(Scan(s, <<"'", "\\">>), <<"'", "'">>)
    BY <2>4, ScanConcat
  <2>. HIDE DEF s
  <2>12. Scan(s, InSingle(c)) = At("single", words, x, "word")
    BY <2>1, <2>2, <2>5, <2>6, <2>7, <2>8, <2>9, <2>10, <2>11, Zenon
  <2>. QED
    BY <2>12 DEF s, x
<1>. QED
  BY <1>1, <1>2

LEMMA InDoubleStep ==
  ASSUME NEW words \in Seq(Text), NEW w \in Text, NEW c \in Atoms
  PROVE  Scan(At("double", words, w, "word"), InDouble(c)) = At("double", words, Plus(w, c), "word")
<1>1. CASE c \notin {"\"", "\\"}
  <2>1. InDouble(c) = <<c>>
    BY <1>1 DEF InDouble
  <2>2. Scan(At("double", words, w, "word"), <<c>>) = ScanChar(At("double", words, w, "word"), c)
    BY ONLY ScanOne
  <2>3. ScanChar(At("double", words, w, "word"), c) = At("double", words, Plus(w, c), "word")
    BY <1>1, DoubleAt
  <2>. QED
    BY <2>1, <2>2, <2>3, Zenon
<1>2. CASE c \in {"\"", "\\"}
  <2>1. InDouble(c) = <<"\\", c>> /\ AfterBackslash(c) = <<c>>
    BY <1>2 DEF InDouble, AfterBackslash
  <2>2. "\\" \in Atoms
    BY TextFacts
  <2>3. Scan(At("double", words, w, "word"), <<"\\", c>>)
        = ScanChar(ScanChar(At("double", words, w, "word"), "\\"), c)
    BY <2>2, ScanTwo
  <2>4. ScanChar(At("double", words, w, "word"), "\\") = At("backslash", words, w, "word")
    BY EscapeDoubleAt
  <2>5. ScanChar(At("backslash", words, w, "word"), c) = At("double", words, Plus(w, c), "word")
    BY <1>2, BackslashAt
  <2>. QED
    BY <2>1, <2>3, <2>4, <2>5, Zenon
<1>. QED
  BY <1>1, <1>2

LEMMA UnquotedStep ==
  ASSUME NEW words \in Seq(Text), NEW w \in Text, NEW c \in Atoms, NEW i \in Nat \ {0}
  PROVE  Scan(At("plain", words, w, IF i > 1 THEN "word" ELSE "gap"), Unquoted(c, i)) = At("plain", words, Plus(w, c), "word")
<1>. DEFINE b == IF i > 1 THEN "word" ELSE "gap"
            s == At("plain", words, w, b)
<1>. HIDE DEF b
<1>2. CASE c \in {" ", "'", "\"", "\\"} \/ (c = "#" /\ i = 1)
  <2>1. Unquoted(c, i) = <<"\\", c>>
    BY <1>2 DEF Unquoted
  <2>2. "\\" \in Atoms
    BY TextFacts
  <2>3. Scan(s, <<"\\", c>>) = ScanChar(ScanChar(s, "\\"), c)
    BY <2>2, ScanTwo
  <2>4. ScanChar(s, "\\") = At("escape", words, w, b)
    BY QuoteAt
  <2>5. ScanChar(At("escape", words, w, b), c) = At("plain", words, Plus(w, c), "word")
    BY EscapeAt
  <2>6. Scan(s, Unquoted(c, i)) = At("plain", words, Plus(w, c), "word")
    <3>. HIDE DEF s
    <3>. QED
      BY <2>1, <2>3, <2>4, <2>5, Zenon
  <2>. QED
    BY <2>6 DEF b
<1>3. CASE ~(c \in {" ", "'", "\"", "\\"} \/ (c = "#" /\ i = 1))
  <2>1. Unquoted(c, i) = <<c>>
    BY <1>3 DEF Unquoted
  <2>2. c \notin {" ", "'", "\"", "\\", "#"} \/ (c = "#" /\ b = "word")
    <3>1. i # 1 => i > 1
      OBVIOUS
    <3>. QED
      BY <1>3, <3>1 DEF b
  <2>3. ScanChar(s, c) = At("plain", words, Plus(w, c), "word")
    BY <2>2, PlainAt
  <2>4. Scan(s, Unquoted(c, i)) = At("plain", words, Plus(w, c), "word")
    <3>. HIDE DEF s
    <3>. QED
      BY <2>1, <2>3, ScanOne
  <2>. QED
    BY <2>4 DEF b
<1>. QED
  BY <1>2, <1>3

(* The beginning of a sequence.                                            *)
Begin(seq0, i) == SubSeq(seq0, 1, i)

LEMMA BeginFacts ==
  ASSUME NEW S, NEW q \in Seq(S)
  PROVE  /\ Begin(q, 0) = << >>
         /\ Begin(q, Len(q)) = q
         /\ \A i \in 0..Len(q) : Begin(q, i) \in Seq(S)
         /\ \A i \in 1..Len(q) : Begin(q, i) = Begin(q, i - 1) \o <<q[i]>>
         /\ \A i \in 1..Len(q) : Begin(q, i) = Append(Begin(q, i - 1), q[i])
<1>1. Len(q) \in Nat /\ \A i \in 1..Len(q) : q[i] \in S
  OBVIOUS
<1>2. Begin(q, 0) = << >>
  BY SubSeqEmpty DEF Begin
<1>3. Begin(q, Len(q)) = q
  BY SubSeqFull DEF Begin
<1>4. ASSUME NEW i \in 0..Len(q) PROVE Begin(q, i) \in Seq(S)
  <2>1. \A j \in 1..i : q[j] \in S
    BY <1>1
  <2>. QED
    BY <1>1, <2>1, SubSeqProperties DEF Begin
<1>5. ASSUME NEW i \in 1..Len(q) PROVE Begin(q, i) = Begin(q, i - 1) \o <<q[i]>>
  <2>1. 1 \in 1..Len(q) /\ i \in 1..Len(q)
    BY <1>1
  <2>. QED
    BY <2>1, SubSeqRecursiveSecond DEF Begin
<1>6. ASSUME NEW i \in 1..Len(q) PROVE Begin(q, i) = Append(Begin(q, i - 1), q[i])
  <2>1. Begin(q, i - 1) \in Seq(S) /\ q[i] \in S
    BY <1>1, <1>4
  <2>2. Append(Begin(q, i - 1), q[i]) = Begin(q, i - 1) \o <<q[i]>>
    BY <2>1, AppendIsConcat
  <2>. QED
    BY <1>5, <2>2
<1>. QED
  BY <1>2, <1>3, <1>4, <1>5, <1>6

(* The part of a word between its quotes, if each of its characters is     *)
(* typed so that the scanner takes it in.                                  *)
Place(i, first) == IF i > 0 THEN "word" ELSE first

LEMMA InsideWord ==
  ASSUME NEW words \in Seq(Text), NEW token \in Text, NEW m, NEW first,
         NEW texts \in Seq(Text), Len(texts) = Len(token),
         \A i \in 1..Len(token) : \A w \in Text :
           Scan(At(m, words, w, Place(i - 1, first)), texts[i]) = At(m, words, Plus(w, token[i]), "word")
  PROVE  Scan(At(m, words, << >>, first), Joined(texts)) = At(m, words, token, Place(Len(token), first))
<1>. DEFINE n == Len(token)
            start == At(m, words, << >>, first)
<1>1. n \in Nat /\ token \in Seq(Atoms)
  BY DEF Text
<1>2. PICK upto : JoinedUp(upto, texts, n) /\ Joined(texts) = upto[n]
  BY <1>1, JoinedPositions
<1>3. upto[0] = << >> /\ \A i \in 1..n : upto[i] = upto[i - 1] \o texts[i]
  BY <1>2 DEF JoinedUp
<1>4. \A i \in 0..n : upto[i] \in Text
  BY <1>1, <1>2, JoinedType
<1>5. Begin(token, 0) = << >> /\ Begin(token, n) = token
  BY <1>1, BeginFacts
<1>6. \A i \in 0..n : Begin(token, i) \in Text
  BY <1>1, BeginFacts DEF Text
<1>7. \A i \in 1..n : Begin(token, i) = Plus(Begin(token, i - 1), token[i])
  BY <1>1, BeginFacts DEF Plus
<1>. DEFINE S == {i \in 0..n : Scan(start, upto[i]) = At(m, words, Begin(token, i), Place(i, first))}
<1>8. 0 \in S
  <2>1. Scan(start, upto[0]) = start
    BY <1>3, ScanNone
  <2>2. Place(0, first) = first
    BY DEF Place
  <2>. HIDE DEF n
  <2>. QED
    BY <1>1, <1>5, <2>1, <2>2
<1>9. ASSUME NEW i \in 1..n, i - 1 \in S PROVE i \in S
  <2>. DEFINE w == Begin(token, i - 1)
  <2>1. i - 1 \in 0..n /\ i \in 0..n /\ i > 0
    BY <1>1
  <2>2. upto[i - 1] \in Text /\ texts[i] \in Text /\ w \in Text
    BY <1>4, <1>6, <2>1
  <2>3. Scan(start, upto[i - 1]) = At(m, words, w, Place(i - 1, first))
    BY <1>9
  <2>4. Scan(At(m, words, w, Place(i - 1, first)), texts[i]) = At(m, words, Plus(w, token[i]), "word")
    BY <2>2
  <2>5. Scan(start, upto[i - 1] \o texts[i]) = Scan(Scan(start, upto[i - 1]), texts[i])
    <3>. HIDE DEF start
    <3>. QED
      BY <2>2, ScanConcat
  <2>6. upto[i] = upto[i - 1] \o texts[i]
    BY <1>3
  <2>7. Place(i, first) = "word" /\ Begin(token, i) = Plus(w, token[i])
    BY <1>7, <2>1 DEF Place
  <2>. HIDE DEF start, w, n
  <2>8. Scan(start, upto[i]) = At(m, words, Begin(token, i), Place(i, first))
    BY <2>3, <2>4, <2>5, <2>6, <2>7
  <2>. QED
    BY <2>1, <2>8
<1>10. n \in S
  <2>. HIDE DEF S
  <2>1. \A i \in 0..n : i \in S
    BY <1>1, <1>8, <1>9, UpTo
  <2>. QED
    BY <1>1, <2>1
<1>11. Scan(start, upto[n]) = At(m, words, Begin(token, n), Place(n, first))
  BY <1>10
<1>. QED
  BY <1>2, <1>5, <1>11

(* A word in each style leaves the scanner at its end.                     *)
LEMMA SingleWord ==
  ASSUME NEW words \in Seq(Text), NEW token \in Text
  PROVE  Scan(At("plain", words, << >>, "gap"), Quoted(token, "single")) = At("plain", words, token, "word")
<1>. DEFINE texts == [i \in DOMAIN token |-> InSingle(token[i])]
            start == At("plain", words, << >>, "gap")
            open == At("single", words, << >>, "word")
<1>1. texts \in Seq(Text) /\ Len(texts) = Len(token) /\ Joined(texts) \in Text
  BY SpelledFacts, JoinedIsText
<1>2. <<"'">> \in Text /\ << >> \in Text
  BY TextFacts
<1>3. Scan(start, <<"'">>) = open
  <2>1. ScanChar(start, "'") = open
    BY <1>2, QuoteAt
  <2>. HIDE DEF start
  <2>. QED
    BY <2>1, ScanOne
<1>4. Scan(open, Joined(texts)) = At("single", words, token, "word")
  <2>1. ASSUME NEW i \in 1..Len(token), NEW w \in Text
        PROVE  Scan(At("single", words, w, Place(i - 1, "word")), texts[i])
               = At("single", words, Plus(w, token[i]), "word")
    <3>1. token[i] \in Atoms /\ i \in DOMAIN token
      BY DEF Text
    <3>2. texts[i] = InSingle(token[i])
      BY <3>1
    <3>3. Place(i - 1, "word") = "word"
      BY DEF Place
    <3>. HIDE DEF texts
    <3>. QED
      BY <3>1, <3>2, <3>3, InSingleStep
  <2>2. Place(Len(token), "word") = "word"
    BY DEF Place
  <2>. HIDE DEF texts
  <2>3. Scan(open, Joined(texts)) = At("single", words, token, Place(Len(token), "word"))
    BY <1>1, <2>1, InsideWord
  <2>. QED
    BY <2>2, <2>3
<1>5. Scan(At("single", words, token, "word"), <<"'">>) = At("plain", words, token, "word")
  <2>1. ScanChar(At("single", words, token, "word"), "'") = At("plain", words, token, "word")
    BY CloseSingleAt
  <2>. QED
    BY <2>1, ScanOne
<1>6. Quoted(token, "single") = <<"'">> \o Joined(texts) \o <<"'">>
  BY DEF Quoted
<1>. HIDE DEF texts, start, open
<1>7. <<"'">> \o Joined(texts) \in Text
  BY <1>1, <1>2, TextFacts
<1>. DEFINE q == <<"'">>
            body == Joined(texts)
<1>. HIDE DEF q, body
<1>8. q \in Text /\ body \in Text /\ q \o body \in Text /\ Quoted(token, "single") = q \o body \o q
      /\ Scan(start, q) = open /\ Scan(open, body) = At("single", words, token, "word")
      /\ Scan(At("single", words, token, "word"), q) = At("plain", words, token, "word")
  BY <1>1, <1>2, <1>3, <1>4, <1>5, <1>6, <1>7 DEF q, body
<1>9. Scan(start, q \o body) = At("single", words, token, "word")
  BY <1>8, ScanConcat
<1>10. Scan(start, q \o body \o q) = Scan(Scan(start, q \o body), q)
  BY <1>8, ScanConcat
<1>. QED
  BY <1>8, <1>9, <1>10 DEF start

LEMMA DoubleWord ==
  ASSUME NEW words \in Seq(Text), NEW token \in Text
  PROVE  Scan(At("plain", words, << >>, "gap"),
              <<"\"">> \o Joined([i \in DOMAIN token |-> InDouble(token[i])]) \o <<"\"">>)
         = At("plain", words, token, "word")
<1>. DEFINE texts == [i \in DOMAIN token |-> InDouble(token[i])]
            start == At("plain", words, << >>, "gap")
            open == At("double", words, << >>, "word")
            quote == "\""
            body == Joined(texts)
<1>1. texts \in Seq(Text) /\ Len(texts) = Len(token) /\ body \in Text
  BY SpelledFacts, JoinedIsText
<1>2. quote \in Atoms /\ << >> \in Text
  BY TextFacts
<1>3. ScanChar(start, quote) = open
  BY <1>2, QuoteAt
<1>4. ScanChar(At("double", words, token, "word"), quote) = At("plain", words, token, "word")
  BY CloseDoubleAt
<1>. HIDE DEF quote
<1>5. <<quote>> \in Text
  BY <1>2, TextFacts
<1>6. Scan(start, <<quote>>) = open
  <2>. HIDE DEF start, open
  <2>. QED
    BY <1>3, ScanOne
<1>7. Scan(open, body) = At("double", words, token, "word")
  <2>1. ASSUME NEW i \in 1..Len(token), NEW w \in Text
        PROVE  Scan(At("double", words, w, Place(i - 1, "word")), texts[i])
               = At("double", words, Plus(w, token[i]), "word")
    <3>1. token[i] \in Atoms /\ i \in DOMAIN token
      BY DEF Text
    <3>2. texts[i] = InDouble(token[i])
      BY <3>1
    <3>3. Place(i - 1, "word") = "word"
      BY DEF Place
    <3>. HIDE DEF texts
    <3>. QED
      BY <3>1, <3>2, <3>3, InDoubleStep
  <2>2. Place(Len(token), "word") = "word"
    BY DEF Place
  <2>. HIDE DEF texts
  <2>3. Scan(open, Joined(texts)) = At("double", words, token, Place(Len(token), "word"))
    BY <1>1, <2>1, InsideWord
  <2>. QED
    BY <2>2, <2>3
<1>8. Scan(At("double", words, token, "word"), <<quote>>) = At("plain", words, token, "word")
  BY <1>4, ScanOne
<1>. DEFINE q == <<quote>>
<1>. HIDE DEF texts, start, open, body, q
<1>9. q \in Text /\ body \in Text /\ Scan(start, q) = open
      /\ Scan(open, body) = At("double", words, token, "word")
      /\ Scan(At("double", words, token, "word"), q) = At("plain", words, token, "word")
  BY <1>1, <1>5, <1>6, <1>7, <1>8 DEF q
<1>10. q \o body \in Text
  BY <1>9, TextFacts
<1>11. Scan(start, q \o body) = At("double", words, token, "word")
  BY <1>9, ScanConcat
<1>12. Scan(start, q \o body \o q) = Scan(Scan(start, q \o body), q)
  BY <1>9, <1>10, ScanConcat
<1>13. Scan(start, q \o body \o q) = At("plain", words, token, "word")
  BY <1>9, <1>11, <1>12
<1>. QED
  BY <1>13 DEF start, q, quote, body, texts

LEMMA PlainWord ==
  ASSUME NEW words \in Seq(Text), NEW token \in Text, token # << >>
  PROVE  Scan(At("plain", words, << >>, "gap"),
              Joined([i \in DOMAIN token |-> Unquoted(token[i], i)])) = At("plain", words, token, "word")
<1>. DEFINE texts == [i \in DOMAIN token |-> Unquoted(token[i], i)]
<1>1. texts \in Seq(Text) /\ Len(texts) = Len(token)
  BY SpelledFacts
<1>2. ASSUME NEW i \in 1..Len(token), NEW w \in Text
      PROVE  Scan(At("plain", words, w, Place(i - 1, "gap")), texts[i])
             = At("plain", words, Plus(w, token[i]), "word")
  <2>1. token[i] \in Atoms /\ i \in DOMAIN token /\ i \in Nat \ {0}
    BY DEF Text
  <2>2. texts[i] = Unquoted(token[i], i)
    BY <2>1
  <2>3. Place(i - 1, "gap") = IF i > 1 THEN "word" ELSE "gap"
    BY <2>1 DEF Place
  <2>. HIDE DEF texts
  <2>4. Scan(At("plain", words, w, IF i > 1 THEN "word" ELSE "gap"), Unquoted(token[i], i))
        = At("plain", words, Plus(w, token[i]), "word")
    BY <2>1, UnquotedStep
  <2>. QED
    BY <2>2, <2>3, <2>4
<1>3. Place(Len(token), "gap") = "word"
  <2>1. Len(token) \in Nat /\ Len(token) # 0
    BY DEF Text
  <2>. QED
    BY <2>1 DEF Place
<1>. HIDE DEF texts
<1>4. Scan(At("plain", words, << >>, "gap"), Joined(texts)) = At("plain", words, token, Place(Len(token), "gap"))
  BY <1>1, <1>2, InsideWord
<1>. QED
  BY <1>3, <1>4 DEF texts

LEMMA WordScanned ==
  ASSUME NEW words \in Seq(Text), NEW token \in Text, NEW style \in {"plain", "single", "double"}
  PROVE  Scan(At("plain", words, << >>, "gap"), Quoted(token, style) \o <<" ">>)
         = At("plain", Append(words, token), << >>, "gap")
<1>. DEFINE start == At("plain", words, << >>, "gap")
            typed == Quoted(token, style)
<1>1. Scan(start, typed) = At("plain", words, token, "word")
  <2>1. CASE style = "single"
    BY <2>1, SingleWord
  <2>2. CASE style = "double" \/ (style = "plain" /\ token = << >>)
    <3>1. typed = <<"\"">> \o Joined([i \in DOMAIN token |-> InDouble(token[i])]) \o <<"\"">>
      <4>1. style # "single" /\ (style = "double" \/ token = << >>)
        BY <2>2
      <4>. QED
        BY <4>1, Zenon DEF Quoted
    <3>2. Scan(start, <<"\"">> \o Joined([i \in DOMAIN token |-> InDouble(token[i])]) \o <<"\"">>)
          = At("plain", words, token, "word")
      BY DoubleWord
    <3>. HIDE DEF typed, start
    <3>. QED
      BY <3>1, <3>2, Zenon
  <2>3. CASE style = "plain" /\ token # << >>
    <3>1. typed = Joined([i \in DOMAIN token |-> Unquoted(token[i], i)])
      <4>1. style # "single" /\ ~(style = "double" \/ token = << >>)
        BY <2>3
      <4>. QED
        BY <4>1, Zenon DEF Quoted
    <3>2. Scan(start, Joined([i \in DOMAIN token |-> Unquoted(token[i], i)]))
          = At("plain", words, token, "word")
      BY <2>3, PlainWord
    <3>. HIDE DEF typed, start
    <3>. QED
      BY <3>1, <3>2, Zenon
  <2>. QED
    BY <2>1, <2>2, <2>3
<1>2. typed \in Text /\ <<" ">> \in Text
  BY QuotedFacts, TextFacts
<1>3. Scan(At("plain", words, token, "word"), <<" ">>) = At("plain", Append(words, token), << >>, "gap")
  <2>1. ScanChar(At("plain", words, token, "word"), " ") = At("plain", Append(words, token), << >>, "gap")
    BY BlankAt
  <2>. QED
    BY <2>1, ScanOne
<1>. DEFINE blank == <<" ">>
<1>. HIDE DEF typed, start, blank
<1>4. Scan(start, typed \o blank) = Scan(Scan(start, typed), blank)
  BY <1>2, ScanConcat DEF blank
<1>5. Scan(start, typed \o blank) = At("plain", Append(words, token), << >>, "gap")
  BY <1>1, <1>3, <1>4 DEF blank
<1>. QED
  BY <1>5 DEF typed, start, blank

(* So do all the words of a line.                                          *)
LEMMA WordsScanned ==
  ASSUME NEW l, LineShape(l)
  PROVE  Scan(Scanner, Joined(WordsTyped(l))) = At("plain", l.words, << >>, "gap")
<1>. DEFINE n == Len(l.words)
            texts == WordsTyped(l)
<1>1. l.words \in Seq(Text) /\ l.style \in {"plain", "single", "double"} /\ n \in Nat
      /\ \A i \in 1..n : l.words[i] \in Text
  BY DEF LineShape
<1>2. texts \in Seq(Text) /\ Len(texts) = n
  BY TypedFacts
<1>3. \A i \in 1..n : texts[i] = Quoted(l.words[i], l.style) \o <<" ">>
  <2>1. DOMAIN l.words = 1..n
    BY <1>1
  <2>. QED
    BY <2>1, Zenon DEF WordsTyped
<1>4. PICK upto : JoinedUp(upto, texts, n) /\ Joined(texts) = upto[n]
  BY <1>1, <1>2, JoinedPositions
<1>. HIDE DEF texts
<1>5. upto[0] = << >> /\ \A i \in 1..n : upto[i] = upto[i - 1] \o texts[i]
  BY <1>4 DEF JoinedUp
<1>6. \A i \in 0..n : upto[i] \in Text
  BY <1>2, <1>4, JoinedType
<1>7. /\ Begin(l.words, 0) = << >> /\ Begin(l.words, n) = l.words
      /\ \A i \in 0..n : Begin(l.words, i) \in Seq(Text)
      /\ \A i \in 1..n : Begin(l.words, i) = Append(Begin(l.words, i - 1), l.words[i])
  BY <1>1, BeginFacts
<1>. DEFINE S == {i \in 0..n : Scan(Scanner, upto[i]) = At("plain", Begin(l.words, i), << >>, "gap")}
<1>8. 0 \in S
  <2>1. Scan(Scanner, upto[0]) = Scanner
    BY <1>5, ScanNone
  <2>2. Scanner = At("plain", << >>, << >>, "gap")
    BY DEF Scanner, At
  <2>3. Scan(Scanner, upto[0]) = At("plain", Begin(l.words, 0), << >>, "gap")
    BY <1>7, <2>1, <2>2
  <2>. QED
    BY <1>1, <2>3
<1>9. ASSUME NEW i \in 1..n, i - 1 \in S PROVE i \in S
  <2>. DEFINE w == Begin(l.words, i - 1)
              t == l.words[i]
              typed == Quoted(t, l.style) \o <<" ">>
  <2>1. i - 1 \in 0..n /\ i \in 0..n
    BY <1>1
  <2>2. upto[i - 1] \in Text /\ texts[i] \in Text /\ w \in Seq(Text) /\ t \in Text
    BY <1>1, <1>2, <1>6, <1>7, <2>1
  <2>3. Scan(Scanner, upto[i - 1]) = At("plain", w, << >>, "gap")
    BY <1>9
  <2>4. Scan(At("plain", w, << >>, "gap"), typed) = At("plain", Append(w, t), << >>, "gap")
    BY <1>1, <2>2, WordScanned
  <2>5. texts[i] = typed /\ Begin(l.words, i) = Append(w, t)
    BY <1>3, <1>7
  <2>6. upto[i] = upto[i - 1] \o texts[i]
    BY <1>5
  <2>. HIDE DEF w, t, typed
  <2>7. Scan(Scanner, upto[i - 1] \o texts[i]) = Scan(Scan(Scanner, upto[i - 1]), texts[i])
    BY <2>2, ScanConcat
  <2>8. Scan(Scanner, upto[i]) = At("plain", Begin(l.words, i), << >>, "gap")
    BY <2>3, <2>4, <2>5, <2>6, <2>7
  <2>. QED
    BY <2>1, <2>8
<1>10. n \in S
  <2>. HIDE DEF S
  <2>1. \A i \in 0..n : i \in S
    BY <1>1, <1>8, <1>9, UpTo
  <2>. QED
    BY <1>1, <2>1
<1>11. Scan(Scanner, upto[n]) = At("plain", Begin(l.words, n), << >>, "gap")
  BY <1>10
<1>. QED
  BY <1>4, <1>7, <1>11 DEF texts

(* The scanner within a label.                                             *)
LabelAt(words, x) ==
  [mode |-> "label", tokens |-> words, cur |-> << >>, in_token |-> FALSE, label |-> x]

LEMMA LabelChar ==
  ASSUME NEW words, NEW x, NEW c
  PROVE  ScanChar(LabelAt(words, x), c) = LabelAt(words, Append(x, c))
<1>. DEFINE s == LabelAt(words, x)
            y == Append(x, c)
            r == [s EXCEPT !.label = y]
<1>1. s.mode = "label" /\ s.label = x
  BY DEF LabelAt
<1>2. s = [mode |-> "label", tokens |-> words, cur |-> << >>, in_token |-> FALSE, label |-> x]
  BY DEF LabelAt
<1>3. r = [s EXCEPT !.label = y]
  OBVIOUS
<1>4. ScanChar(s, c) = [s EXCEPT !.label = Append(s.label, c)]
  <2>. HIDE DEF s
  <2>. QED
    BY <1>1, OtherCases
<1>5. ScanChar(s, c) = r
  <2>. HIDE DEF s
  <2>. QED
    BY <1>1, <1>4
<1>. HIDE DEF s, r, y
<1>6. r = [mode |-> "label", tokens |-> words, cur |-> << >>, in_token |-> FALSE, label |-> y]
  BY <1>2, <1>3
<1>. QED
  BY <1>5, <1>6 DEF LabelAt, s, y

(* All of a text that comes after "#" is part of the label.                *)
LEMMA LabelScan ==
  ASSUME NEW words, NEW x \in Text, NEW t \in Text
  PROVE  Scan(LabelAt(words, x), t) = LabelAt(words, x \o t)
<1>. DEFINE m == Len(x)
            n == Len(t)
            u == x \o t
            start == LabelAt(words, x)
<1>1. m \in Nat /\ n \in Nat /\ Len(u) = m + n /\ u \in Seq(Atoms)
  BY DEF Text
<1>2. \A i \in 1..n : u[m + i] = t[i]
  BY DEF Text
<1>3. Begin(u, m) = x
  <2>1. m \in 0..Len(u) /\ \A i \in 1..m : u[i] = x[i]
    BY DEF Text
  <2>2. \A i \in 1..m : u[i] \in Atoms
    BY <1>1
  <2>. HIDE DEF u
  <2>3. Begin(u, m) \in Seq(Atoms) /\ Len(Begin(u, m)) = m /\ \A i \in 1..m : Begin(u, m)[i] = u[i]
    BY <1>1, <2>2, SubSeqProperties DEF Begin
  <2>4. Begin(u, m) \in Seq(Atoms) /\ x \in Seq(Atoms) /\ Len(Begin(u, m)) = Len(x)
        /\ \A i \in 1..Len(x) : Begin(u, m)[i] = x[i]
    BY <2>1, <2>3 DEF Text
  <2>. HIDE DEF m
  <2>. QED
    BY <2>4, SeqEqual
<1>. HIDE DEF u
<1>4. PICK after : Scanned(after, start, t, n) /\ Scan(start, t) = after[n]
  BY <1>1, ScanPositions
<1>. DEFINE S == {i \in 0..n : after[i] = LabelAt(words, Begin(u, m + i))}
<1>5. 0 \in S
  <2>1. m + 0 = m /\ 0 \in 0..n
    BY <1>1
  <2>. QED
    BY <1>3, <1>4, <2>1 DEF Scanned
<1>6. ASSUME NEW i \in 1..n, i - 1 \in S PROVE i \in S
  <2>1. m + i \in 1..Len(u) /\ m + i - 1 = m + (i - 1) /\ i \in 0..n
    BY <1>1
  <2>2. Begin(u, m + i) = Append(Begin(u, m + (i - 1)), u[m + i])
    <3>1. Begin(u, m + i) = Append(Begin(u, m + i - 1), u[m + i])
      BY <1>1, <2>1, BeginFacts
    <3>. QED
      BY <2>1, <3>1
  <2>3. after[i] = ScanChar(after[i - 1], t[i])
    BY <1>4 DEF Scanned
  <2>4. after[i - 1] = LabelAt(words, Begin(u, m + (i - 1)))
    BY <1>6
  <2>5. t[i] = u[m + i]
    BY <1>2
  <2>6. ScanChar(LabelAt(words, Begin(u, m + (i - 1))), u[m + i])
        = LabelAt(words, Append(Begin(u, m + (i - 1)), u[m + i]))
    BY LabelChar
  <2>7. after[i] = LabelAt(words, Begin(u, m + i))
    BY <2>2, <2>3, <2>4, <2>5, <2>6
  <2>. QED
    BY <2>1, <2>7
<1>7. n \in S
  <2>. HIDE DEF S
  <2>1. \A i \in 0..n : i \in S
    BY <1>1, <1>5, <1>6, UpTo
  <2>. QED
    BY <1>1, <2>1
<1>8. Begin(u, m + n) = u
  BY <1>1, BeginFacts
<1>. QED
  BY <1>4, <1>7, <1>8 DEF u

LEMMA HashAt ==
  ASSUME NEW words \in Seq(Text)
  PROVE  ScanChar(At("plain", words, << >>, "gap"), "#") = LabelAt(words, << >>)
<1>. DEFINE s == At("plain", words, << >>, "gap")
            r == [s EXCEPT !.mode = "label"]
<1>1. s \in Scanners /\ s.mode = "plain" /\ (s.in_token <=> "gap" = "word")
  <2>1. << >> \in Text
    BY TextFacts
  <2>. QED
    BY <2>1, PlainAtIsScanner
<1>2. s = [mode |-> "plain", tokens |-> words, cur |-> << >>, in_token |-> "gap" = "word", label |-> << >>]
  BY DEF At
<1>3. ScanChar(s, "#") = r
  <2>. HIDE DEF s
  <2>. QED
    BY <1>1, PlainCases
<1>4. r = [s EXCEPT !.mode = "label"]
  OBVIOUS
<1>. HIDE DEF s, r
<1>5. r = [mode |-> "label", tokens |-> words, cur |-> << >>, in_token |-> FALSE, label |-> << >>]
  BY <1>2, <1>4
<1>. QED
  BY <1>3, <1>5 DEF LabelAt, s

(* A label that is as it was trimmed is found again behind the blank.      *)
Trimmed(t) == Trim(t) = t /\ t # << >>

LEMMA TrimBehindBlank ==
  ASSUME NEW t \in Text, Trimmed(t)
  PROVE  Trim(<<" ">> \o t) = t
<1>. DEFINE n == Len(t)
            blank == " "
            u == <<blank>> \o t
<1>1. n \in Nat /\ n # 0 /\ t \in Seq(Atoms)
  <2>1. t # << >> /\ t \in Seq(Atoms)
    BY DEF Trimmed, Text
  <2>. QED
    BY <2>1
<1>2. u \in Text
  BY TextFacts
<1>3. Len(u) = n + 1 /\ u[1] = blank /\ \A k \in 1..n : u[k + 1] = t[k]
  <2>1. blank \in Atoms
    BY TextFacts
  <2>. HIDE DEF blank
  <2>. QED
    BY <1>1, <2>1
<1>4. t[1] # blank /\ t[n] # blank
  <2>1. Trim(t) = t /\ Trim(t) # << >>
    BY DEF Trimmed
  <2>2. PICK i \in 1..n, j \in 1..n : Cut(Trim(t), t, i, j)
    BY <2>1, TrimFacts
  <2>3. Cut(t, t, i, j)
    BY <2>1, <2>2
  <2>4. n = j - i + 1
    BY <2>3, SolidTrim
  <2>5. i = 1 /\ j = n
    BY <1>1, <2>4
  <2>6. t[i] # blank /\ t[j] # blank
    BY <2>3 DEF Cut, Solid
  <2>. QED
    BY <2>5, <2>6
<1>5. \/ \A k \in 1..Len(u) : u[k] = blank
      \/ \E a, b \in 1..Len(u) : Cut(Trim(u), u, a, b)
  <2>. HIDE DEF u
  <2>. QED
    BY <1>2, TrimFacts
<1>6. \A a, b \in 1..Len(u) : Cut(Trim(u), u, a, b) =>
        u[a] # blank /\ \A k \in 1..Len(u) : u[k] # blank => a <= k /\ k <= b
  <2>. HIDE DEF u
  <2>. QED
    BY DEF Cut, Solid
<1>. HIDE DEF u, blank
<1>7. PICK a \in 1..Len(u), b \in 1..Len(u) : Cut(Trim(u), u, a, b)
  <2>1. u[1 + 1] # blank /\ 1 + 1 \in 1..Len(u)
    BY <1>1, <1>3, <1>4
  <2>. QED
    BY <1>5, <2>1
<1>8. a = 2 /\ b = n + 1
  <2>1. u[a] # blank /\ \A k \in 1..Len(u) : u[k] # blank => a <= k /\ k <= b
    BY <1>6, <1>7
  <2>2. u[1 + 1] # blank /\ u[n + 1] # blank /\ 1 + 1 \in 1..Len(u) /\ n + 1 \in 1..Len(u)
    BY <1>1, <1>3, <1>4
  <2>3. a <= 1 + 1 /\ n + 1 <= b
    BY <2>1, <2>2
  <2>4. a # 1
    BY <1>3, <2>1
  <2>. QED
    BY <1>1, <1>3, <2>3, <2>4
<1>9. /\ Trim(u) \in Text /\ Len(Trim(u)) = b - a + 1
      /\ \A k \in 1..(b - a + 1) : Trim(u)[k] = u[a + k - 1]
  <2>1. Trim(u) \in Text
    BY <1>2, <1>7, SolidTrim
  <2>2. Len(Trim(u)) = b - a + 1
    BY <1>2, <1>7, SolidTrim
  <2>3. \A k \in 1..(b - a + 1) : Trim(u)[k] = u[a + k - 1]
    BY <1>2, <1>7, SolidTrim
  <2>. QED
    BY <2>1, <2>2, <2>3
<1>10. Len(Trim(u)) = n /\ \A k \in 1..n : Trim(u)[k] = t[k]
  <2>1. b - a + 1 = n
    BY <1>1, <1>8
  <2>2. \A k \in 1..n : Trim(u)[k] = u[a + k - 1] /\ a + k - 1 = k + 1
    BY <1>8, <1>9, <2>1
  <2>. QED
    BY <1>3, <1>9, <2>1, <2>2
<1>11. Trim(u) \in Seq(Atoms) /\ Len(Trim(u)) = Len(t)
  BY <1>9, <1>10 DEF Text
<1>12. Trim(u) = t
  BY <1>1, <1>10, <1>11, SeqEqual
<1>. QED
  BY <1>12 DEF u, blank

(* What was typed for a line is split into its words and its label.        *)
LEMMA SplitTyped ==
  ASSUME NEW l, LineShape(l)
  PROVE  LET s == split_line(Typed(l))
         IN  s.ok /\ s.tokens = l.words /\ s.label = l.label
<1>. DEFINE plain == At("plain", l.words, << >>, "gap")
            joined == Joined(WordsTyped(l))
            end == LabelTyped(l)
            r == Scan(Scanner, Typed(l))
            s == split_line(Typed(l))
<1>. SUFFICES s.ok /\ s.tokens = l.words /\ s.label = l.label
  OBVIOUS
<1>1. l.words \in Seq(Text) /\ l.label \in Text /\ Trim(l.label) = l.label
  BY DEF LineShape
<1>2. joined \in Text /\ end \in Text /\ Typed(l) = joined \o end
  BY TypedFacts
<1>3. Scan(Scanner, joined) = plain
  BY WordsScanned
<1>4. r = Scan(plain, end)
  <2>. HIDE DEF joined, end, plain
  <2>1. Scan(Scanner, joined \o end) = Scan(Scan(Scanner, joined), end)
    BY <1>2, ScanConcat
  <2>. QED
    BY <1>2, <1>3, <2>1
<1>5. s = [ok |-> EndToken(r).mode \in {"plain", "label"}, tokens |-> EndToken(r).tokens,
           label |-> Trim(EndToken(r).label)]
  BY DEF split_line
<1>6. CASE l.label = << >>
  <2>1. end = << >>
    BY <1>6 DEF LabelTyped
  <2>2. r = plain
    <3>. HIDE DEF end, plain, r
    <3>. QED
      BY <1>4, <2>1, ScanNone
  <2>3. EndToken(r) = plain
    BY <2>2, EndedAt
  <2>4. plain.mode = "plain" /\ plain.tokens = l.words /\ plain.label = << >>
    BY AtFacts
  <2>. HIDE DEF plain, r, s
  <2>. QED
    BY <1>1, <1>5, <1>6, <2>3, <2>4
<1>7. CASE l.label # << >>
  <2>. DEFINE blank == <<" ">>
              final == LabelAt(l.words, blank \o l.label)
  <2>1. end = <<"#", " ">> \o l.label
    BY <1>7 DEF LabelTyped
  <2>2. <<"#", " ">> \in Text /\ blank \in Text /\ "#" \in Atoms /\ " " \in Atoms
    BY TextFacts
  <2>3. Scan(plain, <<"#", " ">>) = LabelAt(l.words, blank)
    <3>1. Scan(plain, <<"#", " ">>) = ScanChar(ScanChar(plain, "#"), " ")
      <4>. HIDE DEF plain
      <4>. QED
        BY <2>2, ScanTwo
    <3>2. ScanChar(plain, "#") = LabelAt(l.words, << >>)
      BY <1>1, HashAt
    <3>3. ScanChar(LabelAt(l.words, << >>), " ") = LabelAt(l.words, Append(<< >>, " "))
      BY LabelChar
    <3>4. Append(<< >>, " ") = blank
      OBVIOUS
    <3>. HIDE DEF plain, blank
    <3>. QED
      BY <3>1, <3>2, <3>3, <3>4
  <2>4. r = final
    <3>. DEFINE hash == <<"#", " ">>
    <3>. HIDE DEF plain, blank, r, end, hash
    <3>1. Scan(plain, hash \o l.label) = Scan(Scan(plain, hash), l.label)
      BY <1>1, <2>2, ScanConcat DEF hash
    <3>2. Scan(LabelAt(l.words, blank), l.label) = final
      BY <1>1, <2>2, LabelScan
    <3>. QED
      BY <1>4, <2>1, <2>3, <3>1, <3>2 DEF hash
  <2>5. ~final.in_token /\ final.mode = "label" /\ final.tokens = l.words
        /\ final.label = blank \o l.label
    BY DEF LabelAt
  <2>6. EndToken(final) = final
    <3>. HIDE DEF final
    <3>. QED
      BY <2>5 DEF EndToken
  <2>7. Trim(blank \o l.label) = l.label
    BY <1>1, <1>7, TrimBehindBlank DEF Trimmed
  <2>. HIDE DEF final, r, s, blank
  <2>. QED
    BY <1>5, <2>4, <2>5, <2>6, <2>7
<1>. QED
  BY <1>6, <1>7

(***************************************************************************)
(* The invariant.                                                          *)
(***************************************************************************)

(* What a session goes by is what parse made of its arguments.             *)
ArgumentsParsed ==
  /\ argv \in Argvs
  /\ IF phase = "parse" THEN outcome.kind = "none" ELSE outcome = parse(argv)

(* Lines are counted as they are asked, numbered and answered together.    *)
Counted == asked \in Nat /\ seq = asked /\ emitted = asked

(* The result about to be flushed has the id of its line.                  *)
Numbered == phase = "flush" => answer.id = Id(answer.label, asked)

LineHeeded == answer.parsed # << >> => Heeded(answer.parsed[1])

CommandInv == ArgumentsParsed /\ Counted /\ Numbered /\ LineHeeded /\ WordsComeBack

LEMMA InitInv == Init => CommandInv
<1>. SUFFICES ASSUME Init PROVE CommandInv
  OBVIOUS
<1>. USE DEF Init
<1>1. ArgumentsParsed
  BY DEF ArgumentsParsed, Outcome
<1>2. Counted /\ Numbered
  BY DEF Counted, Numbered
<1>3. LineHeeded
  BY DEF LineHeeded, NoAnswer
<1>4. WordsComeBack
  BY DEF WordsComeBack
<1>. QED
  BY <1>1, <1>2, <1>3, <1>4 DEF CommandInv

(* The line being served: what was split, and what came of it.             *)
Split(text) == split_line(text)
OfLine(text) == parse_batch_line(Split(text).tokens, outcome.args)

Answers(l, label, p) ==
  /\ seq' = seq + 1 /\ emitted' = emitted + 1 /\ line' = l /\ phase' = "flush"
  /\ answer'.id = Id(label, seq') /\ answer'.label = label /\ answer'.parsed = p

LEMMA ServeFacts ==
  ASSUME NEW l, NEW text, Serve(l, text)
  PROVE  \/ ~Split(text).ok /\ Answers(l, << >>, << >>)
         \/ /\ Split(text).ok /\ Split(text).tokens = << >>
            /\ UNCHANGED <<seq, emitted, line, answer, phase>>
         \/ /\ Split(text).ok /\ Split(text).tokens # << >>
            /\ Answers(l, Split(text).label, <<OfLine(text), Split(text)>>)
<1>. DEFINE s == split_line(text)
            parsed == parse_batch_line(s.tokens, outcome.args)
            Emit(label, ok, p) ==
              /\ answer' = [id |-> Id(label, seq'), label |-> label, ok |-> ok, parsed |-> p]
              /\ emitted' = emitted + 1 /\ line' = l /\ phase' = "flush"
<1>1. \/ ~s.ok /\ seq' = seq + 1 /\ Emit(<< >>, FALSE, << >>)
      \/ s.ok /\ s.tokens = << >> /\ UNCHANGED <<seq, emitted, line, answer, phase>>
      \/ /\ s.ok /\ s.tokens # << >> /\ seq' = seq + 1
         /\ \E ok \in BOOLEAN : Emit(s.label, ok, <<parsed, s>>)
  BY Zenon DEF Serve
<1>2. ASSUME NEW label, NEW ok, NEW p, seq' = seq + 1, Emit(label, ok, p)
      PROVE  Answers(l, label, p)
  BY <1>2 DEF Answers
<1>3. s = Split(text) /\ parsed = OfLine(text)
  BY DEF Split, OfLine
<1>. HIDE DEF Emit, s, parsed
<1>4. CASE ~s.ok /\ seq' = seq + 1 /\ Emit(<< >>, FALSE, << >>)
  <2>1. Answers(l, << >>, << >>)
    BY <1>2, <1>4
  <2>. QED
    BY <1>3, <1>4, <2>1
<1>5. CASE s.ok /\ s.tokens = << >> /\ UNCHANGED <<seq, emitted, line, answer, phase>>
  BY <1>3, <1>5
<1>6. CASE /\ s.ok /\ s.tokens # << >> /\ seq' = seq + 1
           /\ \E ok \in BOOLEAN : Emit(s.label, ok, <<parsed, s>>)
  <2>1. Answers(l, s.label, <<parsed, s>>)
    BY <1>2, <1>6
  <2>. QED
    BY <1>3, <1>6, <2>1
<1>. QED
  BY <1>1, <1>4, <1>5, <1>6

(* The next line, of which the splitter and the parser say what they say.  *)
LEMMA ReadStep ==
  ASSUME CommandInv, NEW l, NEW text \in Text, ReadLine(l, text),
         l = NoLine \/ (LineShape(l) /\ text = Typed(l))
  PROVE  CommandInv'
<1>. DEFINE s == Split(text)
            p == OfLine(text)
<1>1. /\ s.tokens \in Seq(Text) /\ Len(s.tokens) \in Nat
      /\ HoldsCommand(text) <=> ~s.ok \/ s.tokens # << >>
  BY SplitFacts DEF Split
<1>2. LineShape(l) /\ text = Typed(l) => s.ok /\ s.tokens = l.words /\ s.label = l.label
  BY SplitTyped DEF Split
<1>3. Heeded(p)
  BY <1>1, LineParseFacts DEF OfLine
<1>4. \/ ~s.ok /\ Answers(l, << >>, << >>)
      \/ s.ok /\ s.tokens = << >> /\ UNCHANGED <<seq, emitted, line, answer, phase>>
      \/ s.ok /\ s.tokens # << >> /\ Answers(l, s.label, <<p, s>>)
  BY ServeFacts DEF ReadLine
<1>5. /\ phase = "read" /\ argv' = argv /\ outcome' = outcome
      /\ asked' = asked + IF HoldsCommand(text) THEN 1 ELSE 0
  BY DEF ReadLine
<1>6. ArgumentsParsed /\ Counted /\ Numbered /\ LineHeeded /\ WordsComeBack
  BY DEF CommandInv
<1>7. phase' # "parse"
  BY <1>4, <1>5 DEF Answers
<1>8. ArgumentsParsed'
  BY <1>5, <1>6, <1>7 DEF ArgumentsParsed
<1>. HIDE DEF s, p
<1>9. CASE ~s.ok /\ Answers(l, << >>, << >>)
  <2>1. asked' = asked + 1
    BY <1>1, <1>5, <1>9
  <2>2. Counted'
    BY <1>6, <1>9, <2>1 DEF Counted, Answers
  <2>3. Numbered'
    BY <1>9, <2>2 DEF Counted, Numbered, Answers
  <2>4. LineHeeded'
    BY <1>9 DEF LineHeeded, Answers
  <2>5. WordsComeBack'
    BY <1>2, <1>9 DEF WordsComeBack, Answers
  <2>. QED
    BY <1>8, <2>2, <2>3, <2>4, <2>5 DEF CommandInv
<1>10. CASE s.ok /\ s.tokens = << >> /\ UNCHANGED <<seq, emitted, line, answer, phase>>
  <2>1. asked \in Nat
    BY <1>6 DEF Counted
  <2>2. asked' = asked
    BY <1>1, <1>5, <1>10, <2>1
  <2>3. Counted' /\ Numbered' /\ LineHeeded'
    BY <1>6, <1>10, <2>2 DEF Counted, Numbered, LineHeeded
  <2>4. WordsComeBack'
    BY <1>6, <1>10 DEF WordsComeBack
  <2>. QED
    BY <1>8, <2>3, <2>4 DEF CommandInv
<1>11. CASE s.ok /\ s.tokens # << >> /\ Answers(l, s.label, <<p, s>>)
  <2>1. asked' = asked + 1
    BY <1>1, <1>5, <1>11
  <2>2. Counted'
    BY <1>6, <1>11, <2>1 DEF Counted, Answers
  <2>3. Numbered'
    BY <1>11, <2>2 DEF Counted, Numbered, Answers
  <2>4. answer'.parsed = <<p, s>> /\ answer'.label = s.label /\ line' = l
    BY <1>11 DEF Answers
  <2>5. LineHeeded'
    BY <1>3, <2>4 DEF LineHeeded
  <2>6. WordsComeBack'
    BY <1>2, <2>4 DEF WordsComeBack
  <2>. QED
    BY <1>8, <2>2, <2>3, <2>5, <2>6 DEF CommandInv
<1>. QED
  BY <1>4, <1>9, <1>10, <1>11

LEMMA NextInv == CommandInv /\ [Next]_vars => CommandInv'
<1>. SUFFICES ASSUME CommandInv, [Next]_vars PROVE CommandInv'
  OBVIOUS
<1>1. ArgumentsParsed /\ Counted /\ Numbered /\ LineHeeded /\ WordsComeBack
  BY DEF CommandInv
<1>2. ASSUME UNCHANGED idle, phase' # "flush" PROVE Counted' /\ Numbered' /\ LineHeeded' /\ WordsComeBack'
  <2>1. UNCHANGED <<asked, seq, emitted, line, answer>>
    BY <1>2 DEF idle
  <2>. QED
    BY <1>1, <1>2, <2>1 DEF Counted, Numbered, LineHeeded, WordsComeBack
<1>3. ASSUME UNCHANGED <<argv, outcome>>, phase # "parse", phase' # "parse" PROVE ArgumentsParsed'
  BY <1>1, <1>3 DEF ArgumentsParsed
<1>4. CASE ParseArgs
  <2>1. outcome' = parse(argv) /\ argv' = argv /\ UNCHANGED idle /\ phase' \in {"exit", "open"}
    BY <1>4 DEF ParseArgs, Exit
  <2>2. ArgumentsParsed'
    BY <1>1, <2>1 DEF ArgumentsParsed
  <2>. QED
    BY <1>2, <2>1, <2>2 DEF CommandInv
<1>5. CASE OpenFile
  <2>1. UNCHANGED <<argv, outcome, idle>> /\ phase = "open" /\ phase' \in {"exit", "read", "run"}
    BY <1>5 DEF OpenFile, Exit
  <2>. QED
    BY <1>2, <1>3, <2>1 DEF CommandInv
<1>6. CASE RunCommand
  <2>1. UNCHANGED <<argv, outcome, idle>> /\ phase = "run" /\ phase' = "exit"
    BY <1>6 DEF RunCommand, Exit
  <2>. QED
    BY <1>2, <1>3, <2>1 DEF CommandInv
<1>7. CASE ReadMeant
  <2>1. PICK l \in Lines : ReadLine(l, Typed(l))
    BY <1>7 DEF ReadMeant
  <2>2. LineShape(l) /\ Typed(l) \in Text
    BY LineFacts
  <2>. QED
    BY <2>1, <2>2, ReadStep
<1>8. CASE ReadRaw
  <2>1. PICK text \in RawLines : ReadLine(NoLine, text)
    BY <1>8 DEF ReadRaw
  <2>2. text \in Text
    BY LineFacts
  <2>. QED
    BY <2>1, <2>2, ReadStep
<1>9. CASE Flush
  <2>1. /\ UNCHANGED <<argv, outcome, asked, seq, emitted>> /\ phase = "flush" /\ phase' = "read"
        /\ answer'.parsed = << >>
    BY <1>9 DEF Flush, NoAnswer
  <2>2. Counted' /\ Numbered' /\ LineHeeded' /\ WordsComeBack'
    BY <1>1, <2>1 DEF Counted, Numbered, LineHeeded, WordsComeBack
  <2>. QED
    BY <1>3, <2>1, <2>2 DEF CommandInv
<1>10. CASE EndInput
  <2>1. UNCHANGED <<argv, outcome, idle>> /\ phase = "read" /\ phase' = "exit"
    BY <1>10 DEF EndInput, Exit
  <2>. QED
    BY <1>2, <1>3, <2>1 DEF CommandInv
<1>11. CASE UNCHANGED vars
  <2>1. UNCHANGED <<argv, phase, outcome, asked, seq, emitted, line, answer>>
    BY <1>11 DEF vars
  <2>2. ArgumentsParsed' /\ Counted' /\ Numbered' /\ LineHeeded' /\ WordsComeBack'
    BY <1>1, <2>1 DEF ArgumentsParsed, Counted, Numbered, LineHeeded, WordsComeBack
  <2>. QED
    BY <2>2 DEF CommandInv
<1>. QED
  BY <1>4, <1>5, <1>6, <1>7, <1>8, <1>9, <1>10, <1>11 DEF Next

(* The invariant holds throughout.                                         *)
THEOREM CommandInvariant == Spec => []CommandInv
<1>1. Init => CommandInv
  BY InitInv
<1>2. CommandInv /\ [Next]_vars => CommandInv'
  BY NextInv
<1>. QED
  BY <1>1, <1>2, PTL DEF Spec

(* For every argument vector, whenever the token loop comes through, the   *)
(* scan ahead of it saw --batch exactly if the loop did: the two of        *)
(* cli.rs agree on which words are the values of flags.                    *)
THEOREM TwoPassesAgree == Spec => []PassesAgree
<1>1. CommandInv => PassesAgree
  <2>. SUFFICES ASSUME CommandInv, phase # "parse", ~Prescan(argv).print, outcome.acc.ok
                PROVE  Prescan(argv).batch = ("--batch" \in outcome.acc.set)
    BY DEF PassesAgree
  <2>1. outcome = parse(argv) /\ argv \in Seq(Text)
    BY ArgvsAssumption DEF CommandInv, ArgumentsParsed
  <2>2. Len(argv) \in Nat
    BY <2>1
  <2>3. Prescan(argv).batch <=> "--batch" \in outcome.acc.set
    BY <2>1, <2>2, ParseFacts
  <2>4. Prescan(argv).batch \in BOOLEAN
    BY <2>2, TokensStep DEF ScanShape
  <2>. QED
    BY <2>3, <2>4
<1>. QED
  BY <1>1, CommandInvariant, PTL

(* For every argument vector and every line of any session, a command that *)
(* is run reads every flag that was given for it, or the driver does, but  *)
(* for the --limit that info takes: resolve_single and parse_batch_line    *)
(* refuse the others.                                                      *)
THEOREM FlagsAreRead == Spec => []NoFlagIgnored
<1>1. CommandInv => NoFlagIgnored
  <2>. SUFFICES ASSUME CommandInv PROVE NoFlagIgnored
    OBVIOUS
  <2>1. Heeded(outcome)
    <3>1. CASE phase = "parse"
      BY <3>1 DEF CommandInv, ArgumentsParsed, Heeded
    <3>2. CASE phase # "parse"
      <4>1. outcome = parse(argv) /\ argv \in Seq(Text)
        BY <3>2, ArgvsAssumption DEF CommandInv, ArgumentsParsed
      <4>2. Len(argv) \in Nat
        BY <4>1
      <4>. QED
        BY <4>1, <4>2, ParseFacts
    <3>. QED
      BY <3>1, <3>2
  <2>2. answer.parsed # << >> => Heeded(answer.parsed[1])
    BY DEF CommandInv, LineHeeded
  <2>. QED
    BY <2>1, <2>2 DEF Heeded, NoFlagIgnored
<1>. QED
  BY <1>1, CommandInvariant, PTL

(* For any input whatever, run_batch writes one result for each line that  *)
(* the documentation calls a command, and numbers it in step.              *)
THEOREM OneAnswerPerCommand == Spec => []AnswersInStep
<1>1. CommandInv => AnswersInStep
  BY DEF CommandInv, Counted, Numbered, AnswersInStep
<1>. QED
  BY <1>1, CommandInvariant, PTL

(* Any words, in any of the three quotings, with any label, are what       *)
(* split_line makes of the line they are typed as.                         *)
THEOREM WordsAreAsTyped == Spec => []WordsComeBack
<1>1. CommandInv => WordsComeBack
  BY DEF CommandInv
<1>. QED
  BY <1>1, CommandInvariant, PTL

(***************************************************************************)
(* The traces kept from line to line: the trace cache.                     *)
(***************************************************************************)
PassSound(p) == p.how = "windowed" => p.ask \subseteq Window(p.from, p.to)

(* An eager load another pass follows is a small dump's.                   *)
MayPrecede(c, p) == p.how = "eager" => c.kind = "dump" /\ ~should_stream(c)

(* What holds of the passes a command is made of.                          *)
WellMade(c, ps) ==
  /\ ps \in Seq(PassType)
  /\ \A k \in DOMAIN ps : PassSound(ps[k]) /\ (k < Len(ps) => MayPrecede(c, ps[k]))
  /\ \A t \in Needs(c) : \E k \in DOMAIN ps : t \in ps[k].ask

(* A command of one pass.                                                  *)
LEMMA OnePass ==
  ASSUME NEW c, NEW p \in PassType, PassSound(p), Needs(c) \subseteq p.ask
  PROVE  WellMade(c, <<p>>)
BY DEF WellMade

(* A command of two.                                                       *)
LEMMA TwoPasses ==
  ASSUME NEW c, NEW p \in PassType, NEW r \in PassType,
         NEW ps \in Seq(PassType), Len(ps) = 2, ps[1] = p, ps[2] = r,
         PassSound(p), PassSound(r), MayPrecede(c, p),
         Needs(c) \subseteq p.ask \cup r.ask
  PROVE  WellMade(c, ps)
<1>1. DOMAIN ps = {1, 2}
  OBVIOUS
<1>2. PassSound(ps[1]) /\ PassSound(ps[2]) /\ MayPrecede(c, ps[1])
  BY DEF PassSound, MayPrecede
<1>3. \A k \in DOMAIN ps : PassSound(ps[k]) /\ (k < Len(ps) => MayPrecede(c, ps[k]))
  BY <1>1, <1>2
<1>. QED
  BY <1>1, <1>3 DEF WellMade

(* The passes each way of reading makes.                                   *)
LEMMA EagerPass ==
  ASSUME NEW ask \in SUBSET Tick
  PROVE  /\ Eager(ask) \in PassType /\ PassSound(Eager(ask))
         /\ Eager(ask).ask = ask
BY DEF Eager, Pass, PassType, PassSound

(* A batched pass.                                                         *)
LEMMA BatchedPass ==
  ASSUME NEW ask \in SUBSET Tick, NEW n \in Nat \ {0}
  PROVE  /\ Batched(ask, n) \in PassType /\ PassSound(Batched(ask, n))
         /\ Batched(ask, n).ask = ask /\ Batched(ask, n).how = "batched"
BY DEF Batched, Pass, PassType, PassSound

(* A windowed pass, where the backend seeks and where it does not.         *)
LEMMA WindowedPass ==
  ASSUME NEW from \in Int, NEW to \in Int, NEW ask \in SUBSET Window(from, to)
  PROVE  /\ Windowed(from, to, ask) \in PassType /\ PassSound(Windowed(from, to, ask))
         /\ Windowed(from, to, ask).ask = ask
         /\ Windowed(from, to, ask).how # "eager"
<1>1. ask \in SUBSET Tick /\ Batch \in Nat \ {0}
  BY BatchAssumption DEF Window
<1>2. CASE seeks
  BY <1>1, <1>2 DEF Windowed, Pass, PassType, PassSound
<1>3. CASE ~seeks
  BY <1>1, <1>3, BatchedPass DEF Windowed
<1>. QED
  BY <1>2, <1>3

(* A scan appended to one pass makes two.                                  *)
LEMMA PairOfPasses ==
  ASSUME NEW p \in PassType, NEW r \in PassType
  PROVE  /\ <<p>> \o <<r>> \in Seq(PassType) /\ Len(<<p>> \o <<r>>) = 2
         /\ (<<p>> \o <<r>>)[1] = p /\ (<<p>> \o <<r>>)[2] = r
<1>1. /\ <<p>> \in Seq(PassType) /\ <<r>> \in Seq(PassType)
      /\ Len(<<p>>) = 1 /\ Len(<<r>>) = 1
  OBVIOUS
<1>. QED
  BY <1>1

(* A command whose empty answer is explained by a further scan.            *)
LEMMA WithScan ==
  ASSUME NEW c, NEW p \in PassType, PassSound(p), MayPrecede(c, p),
         Needs(c) \subseteq p.ask
  PROVE  WellMade(c, <<p>> \o EmptyScan(c))
<1>. DEFINE r == Batched(Tick, Batch)
<1>1. r \in PassType /\ PassSound(r)
  BY BatchedPass, BatchAssumption
<1>2. CASE c.quiet /\ Len(c.sel) <= Batch
  <2>1. EmptyScan(c) = <<r>>
    BY <1>2 DEF EmptyScan
  <2>. HIDE DEF r
  <2>2. WellMade(c, <<p>> \o <<r>>)
    <3>. DEFINE ps == <<p>> \o <<r>>
    <3>1. ps \in Seq(PassType) /\ Len(ps) = 2 /\ ps[1] = p /\ ps[2] = r
      BY <1>1, PairOfPasses
    <3>2. Needs(c) \subseteq p.ask \cup r.ask
      OBVIOUS
    <3>. HIDE DEF ps
    <3>3. WellMade(c, ps)
      BY <1>1, <3>1, <3>2, TwoPasses
    <3>. QED
      BY <3>3 DEF ps
  <2>. QED
    BY <2>1, <2>2
<1>3. CASE ~(c.quiet /\ Len(c.sel) <= Batch)
  <2>1. EmptyScan(c) = << >>
    BY <1>3 DEF EmptyScan
  <2>2. <<p>> \o << >> = <<p>>
    OBVIOUS
  <2>. QED
    BY <2>1, <2>2, OnePass
<1>. QED
  BY <1>2, <1>3

(* The passes a command makes are well-formed and together ask about every *)
(* tick its answer needs.                                                  *)
LEMMA PassesOfCommand ==
  ASSUME NEW c \in Commands
  PROVE  WellMade(c, Passes(c))
<1>1. /\ c.kind \in Kinds /\ c.sel \in Seq(Sid)
      /\ c.t0 \in Tick /\ c.t1 \in Tick /\ c.t0 <= c.t1
  BY CommandsAssumption
<1>2. c.t0 \in Int /\ c.t1 \in Int
  BY <1>1, TickAssumption
<1>3. {c.t0} \in SUBSET Window(c.t0, c.t0) /\ {c.t1} \in SUBSET Window(c.t1, c.t1)
       /\ {c.t0, c.t1} \in SUBSET Window(c.t0, c.t1)
       /\ {c.t0} \in SUBSET Tick /\ {c.t0, c.t1} \in SUBSET Tick
  BY <1>1, <1>2 DEF Window
<1>4. CASE c.kind = "dump"
  <2>. DEFINE ask == Window(c.t0, c.t1)
              p == IF should_stream(c) THEN Windowed(c.t0, c.t1, ask) ELSE Eager(ask)
  <2>1. Passes(c) = <<p>> \o EmptyScan(c) /\ Needs(c) = ask
    BY <1>4 DEF Passes, DumpPasses, Needs
  <2>2. ask \in SUBSET Tick
    BY DEF Window
  <2>3. p \in PassType /\ PassSound(p) /\ p.ask = ask /\ MayPrecede(c, p)
    <3>1. CASE should_stream(c)
      BY <1>2, <3>1, WindowedPass DEF MayPrecede
    <3>2. CASE ~should_stream(c)
      BY <1>4, <2>2, <3>2, EagerPass DEF MayPrecede
    <3>. QED
      BY <3>1, <3>2
  <2>. HIDE DEF p, ask
  <2>. QED
    BY <2>1, <2>3, WithScan
<1>5. CASE c.kind \in {"snapshot", "trace"}
  <2>. DEFINE p == IF seeks \/ (c.kind = "snapshot" /\ should_stream(c))
                   THEN Windowed(c.t0, c.t0, {c.t0}) ELSE Eager({c.t0})
  <2>1. Passes(c) = <<p>> /\ Needs(c) = {c.t0}
    BY <1>5 DEF Passes, PointPasses, Needs
  <2>2. p \in PassType /\ PassSound(p) /\ p.ask = {c.t0}
    BY <1>2, <1>3, WindowedPass, EagerPass
  <2>. HIDE DEF p
  <2>. QED
    BY <2>1, <2>2, OnePass
<1>6. CASE c.kind = "compare"
  <2>1. Passes(c) = ComparePasses(c) /\ Needs(c) = {c.t0, c.t1}
    BY <1>6 DEF Passes, Needs
  <2>2. CASE seeks /\ c.t0 # c.t1
    <3>. DEFINE p == Windowed(c.t0, c.t0, {c.t0})
                r == Windowed(c.t1, c.t1, {c.t1})
    <3>1. Passes(c) = <<p, r>>
      BY <2>1, <2>2 DEF ComparePasses
    <3>2. /\ p \in PassType /\ PassSound(p) /\ p.ask = {c.t0} /\ p.how # "eager"
          /\ r \in PassType /\ PassSound(r) /\ r.ask = {c.t1}
      BY <1>2, <1>3, WindowedPass
    <3>. HIDE DEF p, r
    <3>. DEFINE ps == <<p, r>>
    <3>3. ps \in Seq(PassType) /\ Len(ps) = 2 /\ ps[1] = p /\ ps[2] = r
      BY <3>2
    <3>4. Needs(c) \subseteq p.ask \cup r.ask /\ MayPrecede(c, p)
      BY <2>1, <3>2 DEF MayPrecede
    <3>. HIDE DEF ps
    <3>5. WellMade(c, ps)
      BY <3>2, <3>3, <3>4, TwoPasses
    <3>. QED
      BY <3>1, <3>5 DEF ps
  <2>3. CASE ~(seeks /\ c.t0 # c.t1)
    <3>. DEFINE p == IF seeks \/ should_stream(c)
                     THEN Windowed(c.t0, c.t1, {c.t0, c.t1}) ELSE Eager({c.t0, c.t1})
    <3>1. Passes(c) = <<p>>
      BY <2>1, <2>3 DEF ComparePasses
    <3>2. p \in PassType /\ PassSound(p) /\ p.ask = {c.t0, c.t1}
      BY <1>2, <1>3, WindowedPass, EagerPass
    <3>. HIDE DEF p
    <3>. QED
      BY <2>1, <3>1, <3>2, OnePass
  <2>. QED
    BY <2>2, <2>3
<1>7. CASE c.kind = "summary"
  <2>. DEFINE ask == {t \in Tick : t <= c.t1}
              n == IF should_stream(c) \/ c.sel = << >> THEN Batch ELSE Len(c.sel)
              p == Batched(ask, n)
  <2>1. Passes(c) = <<p>> \o EmptyScan(c) /\ Needs(c) = ask
    BY <1>7 DEF Passes, SummaryPasses, Needs
  <2>2. n \in Nat \ {0}
    <3>1. c.sel # << >> => Len(c.sel) \in Nat \ {0}
      BY <1>1
    <3>. QED
      BY <3>1, BatchAssumption
  <2>3. ask \in SUBSET Tick
    OBVIOUS
  <2>. HIDE DEF n, ask
  <2>4. p \in PassType /\ PassSound(p) /\ p.ask = ask /\ p.how = "batched"
    BY <2>2, <2>3, BatchedPass
  <2>. HIDE DEF p
  <2>. QED
    BY <2>1, <2>4, WithScan DEF MayPrecede
<1>8. CASE c.kind = "search"
  <2>. DEFINE ask == {t \in Tick : t <= c.t1}
              p == Eager(ask)
  <2>1. Passes(c) = <<p>> /\ Needs(c) = ask
    BY <1>8 DEF Passes, SearchPasses, Needs
  <2>2. p \in PassType /\ PassSound(p) /\ p.ask = ask
    BY EagerPass
  <2>. HIDE DEF p, ask
  <2>. QED
    BY <2>1, <2>2, OnePass
<1>. QED
  BY <1>1, <1>4, <1>5, <1>6, <1>7, <1>8 DEF Kinds

-----------------------------------------------------------------------------

(* The signals of a batch are no more than the batch is long.              *)
LEMMA ChunkIsSmall ==
  ASSUME NEW q \in Seq(Sid), NEW i \in Nat, NEW j \in Nat, i <= j, j <= Len(q),
         NEW T \in SUBSET {q[k] : k \in (i + 1)..j}
  PROVE  IsFiniteSet(T) /\ Cardinality(T) <= j - i
<1>. DEFINE D == (i + 1)..j
            S == {q[k] : k \in D}
            f == [k \in D |-> q[k]]
<1>1. IsFiniteSet(D) /\ Cardinality(D) = j - i
  <2>1. i + 1 \in Int /\ j \in Int
    OBVIOUS
  <2>2. /\ IsFiniteSet(D)
        /\ Cardinality(D) = IF i + 1 > j THEN 0 ELSE j - (i + 1) + 1
    BY <2>1, FS_Interval
  <2>. QED
    BY <2>2
<1>2. f \in Surjection(D, S)
  BY DEF Surjection
<1>3. IsFiniteSet(S) /\ Cardinality(S) <= j - i
  BY <1>1, <1>2, FS_Surjection
<1>4. IsFiniteSet(T) /\ Cardinality(T) <= Cardinality(S)
  BY <1>3, FS_Subset
<1>5. Cardinality(T) \in Nat /\ Cardinality(S) \in Nat
  BY <1>3, <1>4, FS_CardinalityType
<1>. QED
  BY <1>3, <1>4, <1>5

(* Facts of the command and of the pass being made.                        *)
LEMMA CurrentPass ==
  ASSUME IInv
  PROVE  /\ command.sel \in Seq(Sid) /\ Len(command.sel) \in Nat /\ at \in Nat
         /\ passes # << >> =>
              /\ command \in Commands
              /\ Head(passes) = passes[1] /\ 1 \in DOMAIN passes
              /\ Head(passes) \in PassType
              /\ ChunkEnd \in Nat /\ at <= ChunkEnd /\ ChunkEnd <= Len(command.sel)
              /\ at < Len(command.sel) => at < ChunkEnd
              /\ Head(passes).how # "eager" => ChunkEnd - at <= Head(passes).batch
              /\ Chunk \subseteq Sid
<1>1. /\ command \in Commands \cup {Idle} /\ passes \in Seq(PassType)
      /\ at \in Nat /\ at <= Len(command.sel)
      /\ command = Idle => passes = << >>
  BY DEF IInv, TypeOK, PinsSound
<1>2. command.sel \in Seq(Sid)
  BY <1>1, CommandsAssumption DEF Idle
<1>3. Len(command.sel) \in Nat
  BY <1>2
<1>4. ASSUME passes # << >>
      PROVE  Head(passes) = passes[1] /\ 1 \in DOMAIN passes /\ Head(passes) \in PassType
  BY <1>1, <1>4
<1>5. ASSUME passes # << >>
      PROVE  /\ ChunkEnd \in Nat /\ at <= ChunkEnd /\ ChunkEnd <= Len(command.sel)
             /\ at < Len(command.sel) => at < ChunkEnd
             /\ Head(passes).how # "eager" => ChunkEnd - at <= Head(passes).batch
  <2>1. Head(passes).batch \in Nat \ {0}
    BY <1>4, <1>5 DEF PassType
  <2>. QED
    BY <1>1, <1>3, <2>1 DEF ChunkEnd
<1>6. ASSUME passes # << >>  PROVE Chunk \subseteq Sid
  BY <1>1, <1>2, <1>3, <1>5, <1>6 DEF Chunk
<1>. QED
  BY <1>1, <1>2, <1>3, <1>4, <1>5, <1>6

(* Needs speaks of ticks of the file.                                      *)
LEMMA NeedsAreTicks ==
  ASSUME NEW c \in Commands  PROVE Needs(c) \subseteq Tick
BY CommandsAssumption DEF Needs, Window, Kinds

(* The session starts with an empty cache and nothing under way.           *)
LEMMA InitEstablishes == CacheInit => IInv
<1>. SUFFICES ASSUME CacheInit  PROVE IInv
  OBVIOUS
<1>1. TypeOK
  BY DEF CacheInit, TypeOK
<1>2. Idle.sel = << >> /\ Len(<< >>) = 0
  BY DEF Idle
<1>. QED
  BY <1>1, <1>2
     DEF CacheInit, IInv, CacheHoldsHistories, PinsSound, PassesSound, BatchSound,
         MemoryBounded, Reading

(* A line begins with its passes all due.                                  *)
LEMMA LinePreserves ==
  ASSUME IInv, NEW c \in Commands, Line(c)
  PROVE  IInv'
<1>1. /\ command = Idle /\ command' = c /\ passes' = Passes(c) /\ at' = 0
      /\ step' = "load" /\ served' = served /\ stopped' = stopped /\ pinned' = pinned
      /\ seeks' = seeks /\ cache' = cache /\ fresh' = fresh
  BY DEF Line
<1>2. WellMade(c, Passes(c))
  BY PassesOfCommand
<1>3. step = "load" /\ fresh = {} /\ pinned = cache
  BY <1>1 DEF IInv, TypeOK, PinsSound, BatchSound, Reading
<1>4. TypeOK'
  BY <1>1, <1>2, <1>3 DEF IInv, TypeOK, WellMade
<1>5. c.sel \in Seq(Sid) /\ Len(c.sel) \in Nat
  BY CommandsAssumption
<1>6. command' # Idle
  BY <1>1, CommandsAssumption DEF Idle, Kinds
<1>7. CacheHoldsHistories' /\ PinsSound'
  BY <1>1, <1>6 DEF IInv, CacheHoldsHistories, PinsSound
<1>8. PassesSound'
  BY <1>1, <1>2 DEF PassesSound, WellMade, PassSound, MayPrecede
<1>9. BatchSound'
  BY <1>1, <1>3 DEF BatchSound
<1>10. ASSUME NEW i \in DOMAIN c.sel, NEW t \in Needs(c)
       PROVE  Due(i, t)'
  <2>1. PICK k \in DOMAIN Passes(c) : t \in Passes(c)[k].ask
    BY <1>2 DEF WellMade
  <2>2. i > at'
    BY <1>1, <1>5
  <2>. QED
    BY <1>1, <2>1, <2>2 DEF Due
<1>11. MemoryBounded'
  <2>. SUFFICES ASSUME Reading({"batched", "windowed"})'
                PROVE  Cardinality(fresh') <= Head(passes').batch
    BY <1>1, <1>3 DEF MemoryBounded
  <2>1. passes' # << >> /\ passes' \in Seq(PassType)
    BY <1>1, <1>2 DEF Reading, WellMade
  <2>2. Head(passes').batch \in Nat
    <3>1. Head(passes') \in PassType
      BY <2>1
    <3>. QED
      BY <3>1 DEF PassType
  <2>. QED
    BY <1>1, <1>3, <2>2, FS_EmptySet
<1>. QED
  BY <1>1, <1>4, <1>5, <1>6, <1>7, <1>8, <1>9, <1>10, <1>11 DEF IInv

(* A batch is loaded: what was missing is now resident, as far as its      *)
(* decode got.                                                             *)
LEMMA LoadPreserves ==
  ASSUME IInv, Load
  PROVE  IInv'
<1>1. /\ Reading({"eager", "batched"}) /\ step = "load" /\ at < Len(command.sel)
      /\ fresh' = (IF Head(passes).how = "batched" THEN Missing ELSE {})
      /\ step' = "visit"
      /\ seeks' = seeks /\ command' = command /\ passes' = passes /\ at' = at
      /\ served' = served /\ pinned' = pinned
  BY DEF Load
<1>2. PICK told \in [Missing -> InitialParts] :
        /\ cache' = [s \in Sid |-> IF s \in Missing THEN told[s] ELSE cache[s]]
        /\ stopped' = stopped \cup {s \in Missing : told[s] # Tick}
  BY DEF Load, EnsureLoaded
<1>3. passes # << >> /\ Head(passes).how \in {"eager", "batched"}
  BY <1>1 DEF Reading
<1>4. /\ command.sel \in Seq(Sid) /\ Len(command.sel) \in Nat /\ at \in Nat
      /\ command \in Commands /\ Head(passes) \in PassType
      /\ ChunkEnd \in Nat /\ at <= ChunkEnd /\ ChunkEnd <= Len(command.sel)
      /\ Head(passes).how # "eager" => ChunkEnd - at <= Head(passes).batch
      /\ Chunk \subseteq Sid
      /\ command # Idle
  BY <1>3, CurrentPass, CommandsAssumption DEF Idle, Kinds
<1>5. /\ cache \in [Sid -> {Absent} \cup SUBSET Tick] /\ fresh = {}
      /\ \A s \in Sid : pinned[s] # Absent => cache[s] = pinned[s]
  BY <1>1 DEF IInv, TypeOK, PinsSound, BatchSound
<1>6. /\ Missing \subseteq Chunk /\ \A s \in Chunk : s \in Missing <=> cache[s] = Absent
      /\ \A s \in Missing : told[s] \in InitialParts /\ told[s] # Absent
      /\ InitialParts \subseteq SUBSET Tick
  BY AbsentAssumption DEF Missing, InitialParts
<1>7. TypeOK'
  BY <1>1, <1>2, <1>4, <1>5, <1>6 DEF IInv, TypeOK
<1>8. CacheHoldsHistories'
  BY <1>1, <1>2, <1>4, <1>5, <1>6 DEF IInv, CacheHoldsHistories, InitialParts
<1>9. \A s \in Sid : pinned'[s] # Absent => cache'[s] = pinned'[s]
  BY <1>1, <1>2, <1>5, <1>6, <1>4
<1>10. PassesSound' /\ PinsSound'
  BY <1>1, <1>4, <1>9 DEF IInv, PassesSound, PinsSound
<1>11. ASSUME NEW s \in Chunk
       PROVE  cache'[s] # Absent /\ (s \in fresh' => pinned'[s] = Absent)
  BY <1>1, <1>2, <1>4, <1>5, <1>6
<1>12. BatchSound'
  <2>1. Chunk' = Chunk
    BY <1>1 DEF Chunk, ChunkEnd
  <2>2. fresh' \subseteq Chunk' /\ (fresh' # {} => Reading({"batched"})')
    BY <1>1, <1>3, <1>6, <2>1 DEF Reading
  <2>3. Reading({"eager", "batched"})'
    BY <1>1 DEF Reading
  <2>. QED
    BY <1>1, <1>11, <2>1, <2>2, <2>3 DEF BatchSound
<1>13. ASSUME NEW i \in DOMAIN command.sel, NEW t \in Needs(command)
       PROVE  (Covered(i, t) \/ Due(i, t) \/ Lost(command.sel[i], t))'
  <2>1. Covered(i, t) \/ Due(i, t) \/ Lost(command.sel[i], t)
    BY <1>4 DEF IInv
  <2>. QED
    BY <1>1, <1>2, <2>1 DEF Covered, Due, Lost
<1>14. MemoryBounded'
  <2>. SUFFICES ASSUME Reading({"batched", "windowed"})'
                PROVE  /\ Cardinality(fresh') <= Head(passes).batch
                       /\ \A s \in Sid : cache'[s] # Absent /\ pinned[s] = Absent =>
                            s \in fresh' \/ (command.kind = "dump" /\ ~should_stream(command))
    BY <1>1, <1>9 DEF MemoryBounded, should_stream
  <2>1. Head(passes).how = "batched" /\ fresh' = Missing
    BY <1>1, <1>3 DEF Reading
  <2>2. Missing \in SUBSET {command.sel[k] : k \in (at + 1)..ChunkEnd}
    BY <1>6 DEF Chunk
  <2>3. IsFiniteSet(Missing) /\ Cardinality(Missing) <= ChunkEnd - at
    BY <1>4, <2>2, ChunkIsSmall
  <2>4. Cardinality(Missing) \in Nat /\ Head(passes).batch \in Nat
    BY <1>4, <2>3, FS_CardinalityType DEF PassType
  <2>5. Reading({"batched", "windowed"})
    BY <1>3, <2>1 DEF Reading
  <2>6. \A s \in Sid : cache[s] # Absent /\ pinned[s] = Absent =>
          command.kind = "dump" /\ ~should_stream(command)
    BY <1>5, <2>5 DEF IInv, MemoryBounded
  <2>. QED
    BY <1>2, <1>4, <2>1, <2>3, <2>4, <2>6
<1>. QED
  BY <1>1, <1>7, <1>8, <1>10, <1>12, <1>13, <1>14 DEF IInv

(* Every resident signal of the batch is visited.                          *)
LEMMA VisitPreserves ==
  ASSUME IInv, VisitLoaded
  PROVE  IInv'
<1>1. /\ Reading({"eager", "batched"}) /\ step = "visit" /\ step' = "release"
      /\ served' = served \cup {Visit(s, cache[s]) : s \in {r \in Chunk : cache[r] # Absent}}
      /\ seeks' = seeks /\ cache' = cache /\ command' = command /\ passes' = passes
      /\ at' = at /\ fresh' = fresh /\ stopped' = stopped /\ pinned' = pinned
  BY DEF VisitLoaded
<1>2. passes # << >>
  BY <1>1 DEF Reading
<1>3. /\ command.sel \in Seq(Sid) /\ Head(passes) \in PassType /\ Chunk \subseteq Sid
      /\ cache \in [Sid -> {Absent} \cup SUBSET Tick]
  BY <1>2, CurrentPass DEF IInv, TypeOK
<1>4. /\ Chunk' = Chunk
      /\ \A s \in Chunk : cache[s] # Absent
      /\ \A s : Visit(s, cache[s])' = Visit(s, cache[s])
  BY <1>1 DEF Chunk, ChunkEnd, IInv, BatchSound, Visit
<1>5. TypeOK'
  <2>1. \A s \in Chunk : Visit(s, cache[s]) \in [sid : Sid, ask : SUBSET Tick, told : SUBSET Tick]
    BY <1>3, <1>4 DEF Visit, PassType
  <2>. QED
    BY <1>1, <2>1 DEF IInv, TypeOK
<1>6. command # Idle
  BY <1>2 DEF IInv, PinsSound
<1>7. CacheHoldsHistories' /\ PinsSound' /\ PassesSound'
  BY <1>1, <1>6 DEF IInv, CacheHoldsHistories, PinsSound, PassesSound
<1>8. \A s \in Chunk : Visit(s, cache[s]) \in served'
  BY <1>1, <1>3, <1>4
<1>9. BatchSound'
  BY <1>1, <1>4, <1>8 DEF IInv, BatchSound, Reading
<1>10. ASSUME NEW i \in DOMAIN command.sel, NEW t \in Needs(command)
       PROVE  (Covered(i, t) \/ Due(i, t) \/ Lost(command.sel[i], t))'
  BY <1>1, <1>6, <1>10 DEF IInv, Covered, Due, Lost
<1>11. MemoryBounded'
  BY <1>1 DEF IInv, MemoryBounded, Reading, should_stream
<1>. QED
  BY <1>1, <1>5, <1>7, <1>9, <1>10, <1>11 DEF IInv

(* What the batch loaded is released, and its signals are done with.       *)
LEMMA ReleasePreserves ==
  ASSUME IInv, Release
  PROVE  IInv'
<1>1. /\ Reading({"eager", "batched"}) /\ step = "release"
      /\ cache' = [s \in Sid |-> IF s \in fresh THEN Absent ELSE cache[s]]
      /\ fresh' = {} /\ at' = ChunkEnd /\ step' = "load"
      /\ seeks' = seeks /\ command' = command /\ passes' = passes
      /\ served' = served /\ stopped' = stopped /\ pinned' = pinned
  BY DEF Release, Released
<1>2. passes # << >>
  BY <1>1 DEF Reading
<1>3. /\ command.sel \in Seq(Sid) /\ Len(command.sel) \in Nat /\ at \in Nat
      /\ command \in Commands /\ Head(passes) \in PassType
      /\ Head(passes) = passes[1] /\ 1 \in DOMAIN passes
      /\ ChunkEnd \in Nat /\ at <= ChunkEnd /\ ChunkEnd <= Len(command.sel)
      /\ Chunk \subseteq Sid
      /\ command # Idle
  BY <1>2, CurrentPass, CommandsAssumption DEF Idle, Kinds
<1>4. /\ cache \in [Sid -> {Absent} \cup SUBSET Tick] /\ fresh \subseteq Chunk
      /\ CacheHoldsHistories
      /\ \A s \in Sid : pinned[s] # Absent => cache[s] = pinned[s]
      /\ \A s \in Chunk : cache[s] # Absent /\ (s \in fresh => pinned[s] = Absent)
      /\ \A s \in Chunk : Visit(s, cache[s]) \in served
  BY <1>1 DEF IInv, TypeOK, PinsSound, BatchSound
<1>5. TypeOK'
  BY <1>1, <1>3, <1>4 DEF IInv, TypeOK
<1>6. CacheHoldsHistories' /\ \A s \in Sid : pinned'[s] # Absent => cache'[s] = pinned'[s]
  BY <1>1, <1>3, <1>4 DEF CacheHoldsHistories, InitialParts
<1>7. PassesSound' /\ PinsSound' /\ BatchSound'
  BY <1>1, <1>3, <1>6 DEF IInv, PassesSound, PinsSound, BatchSound
<1>8. ASSUME NEW i \in DOMAIN command.sel, NEW t \in Needs(command)
      PROVE  (Covered(i, t) \/ Due(i, t) \/ Lost(command.sel[i], t))'
  <2>1. CASE Covered(i, t) \/ Lost(command.sel[i], t)
    BY <1>1, <2>1 DEF Covered, Lost
  <2>2. CASE Due(i, t)
    <3>1. PICK k \in DOMAIN passes : t \in passes[k].ask /\ (k > 1 \/ i > at)
      BY <2>2 DEF Due
    <3>2. CASE k > 1 \/ i > ChunkEnd
      BY <1>1, <3>1, <3>2 DEF Due
    <3>3. CASE ~(k > 1 \/ i > ChunkEnd)
      <4>. DEFINE s == command.sel[i]
      <4>1. k = 1 /\ i \in (at + 1)..ChunkEnd
        BY <1>3, <3>1, <3>3 DEF IInv, TypeOK
      <4>2. s \in Chunk /\ s \in Sid /\ t \in Tick
        BY <1>3, <4>1, NeedsAreTicks DEF Chunk
      <4>3. Visit(s, cache[s]) \in served'
        BY <1>1, <1>4, <4>2
      <4>4. CASE t \in cache[s]
        <5>1. /\ Visit(s, cache[s]).sid = s
              /\ t \in Visit(s, cache[s]).ask
              /\ t \in Visit(s, cache[s]).told
          BY <1>3, <3>1, <4>1, <4>4 DEF Visit
        <5>. QED
          BY <1>1, <4>3, <5>1 DEF Covered
      <4>5. CASE t \notin cache[s]
        <5>1. s \in stopped \/ (cache[s] = pinned[s] /\ pinned[s] # Absent)
          BY <1>4, <4>2, <4>5 DEF CacheHoldsHistories
        <5>. QED
          BY <1>1, <4>5, <5>1 DEF Lost
      <4>. QED
        BY <4>4, <4>5
    <3>. QED
      BY <3>2, <3>3
  <2>. QED
    BY <1>3, <2>1, <2>2 DEF IInv
<1>9. MemoryBounded'
  <2>. SUFFICES ASSUME Reading({"batched", "windowed"})
                PROVE  /\ Cardinality({}) <= Head(passes).batch
                       /\ \A s \in Sid : cache'[s] # Absent /\ pinned[s] = Absent =>
                            command.kind = "dump" /\ ~should_stream(command)
    BY <1>1, <1>6 DEF MemoryBounded, should_stream, Reading
  <2>1. Cardinality({}) <= Head(passes).batch
    BY <1>3, FS_EmptySet DEF PassType
  <2>2. \A s \in Sid : cache[s] # Absent /\ pinned[s] = Absent =>
          s \in fresh \/ (command.kind = "dump" /\ ~should_stream(command))
    BY DEF IInv, MemoryBounded
  <2>. QED
    BY <1>1, <2>1, <2>2
<1>. QED
  BY <1>1, <1>3, <1>5, <1>6, <1>7, <1>8, <1>9 DEF IInv

(* A batch is decoded for a window and visited; the cache is left alone.   *)
LEMMA WindowPreserves ==
  ASSUME IInv, WindowBatch
  PROVE  IInv'
<1>1. PICK span \in {Window(Head(passes).from, Head(passes).to), Tick} :
      \E told \in [Chunk -> {span \cap p : p \in InitialParts}] :
        /\ served' = served \cup {Visit(s, told[s]) : s \in Chunk}
        /\ cache' = cache
        /\ stopped' = stopped \cup {s \in Chunk : told[s] # span}
  BY DEF WindowBatch, AfterWindow
<1>2. PICK told \in [Chunk -> {span \cap p : p \in InitialParts}] :
        /\ served' = served \cup {Visit(s, told[s]) : s \in Chunk}
        /\ cache' = cache
        /\ stopped' = stopped \cup {s \in Chunk : told[s] # span}
  BY <1>1
<1>3. /\ Reading({"windowed"}) /\ at < Len(command.sel) /\ at' = ChunkEnd
      /\ seeks' = seeks /\ command' = command /\ passes' = passes
      /\ fresh' = fresh /\ step' = step /\ pinned' = pinned
  BY DEF WindowBatch
<1>4. passes # << >> /\ Head(passes).how = "windowed"
  BY <1>3 DEF Reading
<1>5. /\ command.sel \in Seq(Sid) /\ Len(command.sel) \in Nat /\ at \in Nat
      /\ command \in Commands /\ Head(passes) \in PassType
      /\ Head(passes) = passes[1] /\ 1 \in DOMAIN passes
      /\ ChunkEnd \in Nat /\ at <= ChunkEnd /\ ChunkEnd <= Len(command.sel)
      /\ Chunk \subseteq Sid
      /\ command # Idle
  BY <1>4, CurrentPass, CommandsAssumption DEF Idle, Kinds
<1>6. step = "load" /\ fresh = {}
  BY <1>4 DEF IInv, TypeOK, BatchSound, Reading
<1>7. span \in SUBSET Tick /\ Head(passes).ask \subseteq span
  <2>1. Head(passes).ask \subseteq Window(Head(passes).from, Head(passes).to)
    BY <1>4, <1>5 DEF IInv, PassesSound
  <2>. QED
    BY <1>5, <2>1 DEF Window, PassType
<1>8. TypeOK'
  <2>1. \A s \in Chunk : told[s] \in SUBSET Tick
    BY <1>7
  <2>2. \A s \in Chunk : Visit(s, told[s]) \in [sid : Sid, ask : SUBSET Tick, told : SUBSET Tick]
    BY <1>5, <2>1 DEF Visit, PassType
  <2>. QED
    BY <1>2, <1>3, <1>5, <2>2 DEF IInv, TypeOK
<1>9. CacheHoldsHistories' /\ PinsSound' /\ PassesSound' /\ BatchSound'
  BY <1>2, <1>3, <1>5, <1>6
     DEF IInv, CacheHoldsHistories, PinsSound, PassesSound, BatchSound
<1>10. ASSUME NEW i \in DOMAIN command.sel, NEW t \in Needs(command)
       PROVE  (Covered(i, t) \/ Due(i, t) \/ Lost(command.sel[i], t))'
  <2>1. CASE Covered(i, t) \/ Lost(command.sel[i], t)
    BY <1>2, <1>3, <2>1 DEF Covered, Lost
  <2>2. CASE Due(i, t)
    <3>1. PICK k \in DOMAIN passes : t \in passes[k].ask /\ (k > 1 \/ i > at)
      BY <2>2 DEF Due
    <3>2. CASE k > 1 \/ i > ChunkEnd
      BY <1>3, <3>1, <3>2 DEF Due
    <3>3. CASE ~(k > 1 \/ i > ChunkEnd)
      <4>. DEFINE s == command.sel[i]
      <4>1. k = 1 /\ i \in (at + 1)..ChunkEnd
        BY <1>5, <3>1, <3>3 DEF IInv, TypeOK
      <4>2. s \in Chunk /\ t \in span
        BY <1>5, <1>7, <3>1, <4>1 DEF Chunk
      <4>3. CASE t \in told[s]
        <5>1. /\ Visit(s, told[s]) \in served'
              /\ Visit(s, told[s]).sid = s
              /\ t \in Visit(s, told[s]).ask
              /\ t \in Visit(s, told[s]).told
          BY <1>2, <1>5, <3>1, <4>1, <4>2, <4>3 DEF Visit
        <5>. QED
          BY <1>3, <5>1 DEF Covered
      <4>4. CASE t \notin told[s]
        BY <1>2, <1>3, <4>2, <4>4 DEF Lost
      <4>. QED
        BY <4>3, <4>4
    <3>. QED
      BY <3>2, <3>3
  <2>. QED
    BY <1>5, <2>1, <2>2 DEF IInv
<1>11. MemoryBounded'
  BY <1>2, <1>3 DEF IInv, MemoryBounded, Reading, should_stream
<1>. QED
  BY <1>3, <1>4, <1>5, <1>8, <1>9, <1>10, <1>11 DEF IInv

(* A pass is over; what it did not serve, a later one is still to.         *)
LEMMA EndPassPreserves ==
  ASSUME IInv, EndPass
  PROVE  IInv'
<1>1. /\ passes # << >> /\ step = "load" /\ at = Len(command.sel)
      /\ passes' = Tail(passes) /\ at' = 0
      /\ seeks' = seeks /\ cache' = cache /\ command' = command /\ fresh' = fresh
      /\ step' = step /\ served' = served /\ stopped' = stopped
      /\ pinned' = pinned
  BY DEF EndPass
<1>2. /\ command.sel \in Seq(Sid) /\ Len(command.sel) \in Nat
      /\ command \in Commands /\ Head(passes) \in PassType
      /\ Head(passes) = passes[1] /\ passes \in Seq(PassType)
  BY <1>1, CurrentPass DEF IInv, TypeOK
<1>3. /\ passes' \in Seq(PassType) /\ Len(passes') = Len(passes) - 1
      /\ \A k \in DOMAIN passes' : k + 1 \in DOMAIN passes /\ passes'[k] = passes[k + 1]
      /\ \A k \in DOMAIN passes : k > 1 => k - 1 \in DOMAIN passes' /\ passes'[k - 1] = passes[k]
  BY <1>1, <1>2
<1>4. fresh = {} /\ command # Idle
  BY <1>1 DEF IInv, PinsSound, BatchSound
<1>5. TypeOK' /\ CacheHoldsHistories' /\ PinsSound'
  BY <1>1, <1>3, <1>4 DEF IInv, TypeOK, CacheHoldsHistories, PinsSound
<1>6. PassesSound'
  <2>. SUFFICES ASSUME NEW k \in DOMAIN passes'
                PROVE  /\ passes'[k].how = "windowed" =>
                            passes'[k].ask \subseteq Window(passes'[k].from, passes'[k].to)
                       /\ passes'[k].how = "eager" /\ k < Len(passes') =>
                            command.kind = "dump" /\ ~should_stream(command)
    BY <1>1 DEF PassesSound, should_stream
  <2>1. k + 1 \in DOMAIN passes /\ passes'[k] = passes[k + 1]
        /\ (k < Len(passes') => k + 1 < Len(passes))
    BY <1>2, <1>3
  <2>. QED
    BY <2>1 DEF IInv, PassesSound
<1>7. BatchSound'
  BY <1>1, <1>4 DEF BatchSound
<1>8. ASSUME NEW i \in DOMAIN command.sel, NEW t \in Needs(command)
      PROVE  (Covered(i, t) \/ Due(i, t) \/ Lost(command.sel[i], t))'
  <2>1. CASE Covered(i, t) \/ Lost(command.sel[i], t)
    BY <1>1, <2>1 DEF Covered, Lost
  <2>2. CASE Due(i, t)
    <3>1. PICK k \in DOMAIN passes : t \in passes[k].ask /\ (k > 1 \/ i > at)
      BY <2>2 DEF Due
    <3>2. k > 1 /\ i > 0
      BY <1>1, <1>2, <3>1
    <3>. QED
      BY <1>1, <1>3, <3>1, <3>2 DEF Due
  <2>. QED
    BY <1>4, <2>1, <2>2 DEF IInv
<1>9. MemoryBounded'
  <2>. SUFFICES ASSUME Reading({"batched", "windowed"})'
                PROVE  /\ Cardinality({}) <= Head(passes').batch
                       /\ \A s \in Sid : cache[s] # Absent /\ pinned[s] = Absent =>
                            command.kind = "dump" /\ ~should_stream(command)
    BY <1>1, <1>4 DEF IInv, PinsSound, MemoryBounded, should_stream
  <2>1. passes' # << >> /\ 1 < Len(passes) /\ 1 \in DOMAIN passes
    BY <1>1, <1>2, <1>3 DEF Reading
  <2>2. Cardinality({}) <= Head(passes').batch
    <3>1. Head(passes') \in PassType
      BY <1>3, <2>1
    <3>. QED
      BY <3>1, FS_EmptySet DEF PassType
  <2>3. CASE Head(passes).how = "eager"
    BY <1>2, <2>1, <2>2, <2>3 DEF IInv, PassesSound
  <2>4. CASE Head(passes).how # "eager"
    <3>1. Reading({"batched", "windowed"})
      BY <1>1, <1>2, <2>4 DEF Reading, PassType
    <3>. QED
      BY <1>4, <2>2, <3>1 DEF IInv, MemoryBounded
  <2>. QED
    BY <2>3, <2>4
<1>. QED
  BY <1>1, <1>2, <1>4, <1>5, <1>6, <1>7, <1>8, <1>9 DEF IInv

(* The answer is printed; the traces stay.                                 *)
LEMMA ReplyPreserves ==
  ASSUME IInv, Reply
  PROVE  IInv'
<1>1. /\ passes = << >> /\ command' = Idle /\ served' = {} /\ stopped' = {}
      /\ pinned' = cache
      /\ seeks' = seeks /\ cache' = cache /\ passes' = passes /\ at' = at
      /\ fresh' = fresh /\ step' = step
  BY DEF Reply
<1>2. at = 0 /\ step = "load" /\ fresh = {}
  BY <1>1 DEF IInv, TypeOK, BatchSound, Reading
<1>3. Idle.sel = << >> /\ Len(<< >>) = 0
  BY DEF Idle
<1>4. TypeOK'
  BY <1>1 DEF IInv, TypeOK
<1>5. CacheHoldsHistories' /\ PinsSound'
  BY <1>1 DEF IInv, CacheHoldsHistories, PinsSound, InitialParts
<1>. QED
  BY <1>1, <1>2, <1>3, <1>4, <1>5
     DEF IInv, PassesSound, BatchSound, MemoryBounded, Reading

(* IInv is inductive.                                                      *)
LEMMA StepPreserves == IInv /\ [CacheNext]_cachevars => IInv'
<1>. SUFFICES ASSUME IInv, [CacheNext]_cachevars  PROVE IInv'
  OBVIOUS
<1>1. CASE \E c \in Commands : Line(c)
  BY <1>1, LinePreserves
<1>2. CASE Load
  BY <1>2, LoadPreserves
<1>3. CASE VisitLoaded
  BY <1>3, VisitPreserves
<1>4. CASE Release
  BY <1>4, ReleasePreserves
<1>5. CASE WindowBatch
  BY <1>5, WindowPreserves
<1>6. CASE EndPass
  BY <1>6, EndPassPreserves
<1>7. CASE Reply
  BY <1>7, ReplyPreserves
<1>8. CASE UNCHANGED cachevars
  BY <1>8 DEF cachevars, IInv, TypeOK, CacheHoldsHistories, PinsSound, PassesSound,
              BatchSound, MemoryBounded, Reading, Chunk, ChunkEnd, Covered, Due, Lost, Visit,
              should_stream
<1>. QED
  BY <1>1, <1>2, <1>3, <1>4, <1>5, <1>6, <1>7, <1>8 DEF CacheNext, Work

-----------------------------------------------------------------------------

(* The cache, the passes and the cursor keep their types and the           *)
(* strengthened invariant holds, whatever lines the session holds.         *)
THEOREM CacheInvariant == CacheSpec => []IInv
  BY InitEstablishes, StepPreserves, PTL DEF CacheSpec

(* A window's trace is never cached, and what is cached is the whole       *)
(* history unless a full decode of it stopped part way.                    *)
THEOREM CachedTracesAreHistories == CacheSpec => []CacheHoldsHistories
<1>1. IInv => CacheHoldsHistories
  BY DEF IInv
<1>. QED
  BY <1>1, CacheInvariant, PTL

(* A line of a batch session reads every tick its answer depends on, for   *)
(* each signal it selects, whatever the lines before it left cached, but   *)
(* for the ticks a decode that stopped did not reach.                      *)
THEOREM BatchLinesAreComplete == CacheSpec => []AnswerIsComplete
<1>1. IInv => AnswerIsComplete
  <2>. SUFFICES ASSUME IInv, command # Idle, passes = << >>,
                       NEW i \in DOMAIN command.sel, NEW t \in Needs(command)
                PROVE  Covered(i, t) \/ Lost(command.sel[i], t)
    BY DEF AnswerIsComplete, Answered
  <2>1. ~Due(i, t)
    BY DEF Due
  <2>. QED
    BY <2>1 DEF IInv
<1>. QED
  BY <1>1, CacheInvariant, PTL

(* Streaming keeps at most one batch beyond what was resident, and evicts  *)
(* nothing that was.                                                       *)
THEOREM StreamingIsBounded == CacheSpec => []MemoryBounded
<1>1. IInv => MemoryBounded
  BY DEF IInv
<1>. QED
  BY <1>1, CacheInvariant, PTL
=============================================================================
