-------------------------- MODULE DesignTraceProofs --------------------------
(***************************************************************************)
(* For any designs, databases, signal tables and sessions: a trace line is *)
(* answered from the design it means, a licence is checked out only by a   *)
(* line that has all else it needs, the answer gives back what the walk    *)
(* reported, and the values in it are those of the signals they stand by.  *)
(*                                                                         *)
(* The first two need no assumption on the constants.  The loops of the    *)
(* parser are followed by what they have after each line: what is parsed   *)
(* of two texts, one after the other, is parsed of the second from where   *)
(* the first left off, so a statement, a group and a dump are each read    *)
(* back whatever came before them.                                         *)
(***************************************************************************)
EXTENDS DesignTrace, SequenceTheorems, FiniteSetTheorems, WellFoundedInduction, TLAPS

(* What a line has established by the step it is at.                       *)
Asking == step \in {"probe", "ensure", "load", "trace", "annotate"}
Naming == step \in {"ensure", "load", "trace", "annotate"}
Walking == step \in {"trace", "annotate"}

LineIsFit == Asking => ~line.malformed /\ builtin /\ path # ""
DatabaseIsMeant == Naming => Meant(kdb)
LoadIsDue == step = "load" => l1 /\ symbols # "none" /\ loaded = NoDesign
WantedIsLoaded == Walking => loaded = Want
SignalIsThere == step = "annotate" => <<kdb, TopArg(line.top), path>> \in InDesign

(* The session's record is never ahead of the library: what it says is     *)
(* loaded is what NPI holds.                                               *)
RecordIsTrue == loaded # NoDesign => held = <<loaded[1], TopArg(loaded[2])>>

IInv ==
  /\ LineIsFit /\ DatabaseIsMeant /\ LoadIsDue
  /\ WantedIsLoaded /\ SignalIsThere /\ RecordIsTrue
  /\ AnsweredFromMeantDesign

-----------------------------------------------------------------------------

(* A usable path names its own database, or is it.                         *)
LEMMA NormalizedIsInIt ==
  ASSUME NEW p, normalize_kdb(p).ok
  PROVE  normalize_kdb(p).kdb \in Databases /\ normalize_kdb(p).kdb \in {p, Elab[p]}
<1>1. CASE p \in Databases
  BY <1>1 DEF normalize_kdb
<1>2. CASE p \notin Databases /\ Elab[p] \in Databases
  BY <1>2 DEF normalize_kdb
<1>3. CASE p \notin Databases /\ Elab[p] \notin Databases
  BY <1>3 DEF normalize_kdb
<1>4. QED  BY <1>1, <1>2, <1>3

(* Giving a refusal another reason changes nothing of an acceptance.       *)
LEMMA RenamedAccepts ==
  ASSUME NEW p, NEW why, Renamed(normalize_kdb(p), why).ok
  PROVE  normalize_kdb(p).ok /\ Renamed(normalize_kdb(p), why) = normalize_kdb(p)
<1>1. CASE normalize_kdb(p).ok
  BY <1>1 DEF Renamed
<1>2. CASE ~normalize_kdb(p).ok
  BY <1>2 DEF Renamed, normalize_kdb
<1>3. QED  BY <1>1, <1>2

(* The database probe_kdb settles on is the one the line means.            *)
LEMMA ProbedIsMeant ==
  ASSUME probe_kdb(line.kdb, recorded_design_dir).ok
  PROVE  Meant(probe_kdb(line.kdb, recorded_design_dir).kdb)
<1>1. CASE ~Blank(line.kdb)
  <2>1. probe_kdb(line.kdb, recorded_design_dir)
          = Renamed(normalize_kdb(line.kdb), "ExplicitMissing")
    BY <1>1 DEF probe_kdb
  <2>2. QED  BY <1>1, <2>1, RenamedAccepts, NormalizedIsInIt DEF Meant
<1>2. CASE Blank(line.kdb)
  <2>1. ~Blank(recorded_design_dir)
    BY <1>2 DEF probe_kdb
  <2>2. recorded_design_dir = recorded
    BY <2>1 DEF recorded_design_dir, Blank
  <2>3. probe_kdb(line.kdb, recorded_design_dir)
          = Renamed(normalize_kdb(recorded), "RecordedGone")
    BY <1>2, <2>1, <2>2 DEF probe_kdb
  <2>4. QED  BY <1>2, <2>3, RenamedAccepts, NormalizedIsInIt DEF Meant
<1>3. QED  BY <1>1, <1>2

-----------------------------------------------------------------------------

LEMMA InitIInv == Init => IInv
<1> SUFFICES ASSUME Init PROVE IInv
  OBVIOUS
<1>1. step = "idle" /\ loaded = NoDesign /\ reply.kind = "none"
  BY DEF Init, NoReply
<1>2. LineIsFit /\ DatabaseIsMeant /\ LoadIsDue /\ WantedIsLoaded /\ SignalIsThere
  BY <1>1 DEF LineIsFit, DatabaseIsMeant, LoadIsDue, WantedIsLoaded, SignalIsThere,
     Asking, Naming, Walking
<1>3. RecordIsTrue /\ AnsweredFromMeantDesign
  BY <1>1 DEF RecordIsTrue, AnsweredFromMeantDesign
<1>4. QED  BY <1>2, <1>3 DEF IInv

LEMMA BeginKeeps == ASSUME IInv, NEW c \in Commands, Begin(c) PROVE IInv'
<1> USE DEF Begin, Go, Answer, environment
<1>1. step' \in {"probe", "answered"}
  OBVIOUS
<1>2. LineIsFit'
  BY DEF LineIsFit, Asking
<1>3. DatabaseIsMeant' /\ LoadIsDue' /\ WantedIsLoaded' /\ SignalIsThere'
  BY <1>1 DEF DatabaseIsMeant, LoadIsDue, WantedIsLoaded, SignalIsThere, Naming, Walking
<1>4. RecordIsTrue'
  BY DEF IInv, RecordIsTrue
<1>5. \/ reply' = NoReply
      \/ reply' = Refused("disabled") \/ reply' = Refused("time")
      \/ reply' = Refused("unsupported") \/ reply' = Refused("name")
  <2> USE DEF Begin
  <2>1. CASE ~enabled(setting)
    BY <2>1
  <2>2. CASE enabled(setting) /\ c.malformed
    BY <2>2
  <2>3. CASE enabled(setting) /\ ~c.malformed
    BY <2>3
  <2>4. QED  BY <2>1, <2>2, <2>3
<1> HIDE DEF Begin
<1>6. reply'.kind = "none" \/ (reply'.kind = "refused" /\ reply'.why # "unknown")
  BY <1>5 DEF Refused, NoReply
<1>7. AnsweredFromMeantDesign'
  BY <1>6 DEF AnsweredFromMeantDesign
<1>8. QED  BY <1>2, <1>3, <1>4, <1>7 DEF IInv

LEMMA ProbeKeeps == ASSUME IInv, Probe PROVE IInv'
<1> DEFINE r == probe_kdb(line.kdb, recorded_design_dir)
<1> USE DEF Go, Answer, environment, Refused, NoReply
<1>1. CASE r.ok
  <2>1. kdb' = r.kdb /\ step' = "ensure" /\ reply' = NoReply
    BY <1>1 DEF Probe
  <2>2. Meant(r.kdb)
    BY <1>1, ProbedIsMeant
  <2>3. DatabaseIsMeant'
    BY <2>1, <2>2 DEF DatabaseIsMeant, Meant, Probe
  <2>4. LineIsFit' /\ RecordIsTrue'
    BY <2>1 DEF Probe, IInv, LineIsFit, Asking, RecordIsTrue
  <2>5. LoadIsDue' /\ WantedIsLoaded' /\ SignalIsThere' /\ AnsweredFromMeantDesign'
    BY <2>1 DEF LoadIsDue, WantedIsLoaded, SignalIsThere, AnsweredFromMeantDesign, Walking
  <2>6. QED  BY <2>3, <2>4, <2>5 DEF IInv
<1>2. CASE ~r.ok
  <2>1. step' = "answered" /\ reply' = Refused(r.why)
    BY <1>2 DEF Probe
  <2>2. r.why \in {"NotElaborated", "NotRecorded", "ExplicitMissing", "RecordedGone"}
    BY <1>2 DEF probe_kdb, Renamed, normalize_kdb
  <2>3. AnsweredFromMeantDesign'
    BY <2>1, <2>2 DEF AnsweredFromMeantDesign
  <2>4. RecordIsTrue'
    BY DEF Probe, IInv, RecordIsTrue
  <2>5. QED
    BY <2>1, <2>3, <2>4 DEF IInv, LineIsFit, DatabaseIsMeant, LoadIsDue, WantedIsLoaded,
       SignalIsThere, Asking, Naming, Walking
<1>3. QED  BY <1>1, <1>2

LEMMA EnsureKeeps == ASSUME IInv, EnsureDesign PROVE IInv'
<1> USE DEF EnsureDesign, Go, Answer, environment, Refused, NoReply, BeforeLoading
<1>1. step' \in {"answered", "trace", "load"} /\ step = "ensure"
  OBVIOUS
<1>2. LineIsFit'
  BY <1>1 DEF IInv, LineIsFit, Asking
<1>3. DatabaseIsMeant'
  BY <1>1 DEF IInv, DatabaseIsMeant, Naming, Meant
<1>4. LoadIsDue' /\ SignalIsThere'
  BY <1>1 DEF LoadIsDue, SignalIsThere
<1>5. WantedIsLoaded'
  BY <1>1 DEF WantedIsLoaded, Walking, Want
<1>6. RecordIsTrue'
  BY DEF IInv, RecordIsTrue
<1>7. reply'.kind = "none" \/ (reply'.kind = "refused" /\ reply'.why # "unknown")
  OBVIOUS
<1>8. QED
  BY <1>2, <1>3, <1>4, <1>5, <1>6, <1>7 DEF IInv, AnsweredFromMeantDesign

LEMMA LoadKeeps == ASSUME IInv, LoadDesign PROVE IInv'
<1> USE DEF LoadDesign, Go, Answer, environment, Refused, NoReply
<1>1. step' \in {"answered", "trace"} /\ step = "load"
  OBVIOUS
<1>2. LineIsFit' /\ DatabaseIsMeant'
  BY <1>1 DEF IInv, LineIsFit, Asking, DatabaseIsMeant, Naming, Meant
<1>3. LoadIsDue' /\ SignalIsThere'
  BY <1>1 DEF LoadIsDue, SignalIsThere
<1>4. WantedIsLoaded'
  BY <1>1 DEF WantedIsLoaded, Walking, Want
<1>5. RecordIsTrue'
  <2>1. CASE held' = <<kdb, TopArg(line.top)>> /\ loaded' = Want
    BY <2>1 DEF RecordIsTrue, Want, TopArg, Blank
  <2>2. CASE held' = NoDesign /\ UNCHANGED loaded
    BY <1>1, <2>2 DEF IInv, LoadIsDue, RecordIsTrue
  <2>3. QED  BY <2>1, <2>2
<1>6. reply'.kind = "none" \/ (reply'.kind = "refused" /\ reply'.why # "unknown")
  OBVIOUS
<1>7. QED
  BY <1>2, <1>3, <1>4, <1>5, <1>6 DEF IInv, AnsweredFromMeantDesign

LEMMA TraceKeeps == ASSUME IInv, Trace PROVE IInv'
<1> USE DEF Go, Answer, environment
<1>1. step = "trace" /\ step' \in {"answered", "annotate"}
  BY DEF Trace
<1>2. LineIsFit' /\ DatabaseIsMeant'
  BY <1>1 DEF Trace, IInv, LineIsFit, Asking, DatabaseIsMeant, Naming, Meant
<1>3. LoadIsDue' /\ WantedIsLoaded' /\ RecordIsTrue'
  BY <1>1 DEF Trace, IInv, LoadIsDue, WantedIsLoaded, Walking, Want, RecordIsTrue
<1>4. loaded = Want /\ held = <<kdb, TopArg(line.top)>> /\ Meant(kdb)
  <2>1. loaded = <<kdb, line.top>> /\ Meant(kdb)
    BY <1>1 DEF IInv, WantedIsLoaded, DatabaseIsMeant, Walking, Naming, Want
  <2>2. loaded # NoDesign
    BY <2>1 DEF NoDesign
  <2>3. held = <<loaded[1], TopArg(loaded[2])>>
    BY <2>2 DEF IInv, RecordIsTrue
  <2>4. QED  BY <2>1, <2>3 DEF Want
<1>5. loaded # NoDesign /\ held # NoDesign /\ held[1] = kdb /\ held[2] = TopArg(line.top)
  BY <1>4 DEF NoDesign, Want
<1>6. Resolves <=> <<kdb, TopArg(line.top), path>> \in InDesign
  BY <1>5 DEF Resolves
<1>7. SignalIsThere'
  BY <1>1, <1>5, <1>6 DEF Trace, SignalIsThere
<1>8. AnsweredFromMeantDesign'
  <2>1. CASE ~Resolves
    <3>1. <<kdb', TopArg(line'.top), path'>> \notin InDesign
      BY <2>1, <1>6 DEF Trace
    <3>2. Meant(kdb)'
      BY <1>4 DEF Trace, Meant
    <3>3. reply' = Refused("unknown")
      BY <2>1 DEF Trace
    <3>4. QED  BY <3>1, <3>2, <3>3 DEF AnsweredFromMeantDesign, Refused
  <2>2. CASE Resolves
    <3>1. reply' = Refused("walk") \/ reply' = NoReply
      BY <2>2, <1>5 DEF Trace
    <3>2. QED  BY <3>1 DEF AnsweredFromMeantDesign, Refused, NoReply
  <2>3. QED  BY <2>1, <2>2
<1>9. QED  BY <1>2, <1>3, <1>7, <1>8 DEF IInv

LEMMA AnnotateKeeps == ASSUME IInv, Annotate PROVE IInv'
<1>1. step = "annotate" /\ step' = "answered" /\ reply'.kind = "traced"
  BY DEF Annotate, Answer
<1>2. UNCHANGED <<environment, held, loaded, line, path, kdb, groups, hops>>
  BY DEF Annotate
<1>3. loaded = Want /\ Meant(kdb) /\ <<kdb, TopArg(line.top), path>> \in InDesign
  BY <1>1 DEF IInv, WantedIsLoaded, DatabaseIsMeant, SignalIsThere, Walking, Naming
<1>4. held = <<kdb, TopArg(line.top)>>
  <2>1. loaded # NoDesign /\ loaded[1] = kdb /\ loaded[2] = line.top
    BY <1>3 DEF Want, NoDesign
  <2>2. QED  BY <2>1 DEF IInv, RecordIsTrue
<1>5. AnsweredFromMeantDesign'
  <2>1. held' = <<kdb', TopArg(line'.top)>> /\ <<kdb', TopArg(line'.top), path'>> \in InDesign
    BY <1>2, <1>3, <1>4
  <2>2. Meant(kdb)'
    BY <1>2, <1>3 DEF Meant, environment
  <2>3. QED  BY <1>1, <2>1, <2>2 DEF AnsweredFromMeantDesign
<1>6. RecordIsTrue'
  BY <1>2 DEF IInv, RecordIsTrue
<1>7. QED
  BY <1>1, <1>5, <1>6 DEF IInv, LineIsFit, DatabaseIsMeant, LoadIsDue, WantedIsLoaded,
     SignalIsThere, Asking, Naming, Walking

LEMMA NextLineKeeps == ASSUME IInv, NextLine PROVE IInv'
<1>1. step' = "idle" /\ reply' = NoReply /\ UNCHANGED <<held, loaded>>
  BY DEF NextLine
<1>2. RecordIsTrue'
  BY <1>1 DEF IInv, RecordIsTrue
<1>3. AnsweredFromMeantDesign'
  BY <1>1 DEF AnsweredFromMeantDesign, NoReply
<1>4. QED
  BY <1>1, <1>2, <1>3 DEF IInv, LineIsFit, DatabaseIsMeant, LoadIsDue, WantedIsLoaded,
     SignalIsThere, Asking, Naming, Walking

LEMMA StutterKeeps == ASSUME IInv, UNCHANGED vars PROVE IInv'
BY DEF vars, environment, IInv, LineIsFit, DatabaseIsMeant, LoadIsDue, WantedIsLoaded,
   SignalIsThere, RecordIsTrue, AnsweredFromMeantDesign, Asking, Naming, Walking, Want, Meant

(* What a trace line has established by each step holds throughout a       *)
(* session of any length, over any designs (design.rs ensure_design,       *)
(* fsdb/design.rs load_design).                                            *)
THEOREM SessionInvariant == Spec => []IInv
<1>1. Init => IInv
  BY InitIInv
<1>2. IInv /\ [Next]_vars => IInv'
  <2> SUFFICES ASSUME IInv, [Next]_vars PROVE IInv'
    OBVIOUS
  <2>1. CASE \E c \in Commands : Begin(c)
    BY <2>1, BeginKeeps
  <2>2. CASE Probe
    BY <2>2, ProbeKeeps
  <2>3. CASE EnsureDesign
    BY <2>3, EnsureKeeps
  <2>4. CASE LoadDesign
    BY <2>4, LoadKeeps
  <2>5. CASE Trace
    BY <2>5, TraceKeeps
  <2>6. CASE Annotate
    BY <2>6, AnnotateKeeps
  <2>7. CASE NextLine
    BY <2>7, NextLineKeeps
  <2>8. CASE UNCHANGED vars
    BY <2>8, StutterKeeps
  <2>9. QED  BY <2>1, <2>2, <2>3, <2>4, <2>5, <2>6, <2>7, <2>8 DEF Next
<1>3. QED  BY <1>1, <1>2, PTL DEF Spec

(* Whatever earlier lines loaded or failed to load, a line is answered     *)
(* from the design it means, and a signal called unknown is unknown there  *)
(* (commands/trace.rs, backend/design.rs probe_kdb).                       *)
THEOREM LinesAnsweredFromMeantDesign == Spec => []AnsweredFromMeantDesign
<1>1. IInv => AnsweredFromMeantDesign
  BY DEF IInv
<1>2. QED  BY <1>1, SessionInvariant, PTL

(* The design NPI holds changes only for a line that has a readable time,  *)
(* a signal of the waveform, a database of its own and the library to      *)
(* answer (commands/trace.rs: nothing is loaded for a line that fails).    *)
THEOREM LicencesAreEarned == Spec => LicenceIsEarned
<1> DEFINE Earned == held' # held => /\ ~line.malformed /\ builtin /\ path # ""
                                    /\ l1 /\ symbols # "none" /\ Meant(kdb)
<1>1. IInv /\ [Next]_vars => [Earned]_vars
  <2> SUFFICES ASSUME IInv, Next, held' # held PROVE Earned
    OBVIOUS
  <2>1. LoadDesign
    BY DEF Next, Begin, Probe, EnsureDesign, Trace, Annotate, NextLine
  <2>2. step = "load"
    BY <2>1 DEF LoadDesign
  <2>3. QED
    BY <2>2 DEF IInv, LineIsFit, LoadIsDue, DatabaseIsMeant, Asking, Naming
<1>2. QED  BY <1>1, SessionInvariant, PTL DEF Spec, LicenceIsEarned
(***************************************************************************)
(* Induction up to n, over a set of numbers.                               *)
(***************************************************************************)
LEMMA UpTo ==
  ASSUME NEW n \in Nat, NEW S, 0 \in S, \A i \in 1..n : i - 1 \in S => i \in S
  PROVE  \A i \in 0..n : i \in S
<1>. DEFINE Missing == {i \in Nat : i \in 0..n /\ i \notin S}
<1>1. SUFFICES ASSUME NEW j \in 0..n, j \notin S PROVE FALSE
  OBVIOUS
<1>2. j \in Missing
  BY <1>1
<1>3. PICK k \in Missing : \A r \in Missing : ~(<<r, k>> \in OpToRel(<, Nat))
  BY <1>2, NatLessThanWellFounded, WFMin
<1>4. k \in Nat /\ k \in 0..n /\ k \notin S
  OBVIOUS
<1>5. k # 0
  BY <1>4
<1>6. k \in 1..n /\ k - 1 \in 0..n /\ k - 1 \in Nat /\ k - 1 < k
  BY <1>4, <1>5
<1>7. k - 1 \notin S
  BY <1>4, <1>6
<1>8. k - 1 \in Missing
  BY <1>6, <1>7
<1>9. <<k - 1, k>> \in OpToRel(<, Nat)
  BY <1>4, <1>6 DEF OpToRel
<1>. QED
  BY <1>3, <1>8, <1>9

(***************************************************************************)
(* The loops of the model, as what they have after each position.          *)
(***************************************************************************)

ParsedUp(after, p, text, n) ==
  /\ DOMAIN after = 0..n
  /\ after[0] = p
  /\ \A i \in 1..n : after[i] = ParseLine(after[i - 1], text[i])

JoinedUp(upto, texts, n) ==
  /\ DOMAIN upto = 0..n
  /\ upto[0] = << >>
  /\ \A i \in 1..n : upto[i] = upto[i - 1] \o texts[i]

More(q, s, i, places) == IF i \in places THEN Append(q, s[i]) ELSE q

ChosenUp(upto, s, places, n) ==
  /\ DOMAIN upto = 0..n
  /\ upto[0] = << >>
  /\ \A i \in 1..n : upto[i] = More(upto[i - 1], s, i, places)

LEMMA ParsedPositions ==
  ASSUME NEW p, NEW text, Len(text) \in Nat
  PROVE  \E after : ParsedUp(after, p, text, Len(text)) /\ Parsed(p, text) = after[Len(text)]
<1>. DEFINE n == Len(text)
            Run(g, m) == g = [i \in 0..m |-> IF i = 0 THEN p ELSE ParseLine(g[i - 1], text[i])]
            S == {m \in 0..n : \E g : Run(g, m)}
<1>1. 0 \in S
  <2>1. Run([i \in 0..0 |-> p], 0)
    OBVIOUS
  <2>. HIDE DEF Run
  <2>2. \E g : Run(g, 0)
    BY <2>1
  <2>. QED
    BY <2>2
<1>2. ASSUME NEW m \in 1..n, m - 1 \in S PROVE m \in S
  <2>1. PICK g : Run(g, m - 1)
    BY <1>2
  <2>. DEFINE h == [i \in 0..m |-> IF i < m THEN g[i] ELSE ParseLine(g[m - 1], text[m])]
  <2>2. ASSUME NEW i \in 0..m
        PROVE  h[i] = IF i = 0 THEN p ELSE ParseLine(h[i - 1], text[i])
    <3>1. CASE i = 0
      <4>1. h[0] = g[0]
        OBVIOUS
      <4>2. g[0] = p
        BY <2>1
      <4>. QED
        BY <3>1, <4>1, <4>2
    <3>2. CASE i \in 1..(m - 1)
      <4>1. i \in 0..(m - 1) /\ i # 0 /\ i - 1 \in 0..m /\ i - 1 < m /\ i < m
        BY <3>2
      <4>2. h[i] = g[i] /\ h[i - 1] = g[i - 1]
        BY <4>1
      <4>3. g[i] = ParseLine(g[i - 1], text[i])
        BY <2>1, <4>1
      <4>. QED
        BY <4>1, <4>2, <4>3
    <3>3. CASE i = m
      <4>1. h[m] = ParseLine(g[m - 1], text[m])
        OBVIOUS
      <4>2. h[m - 1] = g[m - 1]
        OBVIOUS
      <4>. QED
        BY <3>3, <4>1, <4>2
    <3>. QED
      BY <3>1, <3>2, <3>3
  <2>3. h = [i \in 0..m |-> h[i]]
    OBVIOUS
  <2>. HIDE DEF h
  <2>4. h = [i \in 0..m |-> IF i = 0 THEN p ELSE ParseLine(h[i - 1], text[i])]
    BY <2>2, <2>3
  <2>. QED
    BY <2>4
<1>3. n \in S
  <2>. HIDE DEF S
  <2>1. \A i \in 0..n : i \in S
    BY <1>1, <1>2, UpTo
  <2>. QED
    BY <2>1
<1>4. \E g : Run(g, n)
  BY <1>3
<1>5. PICK g : Run(g, n) /\ Parsed(p, text) = g[n]
  <2>1. Run(CHOOSE g : Run(g, n), n)
    BY <1>4
  <2>2. Parsed(p, text) = (CHOOSE g : Run(g, n))[n]
    BY DEF Parsed
  <2>. QED
    BY <2>1, <2>2
<1>6. ParsedUp(g, p, text, n)
  <2>1. DOMAIN g = 0..n
    BY <1>5
  <2>2. \A i \in 0..n : g[i] = IF i = 0 THEN p ELSE ParseLine(g[i - 1], text[i])
    BY <1>5, Zenon
  <2>3. g[0] = p
    BY <2>2
  <2>4. \A i \in 1..n : i \in 0..n /\ i # 0
    OBVIOUS
  <2>5. \A i \in 1..n : g[i] = ParseLine(g[i - 1], text[i])
    BY <2>2, <2>4, Zenon
  <2>. QED
    BY <2>1, <2>3, <2>5 DEF ParsedUp
<1>. QED
  BY <1>5, <1>6

LEMMA JoinedPositions ==
  ASSUME NEW texts, Len(texts) \in Nat
  PROVE  \E after : JoinedUp(after, texts, Len(texts)) /\ Joined(texts) = after[Len(texts)]
<1>. DEFINE n == Len(texts)
            Run(g, m) == g = [i \in 0..m |-> IF i = 0 THEN << >> ELSE g[i - 1] \o texts[i]]
            S == {m \in 0..n : \E g : Run(g, m)}
<1>1. 0 \in S
  <2>1. Run([i \in 0..0 |-> << >>], 0)
    OBVIOUS
  <2>. HIDE DEF Run
  <2>2. \E g : Run(g, 0)
    BY <2>1
  <2>. QED
    BY <2>2
<1>2. ASSUME NEW m \in 1..n, m - 1 \in S PROVE m \in S
  <2>1. PICK g : Run(g, m - 1)
    BY <1>2
  <2>. DEFINE h == [i \in 0..m |-> IF i < m THEN g[i] ELSE g[m - 1] \o texts[m]]
  <2>2. ASSUME NEW i \in 0..m
        PROVE  h[i] = IF i = 0 THEN << >> ELSE h[i - 1] \o texts[i]
    <3>1. CASE i = 0
      <4>1. h[0] = g[0]
        OBVIOUS
      <4>2. g[0] = << >>
        BY <2>1
      <4>. QED
        BY <3>1, <4>1, <4>2
    <3>2. CASE i \in 1..(m - 1)
      <4>1. i \in 0..(m - 1) /\ i # 0 /\ i - 1 \in 0..m /\ i - 1 < m /\ i < m
        BY <3>2
      <4>2. h[i] = g[i] /\ h[i - 1] = g[i - 1]
        BY <4>1
      <4>3. g[i] = g[i - 1] \o texts[i]
        BY <2>1, <4>1
      <4>. QED
        BY <4>1, <4>2, <4>3
    <3>3. CASE i = m
      <4>1. h[m] = g[m - 1] \o texts[m]
        OBVIOUS
      <4>2. h[m - 1] = g[m - 1]
        OBVIOUS
      <4>. QED
        BY <3>3, <4>1, <4>2
    <3>. QED
      BY <3>1, <3>2, <3>3
  <2>3. h = [i \in 0..m |-> h[i]]
    OBVIOUS
  <2>. HIDE DEF h
  <2>4. h = [i \in 0..m |-> IF i = 0 THEN << >> ELSE h[i - 1] \o texts[i]]
    BY <2>2, <2>3
  <2>. QED
    BY <2>4
<1>3. n \in S
  <2>. HIDE DEF S
  <2>1. \A i \in 0..n : i \in S
    BY <1>1, <1>2, UpTo
  <2>. QED
    BY <2>1
<1>4. \E g : Run(g, n)
  BY <1>3
<1>5. PICK g : Run(g, n) /\ Joined(texts) = g[n]
  <2>1. Run(CHOOSE g : Run(g, n), n)
    BY <1>4
  <2>2. Joined(texts) = (CHOOSE g : Run(g, n))[n]
    BY DEF Joined
  <2>. QED
    BY <2>1, <2>2
<1>6. JoinedUp(g, texts, n)
  <2>1. DOMAIN g = 0..n
    BY <1>5
  <2>2. \A i \in 0..n : g[i] = IF i = 0 THEN << >> ELSE g[i - 1] \o texts[i]
    BY <1>5, Zenon
  <2>3. g[0] = << >>
    BY <2>2
  <2>4. \A i \in 1..n : i \in 0..n /\ i # 0
    OBVIOUS
  <2>5. \A i \in 1..n : g[i] = g[i - 1] \o texts[i]
    BY <2>2, <2>4, Zenon
  <2>. QED
    BY <2>1, <2>3, <2>5 DEF JoinedUp
<1>. QED
  BY <1>5, <1>6

LEMMA ChosenPositions ==
  ASSUME NEW s, NEW places, Len(s) \in Nat
  PROVE  \E after : ChosenUp(after, s, places, Len(s)) /\ Chosen(s, places) = after[Len(s)]
<1>. DEFINE n == Len(s)
            Run(g, m) == g = [i \in 0..m |-> IF i = 0 THEN << >> ELSE More(g[i - 1], s, i, places)]
            S == {m \in 0..n : \E g : Run(g, m)}
<1>1. 0 \in S
  <2>1. Run([i \in 0..0 |-> << >>], 0)
    OBVIOUS
  <2>. HIDE DEF Run
  <2>2. \E g : Run(g, 0)
    BY <2>1
  <2>. QED
    BY <2>2
<1>2. ASSUME NEW m \in 1..n, m - 1 \in S PROVE m \in S
  <2>1. PICK g : Run(g, m - 1)
    BY <1>2
  <2>. DEFINE h == [i \in 0..m |-> IF i < m THEN g[i] ELSE More(g[m - 1], s, m, places)]
  <2>2. ASSUME NEW i \in 0..m
        PROVE  h[i] = IF i = 0 THEN << >> ELSE More(h[i - 1], s, i, places)
    <3>1. CASE i = 0
      <4>1. h[0] = g[0]
        OBVIOUS
      <4>2. g[0] = << >>
        BY <2>1
      <4>. QED
        BY <3>1, <4>1, <4>2
    <3>2. CASE i \in 1..(m - 1)
      <4>1. i \in 0..(m - 1) /\ i # 0 /\ i - 1 \in 0..m /\ i - 1 < m /\ i < m
        BY <3>2
      <4>2. h[i] = g[i] /\ h[i - 1] = g[i - 1]
        BY <4>1
      <4>3. g[i] = More(g[i - 1], s, i, places)
        BY <2>1, <4>1
      <4>. QED
        BY <4>1, <4>2, <4>3
    <3>3. CASE i = m
      <4>1. h[m] = More(g[m - 1], s, m, places)
        OBVIOUS
      <4>2. h[m - 1] = g[m - 1]
        OBVIOUS
      <4>. QED
        BY <3>3, <4>1, <4>2
    <3>. QED
      BY <3>1, <3>2, <3>3
  <2>3. h = [i \in 0..m |-> h[i]]
    OBVIOUS
  <2>. HIDE DEF h
  <2>4. h = [i \in 0..m |-> IF i = 0 THEN << >> ELSE More(h[i - 1], s, i, places)]
    BY <2>2, <2>3
  <2>. QED
    BY <2>4
<1>3. n \in S
  <2>. HIDE DEF S
  <2>1. \A i \in 0..n : i \in S
    BY <1>1, <1>2, UpTo
  <2>. QED
    BY <2>1
<1>4. \E g : Run(g, n)
  BY <1>3
<1>5. PICK g : Run(g, n) /\ Chosen(s, places) = g[n]
  <2>1. Run(CHOOSE g : Run(g, n), n)
    BY <1>4
  <2>2. Chosen(s, places) = (CHOOSE g : Run(g, n))[n]
    BY DEF Chosen, More
  <2>. QED
    BY <2>1, <2>2
<1>6. ChosenUp(g, s, places, n)
  <2>1. DOMAIN g = 0..n
    BY <1>5
  <2>2. \A i \in 0..n : g[i] = IF i = 0 THEN << >> ELSE More(g[i - 1], s, i, places)
    BY <1>5, Zenon
  <2>3. g[0] = << >>
    BY <2>2
  <2>4. \A i \in 1..n : i \in 0..n /\ i # 0
    OBVIOUS
  <2>5. \A i \in 1..n : g[i] = More(g[i - 1], s, i, places)
    BY <2>2, <2>4, Zenon
  <2>. QED
    BY <2>1, <2>3, <2>5 DEF ChosenUp
<1>. QED
  BY <1>5, <1>6

-----------------------------------------------------------------------------
(* Reading the text of the walk.                                           *)

LEMMA ParsedOne ==
  ASSUME NEW p, NEW l
  PROVE  Parsed(p, <<l>>) = ParseLine(p, l)
<1>. DEFINE t == <<l>>
<1>1. Len(t) = 1 /\ t[1] = l
  OBVIOUS
<1>. HIDE DEF t
<1>2. PICK after : ParsedUp(after, p, t, 1) /\ Parsed(p, t) = after[1]
  BY <1>1, ParsedPositions
<1>3. after[0] = p /\ after[1] = ParseLine(after[1 - 1], t[1])
  BY <1>2 DEF ParsedUp
<1>. QED
  BY <1>1, <1>2, <1>3 DEF t

(* Reading on from where a text ended.                                     *)
LEMMA ParsedConcat ==
  ASSUME NEW L, NEW a \in Seq(L), NEW b \in Seq(L), NEW p
  PROVE  Parsed(p, a \o b) = Parsed(Parsed(p, a), b)
<1>. DEFINE m == Len(a)
            n == Len(b)
            t == a \o b
<1>1. m \in Nat /\ n \in Nat /\ Len(t) = m + n
  OBVIOUS
<1>2. \A i \in 1..m : t[i] = a[i]
  OBVIOUS
<1>3. \A i \in 1..n : t[m + i] = b[i]
  OBVIOUS
<1>. HIDE DEF t
<1>4. PICK first : ParsedUp(first, p, a, m) /\ Parsed(p, a) = first[m]
  BY <1>1, ParsedPositions
<1>5. PICK second : ParsedUp(second, first[m], b, n) /\ Parsed(first[m], b) = second[n]
  BY <1>1, ParsedPositions
<1>6. PICK whole : ParsedUp(whole, p, t, m + n) /\ Parsed(p, t) = whole[m + n]
  BY <1>1, ParsedPositions
<1>7. whole[m] = first[m]
  <2>. DEFINE S == {i \in 0..m : whole[i] = first[i]}
  <2>1. 0 \in S
    BY <1>1, <1>4, <1>6 DEF ParsedUp
  <2>2. ASSUME NEW i \in 1..m, i - 1 \in S PROVE i \in S
    <3>1. i \in 1..(m + n)
      BY <1>1
    <3>2. whole[i] = ParseLine(whole[i - 1], t[i]) /\ first[i] = ParseLine(first[i - 1], a[i])
      BY <1>4, <1>6, <3>1 DEF ParsedUp
    <3>3. t[i] = a[i] /\ whole[i - 1] = first[i - 1]
      BY <1>2, <2>2
    <3>. QED
      BY <1>1, <3>2, <3>3
  <2>3. \A i \in 0..m : i \in S
    <3>. HIDE DEF S
    <3>. QED
      BY <1>1, <2>1, <2>2, UpTo
  <2>. QED
    BY <1>1, <2>3
<1>8. whole[m + n] = second[n]
  <2>. DEFINE S == {i \in 0..n : whole[m + i] = second[i]}
  <2>1. 0 \in S
    <3>1. m + 0 = m /\ 0 \in 0..n
      BY <1>1
    <3>. QED
      BY <1>5, <1>7, <3>1 DEF ParsedUp
  <2>2. ASSUME NEW i \in 1..n, i - 1 \in S PROVE i \in S
    <3>1. m + i \in 1..(m + n) /\ m + i - 1 = m + (i - 1)
      BY <1>1
    <3>2. whole[m + i] = ParseLine(whole[m + (i - 1)], t[m + i])
      BY <1>6, <3>1 DEF ParsedUp
    <3>3. second[i] = ParseLine(second[i - 1], b[i])
      BY <1>5 DEF ParsedUp
    <3>4. t[m + i] = b[i] /\ whole[m + (i - 1)] = second[i - 1]
      BY <1>3, <2>2
    <3>. QED
      BY <1>1, <3>2, <3>3, <3>4
  <2>3. \A i \in 0..n : i \in S
    <3>. HIDE DEF S
    <3>. QED
      BY <1>1, <2>1, <2>2, UpTo
  <2>. QED
    BY <1>1, <2>3
<1>. QED
  BY <1>4, <1>5, <1>6, <1>8 DEF t

(* The parser between two lines.                                           *)
At(H, g, scope, through) == [hops |-> H, group |-> g, scope |-> scope, boundary |-> through]

(* The hop of a statement, and the scope of a group.                       *)
HopOf(g, scope, through, s, signals) ==
  [group |-> g, kind |-> kind_of(s.ty), scope |-> scope, boundary |-> through, signals |-> signals]
ScopeOf(g) == IF g.legible THEN g.scope ELSE ""

Statements == [ty : Texts, operands : Seq(Texts \X Texts)]
Hops == [group : Nat, kind : {"ContAssign", "Procedural", "Port", "Control", "Constant", "Other"},
         scope : Texts, boundary : BOOLEAN, signals : Seq(Texts)]

LEMMA KindFacts ==
  ASSUME NEW ty
  PROVE  kind_of(ty) \in {"ContAssign", "Procedural", "Port", "Control", "Constant", "Other"}
BY DEF kind_of

LEMMA HopFacts ==
  ASSUME NEW g \in Nat, NEW scope \in Texts, NEW through \in BOOLEAN, NEW s, NEW signals \in Seq(Texts)
  PROVE  HopOf(g, scope, through, s, signals) \in Hops
BY KindFacts DEF HopOf, Hops

(* The two lines that open a group leave nothing of the group before.      *)
LEMMA HeadRead ==
  ASSUME NEW H, NEW n \in Nat, NEW scope, NEW through, NEW g \in Groups
  PROVE  ParseLine(ParseLine(At(H, n, scope, through), Header(n + 1, g.scope, g.legible)),
                   IF g.through THEN Through ELSE Remark)
         = At(H, n + 1, ScopeOf(g), g.through)
<1>. DEFINE p == At(H, n, scope, through)
            l == Header(n + 1, g.scope, g.legible)
            q == ParseLine(p, l)
<1>1. g.legible \in BOOLEAN /\ g.through \in BOOLEAN
  BY DEF Groups
<1>2. l.is = "header" /\ l.n = n + 1 /\ l.scope = g.scope /\ (l.ok <=> g.legible)
  BY <1>1 DEF Header
<1>3. q = OnHeader(p, l)
  <2>. HIDE DEF p, l
  <2>. QED
    BY <1>2 DEF ParseLine
<1>4. p = [hops |-> H, group |-> n, scope |-> scope, boundary |-> through]
  BY DEF At
<1>5. q = [p EXCEPT !.group = n + 1, !.scope = ScopeOf(g), !.boundary = FALSE]
  <2>1. p.group = n
    BY <1>4
  <2>. HIDE DEF p, l, q
  <2>. QED
    BY <1>1, <1>2, <1>3, <2>1 DEF OnHeader, ScopeOf
<1>. HIDE DEF p, q, l
<1>6. q = [hops |-> H, group |-> n + 1, scope |-> ScopeOf(g), boundary |-> FALSE]
  BY <1>4, <1>5
<1>7. CASE g.through
  <2>1. ParseLine(q, Through) = [q EXCEPT !.boundary = TRUE]
    BY DEF ParseLine, Through
  <2>2. [q EXCEPT !.boundary = TRUE]
        = [hops |-> H, group |-> n + 1, scope |-> ScopeOf(g), boundary |-> TRUE]
    <3>. DEFINE m == n + 1
                sc == ScopeOf(g)
    <3>1. q = [hops |-> H, group |-> m, scope |-> sc, boundary |-> FALSE]
      BY <1>6
    <3>. DEFINE r == [q EXCEPT !.boundary = TRUE]
    <3>2. r = [q EXCEPT !.boundary = TRUE]
      OBVIOUS
    <3>. HIDE DEF m, sc, r
    <3>3. r = [hops |-> H, group |-> m, scope |-> sc, boundary |-> TRUE]
      BY <3>1, <3>2
    <3>. QED
      BY <3>3 DEF m, sc, r
  <2>3. ParseLine(q, Through) = At(H, n + 1, ScopeOf(g), g.through)
    BY <1>1, <1>7, <2>1, <2>2 DEF At
  <2>. QED
    BY <1>7, <2>3 DEF q, p, l
<1>8. CASE ~g.through
  <2>1. ParseLine(q, Remark) = q
    BY DEF ParseLine, Remark
  <2>2. ParseLine(q, Remark) = At(H, n + 1, ScopeOf(g), g.through)
    BY <1>1, <1>6, <1>8, <2>1 DEF At
  <2>. QED
    BY <1>8, <2>2 DEF q, p, l
<1>. QED
  BY <1>1, <1>7, <1>8

LEMMA StatementRead ==
  ASSUME NEW H, NEW g, NEW scope, NEW through, NEW s
  PROVE  ParseLine(At(H, g, scope, through), Statement(s.ty))
         = At(Append(H, HopOf(g, scope, through, s, << >>)), g, scope, through)
<1>. DEFINE p == At(H, g, scope, through)
            l == Statement(s.ty)
            h == HopOf(g, scope, through, s, << >>)
            q == ParseLine(p, l)
<1>1. l.is = "statement" /\ l.ty = s.ty
  BY DEF Statement
<1>2. q = OnStatement(p, l)
  <2>. HIDE DEF p, l
  <2>. QED
    BY <1>1 DEF ParseLine
<1>3. p = [hops |-> H, group |-> g, scope |-> scope, boundary |-> through]
  BY DEF At
<1>4. h = [group |-> p.group, kind |-> kind_of(l.ty), scope |-> p.scope, boundary |-> p.boundary,
           signals |-> << >>]
  BY <1>1, <1>3 DEF HopOf
<1>5. q = [p EXCEPT !.hops = Append(p.hops, h)]
  BY <1>2, <1>4 DEF OnStatement
<1>. HIDE DEF p, l, h, q
<1>6. q = [hops |-> Append(H, h), group |-> g, scope |-> scope, boundary |-> through]
  BY <1>3, <1>5
<1>. QED
  BY <1>6 DEF At, h, q, p, l

(* The signals of a statement after one more operand.                      *)
Kept(o) == o[1] \notin NoType /\ kind_of(o[1]) # "Constant" /\ o[2] # ""

LEMMA OperandRead ==
  ASSUME NEW H \in Seq(Hops), NEW g \in Nat, NEW scope \in Texts, NEW through \in BOOLEAN, NEW s,
         NEW signals \in Seq(Texts), NEW o \in Texts \X Texts
  PROVE  ParseLine(At(Append(H, HopOf(g, scope, through, s, signals)), g, scope, through),
                   Operand(o[1], o[2]))
         = At(Append(H, HopOf(g, scope, through, s, IF Kept(o) THEN Append(signals, o[2]) ELSE signals)),
              g, scope, through)
<1>. DEFINE h == HopOf(g, scope, through, s, signals)
            Q == Append(H, h)
            p == At(Q, g, scope, through)
            l == Operand(o[1], o[2])
            q == ParseLine(p, l)
<1>1. l.is = "operand" /\ l.ty = o[1] /\ l.name = o[2]
  BY DEF Operand
<1>2. q = OnOperand(p, l)
  <2>. HIDE DEF p, l
  <2>. QED
    BY <1>1 DEF ParseLine
<1>3. p.hops = Q /\ p = [hops |-> Q, group |-> g, scope |-> scope, boundary |-> through]
  BY DEF At
<1>4. h \in Hops
  BY HopFacts
<1>5. Q # << >> /\ Q \in Seq(Hops) /\ Len(Q) = Len(H) + 1 /\ Q[Len(Q)] = h /\ Len(H) \in Nat
      /\ \A i \in 1..Len(H) : Q[i] = H[i]
  <2>. HIDE DEF h
  <2>1. Q \in Seq(Hops) /\ Len(Q) = Len(H) + 1 /\ Q # << >>
    BY <1>4, AppendProperties
  <2>2. Len(H) \in Nat
    OBVIOUS
  <2>3. Q[Len(H) + 1] = h
    BY <1>4, AppendProperties
  <2>4. \A i \in 1..Len(H) : Q[i] = H[i]
    BY <1>4, AppendProperties
  <2>. HIDE DEF Q
  <2>. QED
    BY <2>1, <2>2, <2>3, <2>4
<1>6. CASE ~Kept(o)
  <2>1. q = p
    <3>. HIDE DEF p, l, q
    <3>. QED
      BY <1>1, <1>2, <1>6 DEF OnOperand, Kept
  <2>. QED
    BY <1>6, <2>1
<1>7. CASE Kept(o)
  <2>. DEFINE k == HopOf(g, scope, through, s, Append(signals, o[2]))
              r == [h EXCEPT !.signals = Append(h.signals, o[2])]
  <2>1. o[2] \in Texts /\ Append(signals, o[2]) \in Seq(Texts)
    OBVIOUS
  <2>2. r = k
    <3>1. h = [group |-> g, kind |-> kind_of(s.ty), scope |-> scope, boundary |-> through,
               signals |-> signals]
      BY DEF HopOf
    <3>2. r = [h EXCEPT !.signals = Append(h.signals, o[2])]
      OBVIOUS
    <3>3. h.signals = signals
      BY <3>1
    <3>. HIDE DEF h, r
    <3>4. r = [group |-> g, kind |-> kind_of(s.ty), scope |-> scope, boundary |-> through,
               signals |-> Append(signals, o[2])]
      BY <3>1, <3>2, <3>3
    <3>. QED
      BY <3>4 DEF HopOf
  <2>3. k \in Hops
    BY <2>1, HopFacts
  <2>. DEFINE R == [Q EXCEPT ![Len(Q)] = [Q[Len(Q)] EXCEPT !.signals = Append(Q[Len(Q)].signals, o[2])]]
  <2>4. q = [p EXCEPT !.hops = R]
    <3>1. l.name # "" /\ l.ty \notin NoType /\ kind_of(l.ty) # "Constant"
      BY <1>1, <1>7 DEF Kept
    <3>. HIDE DEF p, l, q, Q
    <3>2. q = [p EXCEPT !.hops[Len(p.hops)].signals = Append(@, l.name)]
      BY <1>2, <1>3, <1>5, <3>1 DEF OnOperand
    <3>. QED
      BY <1>1, <1>3, <3>2
  <2>5. R = [Q EXCEPT ![Len(Q)] = k]
    <3>. HIDE DEF Q, h, k
    <3>. QED
      BY <1>5, <2>2
  <2>6. R = Append(H, k)
    <3>. HIDE DEF Q, h, k, R
    <3>1. R \in Seq(Hops) /\ Len(R) = Len(Q) /\ R[Len(Q)] = k /\ \A i \in 1..Len(H) : R[i] = H[i]
      BY <1>5, <2>3, <2>5
    <3>2. Append(H, k) \in Seq(Hops) /\ Len(Append(H, k)) = Len(H) + 1 /\ Append(H, k)[Len(H) + 1] = k
          /\ \A i \in 1..Len(H) : Append(H, k)[i] = H[i]
      BY <2>3
    <3>3. Len(R) = Len(H) + 1 /\ \A i \in 1..Len(R) : R[i] = Append(H, k)[i]
      BY <1>5, <3>1, <3>2
    <3>. QED
      BY <3>1, <3>2, <3>3, SeqEqual
  <2>7. q = At(Append(H, k), g, scope, through)
    <3>. HIDE DEF p, Q, R, q, k
    <3>1. q = [hops |-> R, group |-> g, scope |-> scope, boundary |-> through]
      BY <1>3, <2>4
    <3>. QED
      BY <2>6, <3>1 DEF At
  <2>. QED
    BY <1>7, <2>7
<1>. QED
  BY <1>6, <1>7

(* The beginning of a sequence.                                            *)
Start(seq0, i) == SubSeq(seq0, 1, i)

LEMMA StartFacts ==
  ASSUME NEW S, NEW q \in Seq(S)
  PROVE  /\ Start(q, 0) = << >>
         /\ Start(q, Len(q)) = q
         /\ \A i \in 0..Len(q) : Start(q, i) \in Seq(S)
         /\ \A i \in 1..Len(q) : Start(q, i) = Start(q, i - 1) \o <<q[i]>>
         /\ \A i \in 1..Len(q) : Start(q, i) = Append(Start(q, i - 1), q[i])
<1>1. Len(q) \in Nat /\ \A i \in 1..Len(q) : q[i] \in S
  OBVIOUS
<1>2. Start(q, 0) = << >>
  BY SubSeqEmpty DEF Start
<1>3. Start(q, Len(q)) = q
  BY SubSeqFull DEF Start
<1>4. ASSUME NEW i \in 0..Len(q) PROVE Start(q, i) \in Seq(S)
  <2>1. \A j \in 1..i : q[j] \in S
    BY <1>1
  <2>. QED
    BY <1>1, <2>1, SubSeqProperties DEF Start
<1>5. ASSUME NEW i \in 1..Len(q) PROVE Start(q, i) = Start(q, i - 1) \o <<q[i]>>
  <2>1. 1 \in 1..Len(q) /\ i \in 1..Len(q)
    BY <1>1
  <2>. QED
    BY <2>1, SubSeqRecursiveSecond DEF Start
<1>6. ASSUME NEW i \in 1..Len(q) PROVE Start(q, i) = Append(Start(q, i - 1), q[i])
  <2>1. Start(q, i - 1) \in Seq(S) /\ q[i] \in S
    BY <1>1, <1>4
  <2>2. Append(Start(q, i - 1), q[i]) = Start(q, i - 1) \o <<q[i]>>
    BY <2>1, AppendIsConcat
  <2>. QED
    BY <1>5, <2>2
<1>. QED
  BY <1>2, <1>3, <1>4, <1>5, <1>6

(* Sequences one after the other are a sequence, at every position.        *)
LEMMA JoinedType ==
  ASSUME NEW L, NEW texts \in Seq(Seq(L)), NEW upto, JoinedUp(upto, texts, Len(texts))
  PROVE  \A i \in 0..Len(texts) : upto[i] \in Seq(L)
<1>. DEFINE n == Len(texts)
            S == {i \in 0..n : upto[i] \in Seq(L)}
<1>1. n \in Nat
  OBVIOUS
<1>2. 0 \in S
  <2>1. upto[0] = << >>
    BY DEF JoinedUp
  <2>2. << >> \in Seq(L)
    OBVIOUS
  <2>3. upto[0] \in Seq(L) /\ 0 \in 0..n
    BY <2>1, <2>2, <1>1
  <2>. HIDE DEF n
  <2>. QED
    BY <2>3
<1>3. ASSUME NEW i \in 1..n, i - 1 \in S PROVE i \in S
  <2>1. upto[i] = upto[i - 1] \o texts[i]
    BY DEF JoinedUp
  <2>2. texts[i] \in Seq(L) /\ upto[i - 1] \in Seq(L)
    BY <1>3
  <2>. DEFINE x == upto[i - 1]
              y == texts[i]
  <2>. HIDE DEF x, y
  <2>3. x \in Seq(L) /\ y \in Seq(L) => x \o y \in Seq(L)
    OBVIOUS
  <2>4. upto[i] \in Seq(L)
    BY <2>1, <2>2, <2>3 DEF x, y
  <2>5. i \in 0..n
    BY <1>1
  <2>. QED
    BY <2>4, <2>5
<1>. HIDE DEF S, n
<1>4. \A i \in 0..n : i \in S
  BY <1>1, <1>2, <1>3, UpTo
<1>. QED
  BY <1>4 DEF S, n

(* The lines there are.                                                    *)
TextLines ==
  {Header(n, scope, ok) : n \in Nat, scope \in Texts, ok \in BOOLEAN}
  \cup {Through, Remark}
  \cup {Statement(ty) : ty \in Texts}
  \cup {Operand(ty, name) : ty \in Texts, name \in Texts}

OperandsOf(s) == [k \in DOMAIN s.operands |-> Operand(s.operands[k][1], s.operands[k][2])]
NamesOf(s) == [k \in DOMAIN s.operands |-> s.operands[k][2]]
SignalsAt(s) ==
  {k \in DOMAIN s.operands :
     /\ s.operands[k][1] \notin NoType /\ kind_of(s.operands[k][1]) # "Constant"
     /\ s.operands[k][2] # ""}

LEMMA OperandFacts ==
  ASSUME NEW s \in Statements
  PROVE  /\ Len(s.operands) \in Nat /\ DOMAIN s.operands = 1..Len(s.operands) /\ s.ty \in Texts
         /\ \A k \in 1..Len(s.operands) : s.operands[k] \in Texts \X Texts
         /\ OperandsOf(s) \in Seq(TextLines) /\ Len(OperandsOf(s)) = Len(s.operands)
         /\ \A k \in 1..Len(s.operands) : OperandsOf(s)[k] = Operand(s.operands[k][1], s.operands[k][2])
         /\ Len(NamesOf(s)) = Len(s.operands)
         /\ \A k \in 1..Len(s.operands) : NamesOf(s)[k] = s.operands[k][2]
         /\ Signals(s) = Chosen(NamesOf(s), SignalsAt(s))
<1>. DEFINE n == Len(s.operands)
            t == OperandsOf(s)
            w == NamesOf(s)
<1>1. n \in Nat /\ DOMAIN s.operands = 1..n /\ s.ty \in Texts
      /\ \A k \in 1..n : s.operands[k] \in Texts \X Texts
  BY DEF Statements
<1>2. t = [k \in 1..n |-> t[k]] /\ \A k \in 1..n : t[k] = Operand(s.operands[k][1], s.operands[k][2])
  BY <1>1 DEF OperandsOf
<1>3. \A k \in 1..n : t[k] \in TextLines
  <2>1. ASSUME NEW k \in 1..n PROVE t[k] \in TextLines
    <3>1. s.operands[k][1] \in Texts /\ s.operands[k][2] \in Texts
      BY <1>1
    <3>. QED
      BY <1>2, <3>1 DEF TextLines
  <2>. QED
    BY <2>1
<1>4. w = [k \in 1..n |-> w[k]] /\ \A k \in 1..n : w[k] = s.operands[k][2]
  BY <1>1 DEF NamesOf
<1>5. Signals(s) = Chosen(w, SignalsAt(s))
  BY DEF Signals, NamesOf, SignalsAt
<1>. HIDE DEF t, w, n
<1>6. t \in [1..n -> TextLines] /\ w \in [1..n -> Texts]
  <2>1. \A k \in 1..n : w[k] \in Texts
    BY <1>1, <1>4
  <2>. QED
    BY <1>2, <1>3, <1>4, <2>1
<1>7. t \in Seq(TextLines) /\ Len(t) = n /\ w \in Seq(Texts) /\ Len(w) = n
  BY <1>1, <1>6
<1>. QED
  BY <1>1, <1>2, <1>4, <1>5, <1>7 DEF t, w, n

(* The operands of a statement become its signals.                         *)
LEMMA OperandsRead ==
  ASSUME NEW H \in Seq(Hops), NEW g \in Nat, NEW scope \in Texts, NEW through \in BOOLEAN,
         NEW s \in Statements
  PROVE  /\ Signals(s) \in Seq(Texts)
         /\ Parsed(At(Append(H, HopOf(g, scope, through, s, << >>)), g, scope, through), OperandsOf(s))
            = At(Append(H, HopOf(g, scope, through, s, Signals(s))), g, scope, through)
<1>. DEFINE n == Len(s.operands)
            State(signals) == At(Append(H, HopOf(g, scope, through, s, signals)), g, scope, through)
<1>1. /\ n \in Nat /\ Len(OperandsOf(s)) = n /\ Len(NamesOf(s)) = n
      /\ \A k \in 1..n : OperandsOf(s)[k] = Operand(s.operands[k][1], s.operands[k][2])
      /\ \A k \in 1..n : NamesOf(s)[k] = s.operands[k][2] /\ s.operands[k] \in Texts \X Texts
      /\ Signals(s) = Chosen(NamesOf(s), SignalsAt(s)) /\ DOMAIN s.operands = 1..n
  BY OperandFacts
<1>2. PICK after : ParsedUp(after, State(<< >>), OperandsOf(s), n)
                   /\ Parsed(State(<< >>), OperandsOf(s)) = after[n]
  <2>. HIDE DEF State
  <2>. QED
    BY <1>1, ParsedPositions
<1>3. PICK upto : ChosenUp(upto, NamesOf(s), SignalsAt(s), n) /\ Signals(s) = upto[n]
  <2>. DEFINE names == NamesOf(s)
              places == SignalsAt(s)
  <2>1. Len(names) = n /\ n \in Nat /\ Signals(s) = Chosen(names, places)
    <3>1. Len(NamesOf(s)) = n /\ n \in Nat
      BY OperandFacts
    <3>2. Signals(s) = Chosen(NamesOf(s), SignalsAt(s))
      BY OperandFacts
    <3>. QED
      BY <3>1, <3>2
  <2>. HIDE DEF names, places, n
  <2>2. \E upto : ChosenUp(upto, names, places, Len(names)) /\ Chosen(names, places) = upto[Len(names)]
    BY <2>1, ChosenPositions
  <2>3. \E upto : ChosenUp(upto, names, places, n) /\ Signals(s) = upto[n]
    BY <2>1, <2>2
  <2>. QED
    BY <2>3 DEF names, places
<1>. DEFINE S == {i \in 0..n : upto[i] \in Seq(Texts) /\ after[i] = State(upto[i])}
<1>4. 0 \in S
  <2>1. upto[0] = << >> /\ after[0] = State(<< >>)
    BY <1>2, <1>3 DEF ParsedUp, ChosenUp
  <2>2. << >> \in Seq(Texts) /\ 0 \in 0..n
    BY <1>1
  <2>. HIDE DEF State
  <2>. QED
    BY <2>1, <2>2
<1>5. ASSUME NEW i \in 1..n, i - 1 \in S PROVE i \in S
  <2>. DEFINE o == s.operands[i]
              x == upto[i - 1]
  <2>1. after[i] = ParseLine(after[i - 1], OperandsOf(s)[i])
    BY <1>2 DEF ParsedUp
  <2>2. upto[i] = More(x, NamesOf(s), i, SignalsAt(s))
    BY <1>3 DEF ChosenUp
  <2>3. o \in Texts \X Texts /\ x \in Seq(Texts) /\ after[i - 1] = State(x)
        /\ OperandsOf(s)[i] = Operand(o[1], o[2]) /\ NamesOf(s)[i] = o[2]
    BY <1>1, <1>5
  <2>4. i \in SignalsAt(s) <=> Kept(o)
    BY <1>1 DEF SignalsAt, Kept
  <2>. DEFINE y == IF Kept(o) THEN Append(x, o[2]) ELSE x
  <2>5. upto[i] = y
    BY <2>2, <2>3, <2>4 DEF More
  <2>6. y \in Seq(Texts)
    <3>1. o[2] \in Texts
      BY <2>3
    <3>. HIDE DEF x, o
    <3>. QED
      BY <2>3, <3>1
  <2>7. ParseLine(State(x), Operand(o[1], o[2])) = State(y)
    BY <2>3, OperandRead
  <2>8. i \in 0..n
    BY <1>1
  <2>. HIDE DEF State, x, y, o
  <2>. QED
    BY <2>1, <2>3, <2>5, <2>6, <2>7, <2>8
<1>6. n \in S
  <2>. HIDE DEF S
  <2>1. \A i \in 0..n : i \in S
    BY <1>1, <1>4, <1>5, UpTo
  <2>. QED
    BY <1>1, <2>1
<1>7. upto[n] \in Seq(Texts) /\ after[n] = State(upto[n])
  <2>. HIDE DEF State, n
  <2>. QED
    BY <1>6
<1>8. Signals(s) \in Seq(Texts) /\ Parsed(State(<< >>), OperandsOf(s)) = State(Signals(s))
  <2>. HIDE DEF State, n
  <2>. QED
    BY <1>2, <1>3, <1>7
<1>. QED
  BY <1>8

LEMMA WholeStatementRead ==
  ASSUME NEW H \in Seq(Hops), NEW g \in Nat, NEW scope \in Texts, NEW through \in BOOLEAN,
         NEW s \in Statements
  PROVE  /\ StatementWritten(s) \in Seq(TextLines)
         /\ Parsed(At(H, g, scope, through), StatementWritten(s))
            = At(Append(H, HopOf(g, scope, through, s, Signals(s))), g, scope, through)
<1>. DEFINE first == <<Statement(s.ty)>>
            rest == OperandsOf(s)
            p == At(H, g, scope, through)
            q == At(Append(H, HopOf(g, scope, through, s, << >>)), g, scope, through)
            r == At(Append(H, HopOf(g, scope, through, s, Signals(s))), g, scope, through)
<1>1. StatementWritten(s) = first \o rest
  BY DEF StatementWritten, OperandsOf
<1>2. first \in Seq(TextLines) /\ rest \in Seq(TextLines)
  <2>1. Statement(s.ty) \in TextLines
    <3>1. s.ty \in Texts
      BY DEF Statements
    <3>. QED
      BY <3>1 DEF TextLines
  <2>2. first \in Seq(TextLines)
    BY <2>1
  <2>. QED
    BY <2>2, OperandFacts
<1>3. Parsed(p, first) = q
  <2>1. Parsed(p, first) = ParseLine(p, Statement(s.ty))
    <3>. HIDE DEF p
    <3>. QED
      BY ParsedOne
  <2>2. ParseLine(p, Statement(s.ty)) = q
    BY StatementRead
  <2>. QED
    BY <2>1, <2>2
<1>4. Parsed(q, rest) = r
  BY OperandsRead
<1>. HIDE DEF first, rest, p, q, r
<1>5. Parsed(p, first \o rest) = Parsed(Parsed(p, first), rest)
  BY <1>2, ParsedConcat
<1>6. first \o rest \in Seq(TextLines)
  BY <1>2
<1>7. StatementWritten(s) \in Seq(TextLines) /\ Parsed(p, StatementWritten(s)) = r
  BY <1>1, <1>3, <1>4, <1>5, <1>6
<1>. QED
  BY <1>7 DEF p, r

(* The hops of a group, and its statements as they are written.            *)
PlaceOf(i, g) ==
  [j \in DOMAIN g.stmts |-> HopOf(i, ScopeOf(g), g.through, g.stmts[j], Signals(g.stmts[j]))]
StatementsOf(g) == [j \in DOMAIN g.stmts |-> StatementWritten(g.stmts[j])]

LEMMA GroupFacts ==
  ASSUME NEW i \in Nat, NEW g \in Groups
  PROVE  /\ Len(g.stmts) \in Nat /\ DOMAIN g.stmts = 1..Len(g.stmts)
         /\ ScopeOf(g) \in Texts /\ g.through \in BOOLEAN
         /\ \A j \in 1..Len(g.stmts) : g.stmts[j] \in Statements
         /\ PlaceOf(i, g) \in Seq(Hops) /\ Len(PlaceOf(i, g)) = Len(g.stmts)
         /\ \A j \in 1..Len(g.stmts) :
              PlaceOf(i, g)[j] = HopOf(i, ScopeOf(g), g.through, g.stmts[j], Signals(g.stmts[j]))
         /\ StatementsOf(g) \in Seq(Seq(TextLines)) /\ Len(StatementsOf(g)) = Len(g.stmts)
         /\ \A j \in 1..Len(g.stmts) : StatementsOf(g)[j] = StatementWritten(g.stmts[j])
<1>. DEFINE n == Len(g.stmts)
            P == PlaceOf(i, g)
            W == StatementsOf(g)
            hop(s) == HopOf(i, ScopeOf(g), g.through, s, Signals(s))
<1>1. g.stmts \in Seq(Statements) /\ g.through \in BOOLEAN /\ g.scope \in Texts
  BY DEF Groups, Statements
<1>2. n \in Nat /\ DOMAIN g.stmts = 1..n /\ \A j \in 1..n : g.stmts[j] \in Statements
  BY <1>1
<1>3. ScopeOf(g) \in Texts
  BY <1>1, TextsAssumption DEF ScopeOf
<1>4. << >> \in Seq(Hops)
  OBVIOUS
<1>5. \A s \in Statements : Signals(s) \in Seq(Texts) /\ StatementWritten(s) \in Seq(TextLines)
  BY <1>1, <1>3, <1>4, OperandsRead, WholeStatementRead
<1>6. \A s \in Statements : hop(s) \in Hops
  BY <1>1, <1>3, <1>5, HopFacts
<1>7. P = [j \in 1..n |-> P[j]] /\ \A j \in 1..n : P[j] = hop(g.stmts[j])
  <2>1. P = [j \in 1..n |-> hop(g.stmts[j])]
    BY <1>2 DEF PlaceOf
  <2>. HIDE DEF hop, P
  <2>. QED
    BY <2>1
<1>8. W = [j \in 1..n |-> W[j]] /\ \A j \in 1..n : W[j] = StatementWritten(g.stmts[j])
  <2>1. W = [j \in 1..n |-> StatementWritten(g.stmts[j])]
    BY <1>2 DEF StatementsOf
  <2>. HIDE DEF W
  <2>. QED
    BY <2>1
<1>. HIDE DEF P, W, n
<1>9. \A j \in 1..n : P[j] \in Hops /\ W[j] \in Seq(TextLines)
  <2>. HIDE DEF hop
  <2>. QED
    BY <1>2, <1>5, <1>6, <1>7, <1>8
<1>10. P \in [1..n -> Hops] /\ W \in [1..n -> Seq(TextLines)]
  BY <1>7, <1>8, <1>9
<1>11. P \in Seq(Hops) /\ Len(P) = n
  BY <1>2, <1>10
<1>12. W \in Seq(Seq(TextLines)) /\ Len(W) = n
  BY <1>2, <1>10
<1>. QED
  BY <1>1, <1>2, <1>3, <1>7, <1>8, <1>11, <1>12 DEF P, W, n

(* The statements of a group become its hops, behind those there were.     *)
LEMMA InnerRead ==
  ASSUME NEW H \in Seq(Hops), NEW i \in Nat, NEW g \in Groups
  PROVE  /\ Joined(StatementsOf(g)) \in Seq(TextLines)
         /\ Parsed(At(H, i, ScopeOf(g), g.through), Joined(StatementsOf(g)))
            = At(H \o PlaceOf(i, g), i, ScopeOf(g), g.through)
<1>. DEFINE m == Len(H)
            n == Len(g.stmts)
            P == PlaceOf(i, g)
            U == H \o P
            W == StatementsOf(g)
            State(q) == At(q, i, ScopeOf(g), g.through)
<1>1. m \in Nat /\ n \in Nat /\ ScopeOf(g) \in Texts /\ g.through \in BOOLEAN
  BY GroupFacts
<1>2. P \in Seq(Hops) /\ Len(P) = n
  BY GroupFacts
<1>3. W \in Seq(Seq(TextLines)) /\ Len(W) = n
  BY GroupFacts
<1>4. \A j \in 1..n : /\ g.stmts[j] \in Statements
                      /\ P[j] = HopOf(i, ScopeOf(g), g.through, g.stmts[j], Signals(g.stmts[j]))
                      /\ W[j] = StatementWritten(g.stmts[j])
  BY GroupFacts
<1>. HIDE DEF P, W, n
<1>5. /\ U \in Seq(Hops) /\ Len(U) = m + n
      /\ \A j \in 1..m : U[j] = H[j]
      /\ \A j \in 1..n : U[m + j] = P[j]
  BY <1>2
<1>. HIDE DEF U
<1>6. Start(U, m) = H
  <2>1. \A j \in 1..m : U[j] \in Hops
    BY <1>1, <1>5
  <2>2. Start(U, m) \in Seq(Hops) /\ Len(Start(U, m)) = m /\ \A j \in 1..m : Start(U, m)[j] = U[j]
    BY <1>1, <1>5, <2>1, SubSeqProperties DEF Start
  <2>3. Len(Start(U, m)) = Len(H) /\ \A j \in 1..Len(H) : Start(U, m)[j] = H[j]
    BY <1>5, <2>2
  <2>. HIDE DEF m
  <2>. QED
    BY <2>2, <2>3, SeqEqual
<1>7. PICK upto : JoinedUp(upto, W, n) /\ Joined(W) = upto[n]
  BY <1>1, <1>3, JoinedPositions
<1>8. \A j \in 0..n : upto[j] \in Seq(TextLines)
  BY <1>3, <1>7, JoinedType
<1>. DEFINE S == {j \in 0..n : Parsed(State(H), upto[j]) = State(Start(U, m + j))}
<1>9. 0 \in S
  <2>1. upto[0] = << >>
    BY <1>7 DEF JoinedUp
  <2>2. Parsed(State(H), << >>) = State(H)
    <3>. HIDE DEF State
    <3>1. PICK after : ParsedUp(after, State(H), << >>, 0) /\ Parsed(State(H), << >>) = after[0]
      BY ParsedPositions
    <3>. QED
      BY <3>1 DEF ParsedUp
  <2>3. m + 0 = m /\ 0 \in 0..n
    BY <1>1
  <2>. HIDE DEF State, m
  <2>. QED
    BY <1>6, <2>1, <2>2, <2>3
<1>10. ASSUME NEW j \in 1..n, j - 1 \in S PROVE j \in S
  <2>. DEFINE q == Start(U, m + (j - 1))
              s == g.stmts[j]
  <2>1. m + j \in 1..Len(U) /\ m + j - 1 = m + (j - 1) /\ m + (j - 1) \in 0..Len(U)
        /\ j \in 0..n /\ j - 1 \in 0..n
    BY <1>1, <1>5
  <2>2. Start(U, m + j) = Append(q, P[j])
    <3>1. Start(U, m + j) = Append(Start(U, m + j - 1), U[m + j])
      BY <1>5, <2>1, StartFacts
    <3>. QED
      BY <1>5, <2>1, <3>1
  <2>3. q \in Seq(Hops)
    BY <1>5, <2>1, StartFacts
  <2>4. upto[j] = upto[j - 1] \o W[j]
    BY <1>7 DEF JoinedUp
  <2>5. Parsed(State(H), upto[j - 1]) = State(q)
    BY <1>10
  <2>6. W[j] = StatementWritten(s) /\ s \in Statements
        /\ P[j] = HopOf(i, ScopeOf(g), g.through, s, Signals(s))
    BY <1>4
  <2>7. W[j] \in Seq(TextLines) /\ Parsed(State(q), W[j]) = State(Append(q, P[j]))
    <3>. HIDE DEF q, s
    <3>. QED
      BY <1>1, <2>3, <2>6, WholeStatementRead
  <2>. HIDE DEF q, s, State, m
  <2>8. Parsed(State(H), upto[j - 1] \o W[j]) = Parsed(Parsed(State(H), upto[j - 1]), W[j])
    BY <1>8, <2>1, <2>7, ParsedConcat
  <2>. QED
    BY <2>1, <2>2, <2>4, <2>5, <2>7, <2>8
<1>11. n \in S
  <2>. HIDE DEF S
  <2>1. \A j \in 0..n : j \in S
    BY <1>1, <1>9, <1>10, UpTo
  <2>. QED
    BY <1>1, <2>1
<1>12. Start(U, m + n) = U
  BY <1>5, StartFacts
<1>13. Parsed(State(H), upto[n]) = State(Start(U, m + n))
  <2>. HIDE DEF State, m
  <2>. QED
    BY <1>11
<1>14. upto[n] \in Seq(TextLines)
  BY <1>1, <1>8
<1>15. Joined(W) \in Seq(TextLines) /\ Parsed(State(H), Joined(W)) = State(U)
  <2>. HIDE DEF State, m
  <2>. QED
    BY <1>7, <1>12, <1>13, <1>14
<1>. QED
  BY <1>15 DEF W, U, P

(* A group becomes its hops, with its own number, scope and mark, whatever *)
(* came before it.                                                         *)
LEMMA GroupRead ==
  ASSUME NEW H \in Seq(Hops), NEW n \in Nat, NEW scope, NEW through, NEW g \in Groups
  PROVE  /\ GroupWritten(n + 1, g) \in Seq(TextLines)
         /\ Parsed(At(H, n, scope, through), GroupWritten(n + 1, g))
            = At(H \o PlaceOf(n + 1, g), n + 1, ScopeOf(g), g.through)
<1>. DEFINE l == Header(n + 1, g.scope, g.legible)
            k == IF g.through THEN Through ELSE Remark
            head == <<l, k>>
            inner == Joined(StatementsOf(g))
            p == At(H, n, scope, through)
            q == At(H, n + 1, ScopeOf(g), g.through)
            r == At(H \o PlaceOf(n + 1, g), n + 1, ScopeOf(g), g.through)
<1>1. GroupWritten(n + 1, g) = head \o inner
  BY DEF GroupWritten, StatementsOf
<1>2. l \in TextLines /\ k \in TextLines
  <2>1. n + 1 \in Nat /\ g.scope \in Texts /\ g.legible \in BOOLEAN
    BY DEF Groups
  <2>. QED
    BY <2>1 DEF TextLines
<1>3. inner \in Seq(TextLines) /\ Parsed(q, inner) = r
  BY InnerRead
<1>4. ParseLine(ParseLine(p, l), k) = q
  BY HeadRead
<1>. HIDE DEF l, k, inner, p, q, r
<1>5. head = <<l>> \o <<k>> /\ <<l>> \in Seq(TextLines) /\ <<k>> \in Seq(TextLines)
  <2>1. <<l>> \in Seq(TextLines) /\ <<k>> \in Seq(TextLines)
    BY <1>2
  <2>2. head = Append(<<l>>, k)
    BY <2>1
  <2>3. Append(<<l>>, k) = <<l>> \o <<k>>
    BY <1>2, <2>1, AppendIsConcat
  <2>. QED
    BY <2>1, <2>2, <2>3, Zenon
<1>6. Parsed(p, <<l>>) = ParseLine(p, l) /\ \A x : Parsed(x, <<k>>) = ParseLine(x, k)
  BY ParsedOne
<1>7. Parsed(p, head) = q /\ head \in Seq(TextLines)
  <2>1. Parsed(p, <<l>> \o <<k>>) = Parsed(Parsed(p, <<l>>), <<k>>)
    BY <1>5, ParsedConcat
  <2>2. <<l>> \o <<k>> \in Seq(TextLines)
    BY <1>5
  <2>. QED
    BY <1>4, <1>5, <1>6, <2>1, <2>2
<1>. HIDE DEF head
<1>8. Parsed(p, head \o inner) = Parsed(Parsed(p, head), inner)
  BY <1>3, <1>7, ParsedConcat
<1>9. head \o inner \in Seq(TextLines)
  BY <1>3, <1>7
<1>. QED
  BY <1>1, <1>3, <1>7, <1>8, <1>9 DEF p, r

(* All that was reported, in order.                                        *)
PlacesOf(gs) == [i \in DOMAIN gs |-> PlaceOf(i, gs[i])]
GroupsOf(gs) == [i \in DOMAIN gs |-> GroupWritten(i, gs[i])]

LEMMA DumpFacts ==
  ASSUME NEW gs \in Seq(Groups)
  PROVE  /\ Len(gs) \in Nat /\ DOMAIN gs = 1..Len(gs)
         /\ \A i \in 1..Len(gs) : gs[i] \in Groups
         /\ PlacesOf(gs) \in Seq(Seq(Hops)) /\ Len(PlacesOf(gs)) = Len(gs)
         /\ \A i \in 1..Len(gs) : PlacesOf(gs)[i] = PlaceOf(i, gs[i])
         /\ GroupsOf(gs) \in Seq(Seq(TextLines)) /\ Len(GroupsOf(gs)) = Len(gs)
         /\ \A i \in 1..Len(gs) : GroupsOf(gs)[i] = GroupWritten(i, gs[i])
         /\ Place(gs) = Joined(PlacesOf(gs))
         /\ Written(gs) = <<Remark>> \o Joined(GroupsOf(gs))
<1>. DEFINE n == Len(gs)
            P == PlacesOf(gs)
            W == GroupsOf(gs)
<1>1. n \in Nat /\ DOMAIN gs = 1..n /\ \A i \in 1..n : gs[i] \in Groups
  OBVIOUS
<1>2. P = [i \in 1..n |-> P[i]] /\ \A i \in 1..n : P[i] = PlaceOf(i, gs[i])
  BY <1>1 DEF PlacesOf
<1>3. W = [i \in 1..n |-> W[i]] /\ \A i \in 1..n : W[i] = GroupWritten(i, gs[i])
  BY <1>1 DEF GroupsOf
<1>4. Place(gs) = Joined(P)
  BY DEF Place, PlacesOf, PlaceOf, HopOf, ScopeOf
<1>5. Written(gs) = <<Remark>> \o Joined(W)
  BY DEF Written, GroupsOf
<1>. HIDE DEF P, W, n
<1>6. \A i \in 1..n : P[i] \in Seq(Hops)
  <2>1. ASSUME NEW i \in 1..n PROVE P[i] \in Seq(Hops)
    <3>1. i \in Nat /\ gs[i] \in Groups
      BY <1>1
    <3>2. PlaceOf(i, gs[i]) \in Seq(Hops)
      BY <3>1, GroupFacts
    <3>. QED
      BY <1>2, <3>2
  <2>. QED
    BY <2>1
<1>7. \A i \in 1..n : W[i] \in Seq(TextLines)
  <2>1. ASSUME NEW i \in 1..n PROVE W[i] \in Seq(TextLines)
    <3>1. i - 1 \in Nat /\ (i - 1) + 1 = i /\ gs[i] \in Groups
      BY <1>1
    <3>2. << >> \in Seq(Hops)
      OBVIOUS
    <3>3. GroupWritten((i - 1) + 1, gs[i]) \in Seq(TextLines)
      BY <3>1, <3>2, GroupRead
    <3>. QED
      BY <1>3, <3>1, <3>3
  <2>. QED
    BY <2>1
<1>8. P \in [1..n -> Seq(Hops)] /\ W \in [1..n -> Seq(TextLines)]
  BY <1>2, <1>3, <1>6, <1>7
<1>9. P \in Seq(Seq(Hops)) /\ Len(P) = n
  BY <1>1, <1>8
<1>10. W \in Seq(Seq(TextLines)) /\ Len(W) = n
  BY <1>1, <1>8
<1>. QED
  BY <1>1, <1>2, <1>3, <1>4, <1>5, <1>9, <1>10 DEF P, W, n

(* The parser gives back what the walk reported.                           *)
LEMMA DumpRead ==
  ASSUME NEW gs \in Seq(Groups)
  PROVE  Place(gs) \in Seq(Hops) /\ parse_dump(Written(gs)) = Place(gs)
<1>. DEFINE n == Len(gs)
            P == PlacesOf(gs)
            W == GroupsOf(gs)
<1>1. n \in Nat /\ \A i \in 1..n : gs[i] \in Groups
  BY DumpFacts
<1>2. P \in Seq(Seq(Hops)) /\ Len(P) = n
  BY DumpFacts
<1>3. \A i \in 1..n : P[i] = PlaceOf(i, gs[i])
  BY DumpFacts
<1>4. W \in Seq(Seq(TextLines)) /\ Len(W) = n
  BY DumpFacts
<1>5. \A i \in 1..n : W[i] = GroupWritten(i, gs[i])
  BY DumpFacts
<1>6. Place(gs) = Joined(P) /\ Written(gs) = <<Remark>> \o Joined(W)
  BY DumpFacts
<1>. HIDE DEF P, W, n
<1>7. PICK upto : JoinedUp(upto, W, n) /\ Joined(W) = upto[n]
  BY <1>1, <1>4, JoinedPositions
<1>8. PICK places : JoinedUp(places, P, n) /\ Joined(P) = places[n]
  BY <1>1, <1>2, JoinedPositions
<1>9. \A i \in 0..n : upto[i] \in Seq(TextLines)
  BY <1>4, <1>7, JoinedType
<1>10. \A i \in 0..n : places[i] \in Seq(Hops)
  BY <1>2, <1>8, JoinedType
<1>. DEFINE Reads(i) == \E scope \in Texts, through \in BOOLEAN :
                          Parsed(Parser, upto[i]) = At(places[i], i, scope, through)
            S == {i \in 0..n : Reads(i)}
<1>11. Parser = At(<< >>, 0, "", FALSE)
  BY DEF Parser, At
<1>12. 0 \in S
  <2>1. upto[0] = << >> /\ places[0] = << >>
    BY <1>7, <1>8 DEF JoinedUp
  <2>2. Parsed(Parser, << >>) = Parser
    <3>1. PICK after : ParsedUp(after, Parser, << >>, 0) /\ Parsed(Parser, << >>) = after[0]
      BY ParsedPositions
    <3>. QED
      BY <3>1 DEF ParsedUp
  <2>3. Parsed(Parser, upto[0]) = At(places[0], 0, "", FALSE)
    BY <1>11, <2>1, <2>2
  <2>4. Reads(0)
    BY <2>3, TextsAssumption
  <2>. HIDE DEF Reads
  <2>. QED
    BY <1>1, <2>4
<1>13. ASSUME NEW i \in 1..n, i - 1 \in S PROVE i \in S
  <2>1. i - 1 \in 0..n /\ i \in 0..n /\ i - 1 \in Nat /\ (i - 1) + 1 = i /\ gs[i] \in Groups
    BY <1>1
  <2>2. PICK scope \in Texts, through \in BOOLEAN :
          Parsed(Parser, upto[i - 1]) = At(places[i - 1], i - 1, scope, through)
    BY <1>13
  <2>3. upto[i] = upto[i - 1] \o W[i] /\ places[i] = places[i - 1] \o P[i]
    BY <1>7, <1>8 DEF JoinedUp
  <2>4. upto[i - 1] \in Seq(TextLines) /\ W[i] \in Seq(TextLines) /\ places[i - 1] \in Seq(Hops)
    BY <1>4, <1>9, <1>10, <2>1
  <2>5. Parsed(Parser, upto[i - 1] \o W[i]) = Parsed(Parsed(Parser, upto[i - 1]), W[i])
    BY <2>4, ParsedConcat
  <2>. DEFINE H == places[i - 1]
              g == gs[i]
              k == i - 1
  <2>6. Parsed(At(H, k, scope, through), GroupWritten(k + 1, g))
        = At(H \o PlaceOf(k + 1, g), k + 1, ScopeOf(g), g.through)
    <3>1. H \in Seq(Hops) /\ k \in Nat /\ g \in Groups
      BY <2>1, <2>4
    <3>. HIDE DEF H, k, g
    <3>. QED
      BY <3>1, GroupRead
  <2>7. GroupWritten(k + 1, g) = W[i] /\ PlaceOf(k + 1, g) = P[i] /\ k + 1 = i
    BY <1>3, <1>5, <2>1
  <2>8. Parsed(Parser, upto[i]) = At(places[i], i, ScopeOf(g), g.through)
    <3>. HIDE DEF g
    <3>. QED
      BY <2>2, <2>3, <2>5, <2>6, <2>7
  <2>9. ScopeOf(g) \in Texts /\ g.through \in BOOLEAN
    BY <2>1, GroupFacts
  <2>10. Reads(i)
    <3>. HIDE DEF g
    <3>. QED
      BY <2>8, <2>9
  <2>. HIDE DEF Reads
  <2>. QED
    BY <2>1, <2>10
<1>14. Reads(n)
  <2>. HIDE DEF S
  <2>1. \A i \in 0..n : i \in S
    BY <1>1, <1>12, <1>13, UpTo
  <2>2. n \in S
    BY <1>1, <2>1
  <2>. HIDE DEF Reads
  <2>. QED
    BY <2>2 DEF S
<1>15. Parsed(Parser, Joined(W)).hops = Joined(P)
  BY <1>7, <1>8, <1>14 DEF At
<1>16. Parsed(Parser, <<Remark>> \o Joined(W)) = Parsed(Parser, Joined(W))
  <2>1. Remark \in TextLines
    BY DEF TextLines
  <2>2. <<Remark>> \in Seq(TextLines)
    BY <2>1
  <2>3. Joined(W) \in Seq(TextLines)
    BY <1>1, <1>7, <1>9
  <2>4. Parsed(Parser, <<Remark>>) = ParseLine(Parser, Remark)
    BY ParsedOne
  <2>5. ParseLine(Parser, Remark) = Parser
    BY DEF ParseLine, Remark
  <2>6. Parsed(Parser, <<Remark>> \o Joined(W)) = Parsed(Parsed(Parser, <<Remark>>), Joined(W))
    <3>. DEFINE a == <<Remark>>
                b == Joined(W)
    <3>1. a \in Seq(TextLines) /\ b \in Seq(TextLines)
      BY <2>2, <2>3
    <3>. HIDE DEF a, b
    <3>2. Parsed(Parser, a \o b) = Parsed(Parsed(Parser, a), b)
      BY <3>1, ParsedConcat
    <3>. QED
      BY <3>2 DEF a, b
  <2>. QED
    BY <2>4, <2>5, <2>6
<1>17. Joined(P) \in Seq(Hops)
  BY <1>1, <1>8, <1>10
<1>. QED
  BY <1>6, <1>15, <1>16, <1>17 DEF parse_dump

(* What is in sequences one after the other is in one of them.             *)
Occurs(x, q) == \E k \in 1..Len(q) : q[k] = x

LEMMA OccursConcat ==
  ASSUME NEW L, NEW a \in Seq(L), NEW b \in Seq(L), NEW x
  PROVE  Occurs(x, a \o b) <=> Occurs(x, a) \/ Occurs(x, b)
<1>. DEFINE m == Len(a)
            n == Len(b)
            t == a \o b
<1>1. m \in Nat /\ n \in Nat /\ Len(t) = m + n
  OBVIOUS
<1>2. \A k \in 1..m : t[k] = a[k]
  OBVIOUS
<1>3. \A k \in 1..n : t[m + k] = b[k]
  OBVIOUS
<1>. HIDE DEF t
<1>4. ASSUME Occurs(x, a) \/ Occurs(x, b) PROVE Occurs(x, t)
  <2>1. CASE Occurs(x, a)
    <3>1. PICK k \in 1..m : a[k] = x
      BY <2>1 DEF Occurs
    <3>2. k \in 1..Len(t) /\ t[k] = x
      BY <1>1, <1>2, <3>1
    <3>. QED
      BY <3>2 DEF Occurs
  <2>2. CASE Occurs(x, b)
    <3>1. PICK k \in 1..n : b[k] = x
      BY <2>2 DEF Occurs
    <3>2. m + k \in 1..Len(t) /\ t[m + k] = x
      BY <1>1, <1>3, <3>1
    <3>. QED
      BY <3>2 DEF Occurs
  <2>. QED
    BY <1>4, <2>1, <2>2
<1>5. ASSUME Occurs(x, t) PROVE Occurs(x, a) \/ Occurs(x, b)
  <2>1. PICK k \in 1..(m + n) : t[k] = x
    BY <1>1, <1>5 DEF Occurs
  <2>2. CASE k \in 1..m
    BY <1>2, <2>1, <2>2 DEF Occurs
  <2>3. CASE k \notin 1..m
    <3>1. k - m \in 1..n /\ m + (k - m) = k
      BY <1>1, <2>1, <2>3
    <3>2. b[k - m] = x
      BY <1>3, <2>1, <3>1
    <3>. QED
      BY <3>1, <3>2 DEF Occurs
  <2>. QED
    BY <2>2, <2>3
<1>. QED
  BY <1>4, <1>5 DEF t

LEMMA OccursJoined ==
  ASSUME NEW L, NEW texts \in Seq(Seq(L)), NEW x
  PROVE  Occurs(x, Joined(texts)) <=> \E i \in 1..Len(texts) : Occurs(x, texts[i])
<1>. DEFINE n == Len(texts)
<1>1. n \in Nat /\ \A i \in 1..n : texts[i] \in Seq(L)
  OBVIOUS
<1>2. PICK upto : JoinedUp(upto, texts, n) /\ Joined(texts) = upto[n]
  BY <1>1, JoinedPositions
<1>3. \A i \in 0..n : upto[i] \in Seq(L)
  BY <1>2, JoinedType
<1>. DEFINE Among(i) == \E k \in 1..i : Occurs(x, texts[k])
            S == {i \in 0..n : Occurs(x, upto[i]) <=> Among(i)}
<1>. HIDE DEF n
<1>4. 0 \in S
  <2>1. upto[0] = << >> /\ 0 \in 0..n
    BY <1>1, <1>2 DEF JoinedUp
  <2>2. ~Occurs(x, << >>)
    BY DEF Occurs
  <2>3. ~Among(0)
    OBVIOUS
  <2>. QED
    BY <2>1, <2>2, <2>3
<1>5. ASSUME NEW i \in 1..n, i - 1 \in S PROVE i \in S
  <2>1. i - 1 \in 0..n /\ i \in 0..n
    BY <1>1
  <2>2. upto[i] = upto[i - 1] \o texts[i]
    BY <1>2 DEF JoinedUp
  <2>3. upto[i - 1] \in Seq(L) /\ texts[i] \in Seq(L)
    BY <1>1, <1>3, <2>1
  <2>4. Occurs(x, upto[i - 1] \o texts[i]) <=> Occurs(x, upto[i - 1]) \/ Occurs(x, texts[i])
    BY <2>3, OccursConcat
  <2>5. Among(i) <=> Among(i - 1) \/ Occurs(x, texts[i])
    <3>1. \A k : k \in 1..i <=> k \in 1..(i - 1) \/ k = i
      BY <1>1
    <3>. QED
      BY <3>1
  <2>. HIDE DEF Among
  <2>. QED
    BY <1>5, <2>1, <2>2, <2>4, <2>5
<1>6. n \in S
  <2>. HIDE DEF S
  <2>1. \A i \in 0..n : i \in S
    BY <1>1, <1>4, <1>5, UpTo
  <2>. QED
    BY <1>1, <2>1
<1>. QED
  BY <1>2, <1>6 DEF n

(* The kinds of the hops are the kinds of the statements reported.         *)
KindsIn(gs) ==
  UNION {{kind_of(gs[i].stmts[j].ty) : j \in DOMAIN gs[i].stmts} : i \in DOMAIN gs}

LEMMA KindsAgree ==
  ASSUME NEW gs \in Seq(Groups)
  PROVE  {Place(gs)[k].kind : k \in DOMAIN Place(gs)} = KindsIn(gs)
<1>. DEFINE n == Len(gs)
            P == PlacesOf(gs)
<1>1. n \in Nat /\ DOMAIN gs = 1..n /\ \A i \in 1..n : gs[i] \in Groups
  BY DumpFacts
<1>2. P \in Seq(Seq(Hops)) /\ Len(P) = n /\ Place(gs) = Joined(P)
  BY DumpFacts
<1>3. \A i \in 1..n : P[i] = PlaceOf(i, gs[i])
  BY DumpFacts
<1>. DEFINE hops0 == Place(gs)
<1>4. hops0 \in Seq(Hops)
  BY DumpRead
<1>5. DOMAIN hops0 = 1..Len(hops0)
  BY <1>4
<1>. HIDE DEF P, n, hops0
<1>6. \A x : Occurs(x, hops0) <=> \E i \in 1..n : Occurs(x, P[i])
  BY <1>2, OccursJoined DEF hops0
<1>7. ASSUME NEW i \in 1..n
      PROVE  /\ Len(P[i]) = Len(gs[i].stmts) /\ DOMAIN gs[i].stmts = 1..Len(gs[i].stmts)
             /\ \A j \in 1..Len(gs[i].stmts) : P[i][j].kind = kind_of(gs[i].stmts[j].ty)
  <2>. DEFINE g == gs[i]
  <2>1. i \in Nat /\ g \in Groups /\ P[i] = PlaceOf(i, g)
    BY <1>1, <1>3
  <2>. HIDE DEF g
  <2>2. Len(PlaceOf(i, g)) = Len(g.stmts) /\ DOMAIN g.stmts = 1..Len(g.stmts)
    BY <2>1, GroupFacts
  <2>3. \A j \in 1..Len(g.stmts) :
          PlaceOf(i, g)[j] = HopOf(i, ScopeOf(g), g.through, g.stmts[j], Signals(g.stmts[j]))
    BY <2>1, GroupFacts
  <2>4. \A j \in 1..Len(g.stmts) : PlaceOf(i, g)[j].kind = kind_of(g.stmts[j].ty)
    <3>1. \A s, signals : HopOf(i, ScopeOf(g), g.through, s, signals).kind = kind_of(s.ty)
      BY DEF HopOf
    <3>. QED
      BY <2>3, <3>1
  <2>. QED
    BY <2>1, <2>2, <2>4 DEF g
<1>8. ASSUME NEW K, K \in {hops0[k].kind : k \in DOMAIN hops0} PROVE K \in KindsIn(gs)
  <2>1. PICK k \in 1..Len(hops0) : hops0[k].kind = K
    BY <1>5, <1>8
  <2>2. Occurs(hops0[k], hops0)
    BY DEF Occurs
  <2>3. PICK i \in 1..n : Occurs(hops0[k], P[i])
    BY <1>6, <2>2
  <2>4. PICK j \in 1..Len(P[i]) : P[i][j] = hops0[k]
    BY <2>3 DEF Occurs
  <2>5. i \in DOMAIN gs /\ j \in DOMAIN gs[i].stmts /\ K = kind_of(gs[i].stmts[j].ty)
    BY <1>1, <1>7, <2>1, <2>4
  <2>. QED
    BY <2>5 DEF KindsIn
<1>9. ASSUME NEW K, K \in KindsIn(gs) PROVE K \in {hops0[k].kind : k \in DOMAIN hops0}
  <2>1. PICK i \in DOMAIN gs : K \in {kind_of(gs[i].stmts[j].ty) : j \in DOMAIN gs[i].stmts}
    BY <1>9 DEF KindsIn
  <2>2. PICK j \in DOMAIN gs[i].stmts : K = kind_of(gs[i].stmts[j].ty)
    BY <2>1
  <2>3. i \in 1..n /\ j \in 1..Len(P[i]) /\ P[i][j].kind = K
    BY <1>1, <1>7, <2>1, <2>2
  <2>4. Occurs(P[i][j], P[i])
    BY <2>3 DEF Occurs
  <2>5. Occurs(P[i][j], hops0)
    BY <1>6, <2>3, <2>4
  <2>6. PICK k \in 1..Len(hops0) : hops0[k] = P[i][j]
    BY <2>5 DEF Occurs
  <2>. QED
    BY <1>5, <2>3, <2>6
<1>. QED
  BY <1>8, <1>9 DEF hops0

(* The verdict is over all that is not control.                            *)
LEMMA Classified ==
  ASSUME NEW gs \in Seq(Groups)
  PROVE  LET drivers == KindsIn(gs) \ {"Control"}
         IN  classify(Place(gs)) = CASE drivers = {} -> "NotFound"
                                     [] drivers = {"Port"} -> "BoundaryOnly"
                                     [] OTHER -> "Resolved"
<1>. DEFINE hs == Place(gs)
            drivers == KindsIn(gs) \ {"Control"}
            structural == {i \in DOMAIN hs : hs[i].kind # "Control"}
<1>1. drivers = {hs[i].kind : i \in structural}
  <2>1. KindsIn(gs) = {hs[i].kind : i \in DOMAIN hs}
    BY KindsAgree
  <2>. HIDE DEF hs
  <2>. QED
    BY <2>1
<1>2. classify(hs) = IF structural = {} THEN "NotFound"
                     ELSE IF \A i \in structural : hs[i].kind = "Port" THEN "BoundaryOnly"
                     ELSE "Resolved"
  BY DEF classify
<1>. HIDE DEF hs, structural, drivers
<1>3. CASE structural = {}
  <2>1. drivers = {}
    BY <1>1, <1>3
  <2>. QED
    BY <1>2, <1>3, <2>1 DEF hs, drivers
<1>4. CASE structural # {} /\ \A i \in structural : hs[i].kind = "Port"
  <2>1. drivers = {"Port"}
    BY <1>1, <1>4
  <2>. QED
    BY <1>2, <1>4, <2>1 DEF hs, drivers
<1>5. CASE structural # {} /\ ~\A i \in structural : hs[i].kind = "Port"
  <2>1. PICK i \in structural : hs[i].kind # "Port"
    BY <1>5
  <2>2. hs[i].kind \in drivers
    BY <1>1
  <2>3. drivers # {} /\ drivers # {"Port"}
    BY <2>1, <2>2
  <2>4. classify(hs) = "Resolved"
    BY <1>2, <1>5
  <2>. QED
    BY <2>3, <2>4 DEF hs, drivers
<1>. QED
  BY <1>3, <1>4, <1>5

(* What is shown is the beginning of what there is.                        *)
LEMMA ClippedIsPrefix ==
  ASSUME NEW hs \in Seq(Hops), NEW limit \in Nat
  PROVE  IsPrefix(Clip(hs, limit), hs)
<1>1. CASE limit = 0 \/ Len(hs) <= limit
  <2>1. Clip(hs, limit) = hs
    BY <1>1 DEF Clip
  <2>2. SubSeq(hs, 1, Len(hs)) = hs
    BY SubSeqFull
  <2>. QED
    BY <2>1, <2>2 DEF IsPrefix
<1>2. CASE ~(limit = 0 \/ Len(hs) <= limit)
  <2>. DEFINE t == SubSeq(hs, 1, limit)
  <2>1. Clip(hs, limit) = t
    BY <1>2 DEF Clip
  <2>2. \A i \in 1..limit : hs[i] \in Hops
    BY <1>2
  <2>3. Len(t) = limit
    BY <1>2, <2>2, SubSeqProperties
  <2>4. limit <= Len(hs)
    BY <1>2
  <2>. HIDE DEF t
  <2>5. Len(t) <= Len(hs) /\ SubSeq(t, 1, Len(t)) = SubSeq(hs, 1, Len(t))
    <3>1. t \in Seq(Hops)
      BY <1>2, <2>2, SubSeqProperties DEF t
    <3>2. SubSeq(t, 1, Len(t)) = t
      BY <3>1, SubSeqFull
    <3>. QED
      BY <2>3, <2>4, <3>2 DEF t
  <2>. QED
    BY <2>1, <2>5 DEF IsPrefix
<1>. QED
  BY <1>1, <1>2

(* What is left out leaves what the walk could have reported.              *)
LEMMA ChosenType ==
  ASSUME NEW L, NEW q \in Seq(L), NEW places
  PROVE  Chosen(q, places) \in Seq(L)
<1>. DEFINE n == Len(q)
<1>1. n \in Nat /\ \A i \in 1..n : q[i] \in L
  OBVIOUS
<1>2. PICK upto : ChosenUp(upto, q, places, n) /\ Chosen(q, places) = upto[n]
  BY <1>1, ChosenPositions
<1>. DEFINE S == {i \in 0..n : upto[i] \in Seq(L)}
<1>. HIDE DEF n
<1>3. 0 \in S
  <2>1. upto[0] = << >> /\ << >> \in Seq(L) /\ 0 \in 0..n
    BY <1>1, <1>2 DEF ChosenUp
  <2>. QED
    BY <2>1
<1>4. ASSUME NEW i \in 1..n, i - 1 \in S PROVE i \in S
  <2>. DEFINE x == upto[i - 1]
              e == q[i]
  <2>1. upto[i] = More(x, q, i, places) /\ x \in Seq(L) /\ e \in L /\ i \in 0..n
    BY <1>1, <1>2, <1>4 DEF ChosenUp
  <2>2. More(x, q, i, places) = IF i \in places THEN Append(x, e) ELSE x
    BY DEF More
  <2>. DEFINE y == upto[i]
  <2>. HIDE DEF x, e, y
  <2>3. y = IF i \in places THEN Append(x, e) ELSE x
    BY <2>1, <2>2 DEF y
  <2>4. y \in Seq(L)
    BY <2>1, <2>3
  <2>. QED
    BY <2>1, <2>4 DEF y
<1>5. n \in S
  <2>. HIDE DEF S
  <2>1. \A i \in 0..n : i \in S
    BY <1>1, <1>3, <1>4, UpTo
  <2>. QED
    BY <1>1, <2>1
<1>. QED
  BY <1>2, <1>5

LEMMA ReportedType ==
  ASSUME NEW gs \in Seq(Groups), NEW control
  PROVE  Reported(gs, control) \in Seq(Groups)
<1>. DEFINE n == Len(gs)
            left(g) == Chosen(g.stmts, {j \in DOMAIN g.stmts : kind_of(g.stmts[j].ty) # "Control"})
            less(g) == [g EXCEPT !.stmts = left(g)]
            R == [i \in DOMAIN gs |-> less(gs[i])]
<1>1. Reported(gs, control) = IF control THEN gs ELSE R
  BY DEF Reported
<1>2. n \in Nat /\ DOMAIN gs = 1..n /\ \A i \in 1..n : gs[i] \in Groups
  OBVIOUS
<1>3. \A g \in Groups : less(g) \in Groups
  <2>1. ASSUME NEW g \in Groups PROVE less(g) \in Groups
    <3>1. g.stmts \in Seq(Statements)
      BY DEF Groups, Statements
    <3>2. left(g) \in Seq(Statements)
      BY <3>1, ChosenType
    <3>. HIDE DEF left
    <3>. QED
      BY <3>2 DEF Groups, Statements
  <2>. QED
    BY <2>1
<1>. HIDE DEF less, n
<1>4. R \in [1..n -> Groups]
  BY <1>2, <1>3
<1>5. R \in Seq(Groups)
  BY <1>2, <1>4
<1>. QED
  BY <1>1, <1>5

-----------------------------------------------------------------------------
(* The signals of a name.                                                  *)

LEMMA FirstIsThere ==
  ASSUME NEW n \in Nat, NEW S \in SUBSET (1..n), S # {}
  PROVE  First(S) \in S
<1>1. PICK x : x \in S
  OBVIOUS
<1>2. S \subseteq Nat
  OBVIOUS
<1>3. PICK least \in S : \A r \in S : ~(<<r, least>> \in OpToRel(<, Nat))
  BY <1>1, <1>2, NatLessThanWellFounded, WFMin
<1>4. ASSUME NEW r \in S PROVE least <= r
  <2>1. r \in Nat /\ least \in Nat
    BY <1>2
  <2>2. ~(r < least)
    BY <1>3, <2>1 DEF OpToRel
  <2>. QED
    BY <2>1, <2>2
<1>5. \E sid \in S : \A other \in S : sid <= other
  BY <1>4
<1>. QED
  BY <1>5 DEF First

Alike(name) == IF Exact(name) # {} THEN Exact(name) ELSE Folded(name)

(* A name is found among the signals that have it; in another case than    *)
(* theirs only if there is one; and a name of one signal is found.         *)
LEMMA EndpointFacts ==
  ASSUME NEW name
  PROVE  /\ endpoint_index(name) # 0 =>
              /\ endpoint_index(name) \in Alike(name)
              /\ name \in PathsOf(endpoint_index(name)) \/ Alike(name) = {endpoint_index(name)}
         /\ \A sid \in Alike(name) : Alike(name) = {sid} => endpoint_index(name) = sid /\ sid # 0
<1>. DEFINE n == Len(Table)
            E == Exact(name)
            F == Folded(name)
            x == endpoint_index(name)
<1>1. n \in Nat /\ DOMAIN Table = 1..n
  BY TableAssumption
<1>2. E \in SUBSET (1..n) /\ F \in SUBSET (1..n)
  BY <1>1 DEF Exact, Folded, Sids
<1>3. \A sid \in E : name \in PathsOf(sid)
  BY DEF Exact
<1>4. x = IF E # {} THEN First(E) ELSE IF Cardinality(F) = 1 THEN First(F) ELSE 0
  BY DEF endpoint_index
<1>5. Alike(name) = IF E # {} THEN E ELSE F
  BY DEF Alike
<1>. HIDE DEF E, F, n, x
<1>6. CASE E # {}
  <2>1. x \in E
    BY <1>1, <1>2, <1>4, <1>6, FirstIsThere
  <2>2. x \in 1..n
    BY <1>2, <2>1
  <2>. QED
    BY <1>1, <1>3, <1>5, <1>6, <2>1, <2>2 DEF x
<1>7. CASE E = {} /\ Cardinality(F) = 1
  <2>1. IsFiniteSet(F)
    <3>1. IsFiniteSet(1..n)
      BY <1>1, FS_Interval
    <3>. QED
      BY <1>2, <3>1, FS_Subset
  <2>2. PICK y : F = {y}
    BY <1>7, <2>1, FS_Singleton
  <2>3. x \in F
    BY <1>1, <1>2, <1>4, <1>7, <2>2, FirstIsThere
  <2>4. x \in 1..n /\ F = {x}
    BY <1>2, <2>2, <2>3
  <2>. QED
    BY <1>1, <1>5, <1>7, <2>3, <2>4 DEF x
<1>8. CASE E = {} /\ Cardinality(F) # 1
  <2>1. x = 0
    BY <1>4, <1>8
  <2>2. \A sid : F # {sid}
    BY <1>8, FS_Singleton
  <2>. QED
    BY <1>5, <1>8, <2>1, <2>2 DEF x
<1>. QED
  BY <1>6, <1>7, <1>8

-----------------------------------------------------------------------------
(* What a line has read by the step it is at, and what it answers.         *)

LineIsAsked == step # "idle" => line \in Commands
Listening == step = "annotate" \/ reply.kind = "traced"
WalkIsRead == Listening => groups \in Seq(Groups) /\ hops = parse_dump(Written(groups))

Shown == Clip(hops, line.limit)
Known(hs, at) == {n \in Wanted(hs) : endpoint_index(n) # 0
                                     /\ <<endpoint_index(n), at>> \in DOMAIN Values}
Noted == IF line.at = {} THEN [values |-> << >>, unresolved |-> 0] ELSE Annotated(Shown, Tick)
Answered ==
  [kind |-> "traced", status |-> classify(hops), shown |-> Shown, total |-> Len(hops),
   values |-> Noted.values, unresolved |-> Noted.unresolved]
AnswerIsOfThis == reply.kind = "traced" => step = "answered" /\ reply = Answered

ReadInv == LineIsAsked /\ WalkIsRead /\ AnswerIsOfThis

LEMMA InitReadInv == Init => ReadInv
<1>1. ASSUME Init PROVE step = "idle" /\ reply.kind = "none"
  BY <1>1 DEF Init, NoReply
<1>. QED
  BY <1>1 DEF ReadInv, LineIsAsked, WalkIsRead, AnswerIsOfThis, Listening

(* A step that is not the walk and does not answer from it.                *)
LEMMA NothingRead ==
  ASSUME step' # "annotate", reply'.kind # "traced", step' = "idle" \/ line' \in Commands
  PROVE  ReadInv'
BY DEF ReadInv, LineIsAsked, WalkIsRead, AnswerIsOfThis, Listening

LEMMA RefusalsAreNone == NoReply.kind # "traced" /\ \A why : Refused(why).kind # "traced"
BY DEF NoReply, Refused

LEMMA StepReadInv == ReadInv /\ [Next]_vars => ReadInv'
<1>. SUFFICES ASSUME ReadInv, [Next]_vars PROVE ReadInv'
  OBVIOUS
<1>1. ASSUME NEW c \in Commands, Begin(c) PROVE ReadInv'
  <2>1. line' = c
    BY <1>1 DEF Begin
  <2>2. step' \in {"probe", "answered"} /\ (reply' = NoReply \/ \E why : reply' = Refused(why))
    <3>1. CASE ~enabled(setting)
      BY <1>1, <3>1 DEF Begin, Go, Answer
    <3>2. CASE enabled(setting) /\ c.malformed
      BY <1>1, <3>2 DEF Begin, Go, Answer
    <3>3. CASE enabled(setting) /\ ~c.malformed
      BY <1>1, <3>3 DEF Begin, Go, Answer
    <3>. QED
      BY <3>1, <3>2, <3>3
  <2>. QED
    BY <2>1, <2>2, RefusalsAreNone, NothingRead
<1>2. ASSUME Probe \/ EnsureDesign \/ LoadDesign PROVE ReadInv'
  <2>1. line' = line /\ step # "idle" /\ step' # "annotate"
        /\ (reply' = NoReply \/ \E why : reply' = Refused(why))
    BY <1>2 DEF Probe, EnsureDesign, LoadDesign, Go, Answer
  <2>2. line' \in Commands
    BY <2>1 DEF ReadInv, LineIsAsked
  <2>. QED
    BY <2>1, <2>2, RefusalsAreNone, NothingRead
<1>3. ASSUME Trace PROVE ReadInv'
  <2>1. line' = line /\ line \in Commands
    BY <1>3 DEF Trace, ReadInv, LineIsAsked
  <2>2. CASE step' = "answered" /\ \E why : reply' = Refused(why)
    BY <2>1, <2>2, RefusalsAreNone, NothingRead
  <2>3. CASE step' = "annotate"
    <3>1. PICK gs \in Dumps : /\ groups' = Reported(gs, line.control)
                              /\ hops' = parse_dump(Written(Reported(gs, line.control)))
                              /\ reply' = NoReply
      BY <1>3, <2>3 DEF Trace, Go, Answer
    <3>2. Reported(gs, line.control) \in Seq(Groups)
      BY DumpsAssumption, ReportedType
    <3>3. groups' \in Seq(Groups) /\ hops' = parse_dump(Written(groups'))
      BY <3>1, <3>2
    <3>. QED
      BY <2>1, <2>3, <3>1, <3>3, RefusalsAreNone
      DEF ReadInv, LineIsAsked, WalkIsRead, AnswerIsOfThis, Listening
  <2>. QED
    BY <1>3, <2>2, <2>3 DEF Trace, Go, Answer
<1>4. ASSUME Annotate PROVE ReadInv'
  <2>1. UNCHANGED <<groups, hops, line>> /\ step = "annotate" /\ step' = "answered"
    BY <1>4 DEF Annotate, Answer
  <2>2. reply' = Answered
    <3>. DEFINE shown == Clip(hops, line.limit)
                at == IF line.at = {} THEN [values |-> << >>, unresolved |-> 0]
                      ELSE Annotated(shown, Tick)
    <3>1. reply' = [kind |-> "traced", status |-> classify(hops), shown |-> shown,
                    total |-> Len(hops), values |-> at.values, unresolved |-> at.unresolved]
      BY <1>4 DEF Annotate, Answer
    <3>2. shown = Shown /\ at = Noted
      BY DEF Shown, Noted
    <3>. HIDE DEF shown, at
    <3>. QED
      BY <3>1, <3>2 DEF Answered
  <2>3. Answered' = Answered
    BY <2>1 DEF Answered, Shown, Noted, Tick
  <2>4. WalkIsRead'
    BY <2>1 DEF ReadInv, WalkIsRead, Listening
  <2>. QED
    BY <2>1, <2>2, <2>3, <2>4 DEF ReadInv, LineIsAsked, AnswerIsOfThis
<1>5. ASSUME NextLine PROVE ReadInv'
  BY <1>5, RefusalsAreNone, NothingRead DEF NextLine
<1>6. ASSUME UNCHANGED vars PROVE ReadInv'
  <2>1. UNCHANGED <<step, line, groups, hops, reply>>
    BY <1>6 DEF vars
  <2>2. Answered' = Answered
    BY <2>1 DEF Answered, Shown, Noted, Tick
  <2>. QED
    BY <2>1, <2>2 DEF ReadInv, LineIsAsked, WalkIsRead, AnswerIsOfThis, Listening
<1>. QED
  BY <1>1, <1>2, <1>3, <1>4, <1>5, <1>6 DEF Next

LEMMA ReadInvariant == Spec => []ReadInv
BY InitReadInv, StepReadInv, PTL DEF Spec

(* Whatever the vendor's walk reports of a signal - statements of any      *)
(* kinds, in groups with legible headers or not, reached through a port or *)
(* not - and however much of it is shown, the answer holds each statement  *)
(* with its own group's number, scope and mark and its own signals, and    *)
(* the verdict is over all that are not control (npi_dump.rs parse_dump    *)
(* and classify, commands/trace.rs build).                                 *)
THEOREM DumpsAreReadBack == Spec => []DumpReadBack
<1>1. ReadInv => DumpReadBack
  <2>. SUFFICES ASSUME ReadInv, reply.kind = "traced"
       PROVE  /\ hops = Place(groups)
              /\ reply.status = CASE Drivers = {} -> "NotFound"
                                  [] Drivers = {"Port"} -> "BoundaryOnly" [] OTHER -> "Resolved"
              /\ reply.total = Len(Place(groups)) /\ IsPrefix(reply.shown, hops)
    BY DEF DumpReadBack
  <2>1. groups \in Seq(Groups) /\ hops = parse_dump(Written(groups)) /\ step = "answered"
        /\ reply = Answered
    BY DEF ReadInv, WalkIsRead, AnswerIsOfThis, Listening
  <2>2. hops \in Seq(Hops) /\ hops = Place(groups)
    BY <2>1, DumpRead
  <2>3. reply.status = classify(hops) /\ reply.total = Len(hops)
        /\ reply.shown = Clip(hops, line.limit)
    BY <2>1 DEF Answered, Shown
  <2>4. Drivers = KindsIn(groups) \ {"Control"}
    BY DEF Drivers, KindsIn
  <2>5. reply.status = CASE Drivers = {} -> "NotFound" [] Drivers = {"Port"} -> "BoundaryOnly"
                         [] OTHER -> "Resolved"
    BY <2>1, <2>2, <2>3, <2>4, Classified
  <2>6. line.limit \in Nat
    BY <2>1, CommandsAssumption DEF ReadInv, LineIsAsked
  <2>7. IsPrefix(reply.shown, hops)
    BY <2>2, <2>3, <2>6, ClippedIsPrefix
  <2>. QED
    BY <2>2, <2>3, <2>5, <2>7
<1>. QED
  BY <1>1, ReadInvariant, PTL

(* A value stands by the name of its own signal: whatever the table and    *)
(* its aliases, one that has that path, or, if none has, the only one that *)
(* has it in another case; and a signal that has a value at the time is    *)
(* not passed over (commands/trace.rs endpoint_index, build).              *)
THEOREM ValuesStandByTheirNames == Spec => []ValuesAreTheirs
<1>1. ReadInv => ValuesAreTheirs
  <2>. SUFFICES ASSUME ReadInv, reply.kind = "traced", line.at # {}, NEW n \in Wanted(reply.shown)
       PROVE  IF n \in DOMAIN reply.values
              THEN \E sid \in Alike(n) : /\ reply.values[n] = Values[<<sid, Tick>>]
                                         /\ n \in PathsOf(sid) \/ Alike(n) = {sid}
              ELSE \A sid \in Alike(n) : Alike(n) = {sid} => <<sid, Tick>> \notin DOMAIN Values
    BY DEF ValuesAreTheirs, Alike
  <2>. DEFINE K == Known(Shown, Tick)
              V == [name \in K |-> Values[<<endpoint_index(name), Tick>>]]
  <2>1. reply = Answered
    BY DEF ReadInv, AnswerIsOfThis
  <2>2. reply.shown = Shown /\ reply.values = V
    <3>1. reply.shown = Shown /\ reply.values = Noted.values
      BY <2>1 DEF Answered
    <3>2. Noted = Annotated(Shown, Tick)
      BY DEF Noted
    <3>3. Annotated(Shown, Tick).values = V
      BY DEF Annotated, Known
    <3>. QED
      BY <3>1, <3>2, <3>3
  <2>3. n \in K <=> endpoint_index(n) # 0 /\ <<endpoint_index(n), Tick>> \in DOMAIN Values
    BY <2>2 DEF Known
  <2>4. /\ DOMAIN reply.values = K
        /\ \A name \in K : reply.values[name] = Values[<<endpoint_index(name), Tick>>]
    BY <2>2
  <2>. HIDE DEF K, V
  <2>5. CASE n \in K
    <3>1. endpoint_index(n) \in Alike(n)
          /\ (n \in PathsOf(endpoint_index(n)) \/ Alike(n) = {endpoint_index(n)})
      BY <2>3, <2>5, EndpointFacts
    <3>. QED
      BY <2>4, <2>5, <3>1
  <2>6. CASE n \notin K
    <3>1. ASSUME NEW sid \in Alike(n), Alike(n) = {sid} PROVE <<sid, Tick>> \notin DOMAIN Values
      <4>1. endpoint_index(n) = sid /\ sid # 0
        BY <3>1, EndpointFacts
      <4>. QED
        BY <2>3, <2>6, <4>1
    <3>. QED
      BY <2>4, <2>6, <3>1
  <2>. QED
    BY <2>5, <2>6
<1>. QED
  BY <1>1, ReadInvariant, PTL
==============================================================================
