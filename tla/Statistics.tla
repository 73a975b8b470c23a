----------------------------- MODULE Statistics -----------------------------
(***************************************************************************)
(* The commands that reduce each signal's recording to one row: `summary`  *)
(* scans the changes of a window, `snapshot` reads one instant, `compare`  *)
(* two (commands/summary.rs, snapshot.rs, compare.rs, model.rs).           *)
(***************************************************************************)
EXTENDS Values, FiniteSets

CONSTANTS
  Sid,        \* the signals, in order of their paths
  Width, Kind,
  Recordings, \* [Sid -> Seq([tick, raw])], ticks not decreasing
  Commands    \* command lines: cmd, begin, end or the two instants, sel

(* No value.                                                               *)
Undef == <<"undef">>

ASSUME StatisticsAssumption ==
  /\ Sid \subseteq Nat
  /\ Width \in [Sid -> Nat \ {0}]
  /\ \A r \in Recordings, s \in Sid :
       /\ r[s] \in Seq([tick : Nat, raw : Seq(STRING)])
       /\ \A i, j \in DOMAIN r[s] : i < j => r[s][i].tick <= r[s][j].tick
       /\ \A i \in DOMAIN r[s] : r[s][i].raw # Undef
  /\ \A c \in Commands :
       /\ c.cmd \in {"summary", "snapshot", "compare"} /\ c.sel \subseteq Sid
       /\ IsArgument(c.begin) /\ IsArgument(c.end)

VARIABLES
  trace,     \* the file
  command,
  seeking,   \* supports_windowed
  phase,
  window,    \* t0 and t1 of parse_window, or the instants
  todo,      \* signals still to be visited
  scan,      \* the signal under scan_
  rows,      \* results by signal
  undefined  \* summary: signals without a row

vars == <<trace, command, seeking, phase, window, todo, scan, rows, undefined>>

NoScan == << >>

Init ==
  /\ trace \in Recordings /\ command \in Commands /\ seeking \in BOOLEAN
  /\ phase = "parse" /\ window = << >> /\ todo = command.sel
  /\ scan = NoScan /\ rows = << >> /\ undefined = {}

(* --begin/--end, or --at T and --at T1,T2: the second not before the first*)
ParseTimes ==
  /\ phase = "parse"
  /\ LET w == parse_window(command.begin, command.end)
     IN  /\ window' = w
         /\ phase' = IF w.ok THEN "visit" ELSE "error"
  /\ UNCHANGED <<trace, command, seeking, todo, scan, rows, undefined>>

Times(changes) == [i \in DOMAIN changes |-> changes[i].tick]
LastOf(S) == CHOOSE i \in S : \A j \in S : j <= i

(* last_at_or_before: 0 for none.                                          *)
last_at_or_before(changes, t) ==
  LET upto == {i \in DOMAIN changes : changes[i].tick <= t}
  IN  IF upto = {} THEN 0 ELSE LastOf(upto)

upper_bound(changes, t) == Cardinality({i \in DOMAIN changes : changes[i].tick <= t})

-----------------------------------------------------------------------------

(* Mutant of init_boundary: the change at the window's first tick is part  *)
(* of the baseline whatever the window.                                    *)
BoundaryAtStart(t0) == t0

(* The baseline is what held before the window; a window from tick 0 has   *)
(* the change at 0 for it.                                                 *)
init_boundary(t0) == IF t0 = 0 THEN 0 ELSE t0 - 1

bits_view(s, i) == IF Kind[s] = "Bits" THEN trace[s][i].raw ELSE Undef

(* summary_rows' closure for one signal: base_pos, start and upper.        *)
BeginScan ==
  /\ phase = "visit" /\ command.cmd = "summary" /\ scan = NoScan /\ todo # {}
  /\ LET s == CHOOSE x \in todo : TRUE
         base == last_at_or_before(trace[s], init_boundary(window.t0))
         start == IF base # 0 THEN base + 1
                  ELSE upper_bound(trace[s], init_boundary(window.t0)) + 1
         known == base # 0
     IN  scan' = [sid |-> s, base |-> base, next |-> start,
                  upper |-> upper_bound(trace[s], window.t1), changes |-> 0,
                  first_at |-> -1, last_at |-> -1, rise |-> 0, fall |-> 0,
                  prev |-> IF known THEN bits_view(s, base) ELSE Undef,
                  unknown |-> known /\ Kind[s] = "Bits" /\ bits_have_unknown(trace[s][base].raw),
                  uniq |-> IF known THEN {trace[s][base].raw} ELSE {}]
  /\ UNCHANGED <<trace, command, seeking, phase, window, todo, rows, undefined>>

(* One change of the window.                                               *)
ScanChange ==
  /\ scan # NoScan /\ scan.next <= scan.upper
  /\ LET c == trace[scan.sid][scan.next]
         cur == bits_view(scan.sid, scan.next)
     IN  scan' = [scan EXCEPT
           !.next = @ + 1, !.changes = @ + 1, !.prev = cur,
           !.rise = @ + (IF scan.prev = <<"0">> /\ cur = <<"1">> THEN 1 ELSE 0),
           !.fall = @ + (IF scan.prev = <<"1">> /\ cur = <<"0">> THEN 1 ELSE 0),
           !.first_at = IF @ = -1 THEN c.tick ELSE @,
           !.last_at = c.tick,
           !.unknown = @ \/ (Kind[scan.sid] = "Bits" /\ bits_have_unknown(c.raw)),
           !.uniq = @ \cup {c.raw}]
  /\ UNCHANGED <<trace, command, seeking, phase, window, todo, rows, undefined>>

Text(s, i) == IF i = 0 THEN Shown("undef", << >>, 0) ELSE fmt_val(trace[s][i].raw, Kind[s], Width[s])

SummaryRow(s) ==
  [active |-> scan.changes > 0, changes |-> scan.changes,
   rise |-> IF Width[s] = 1 THEN scan.rise ELSE 0,
   fall |-> IF Width[s] = 1 THEN scan.fall ELSE 0,
   init |-> Text(s, scan.base),
   last |-> Text(s, IF scan.changes > 0 THEN scan.upper ELSE scan.base),
   first_at |-> scan.first_at, last_at |-> scan.last_at,
   unique |-> Cardinality(scan.uniq), unknown |-> scan.unknown]

(* A signal with neither a baseline nor a change is undefined.             *)
EndScan ==
  /\ scan # NoScan /\ scan.next > scan.upper
  /\ IF scan.base # 0 \/ scan.changes > 0
     THEN /\ rows' = [s \in DOMAIN rows \cup {scan.sid} |->
                        IF s = scan.sid THEN SummaryRow(s) ELSE rows[s]]
          /\ UNCHANGED undefined
     ELSE /\ undefined' = undefined \cup {scan.sid} /\ UNCHANGED rows
  /\ todo' = todo \ {scan.sid} /\ scan' = NoScan
  /\ UNCHANGED <<trace, command, seeking, phase, window>>

-----------------------------------------------------------------------------

(* Mutant of Decoded: a seek forgets the value in effect.                  *)
DecodedInside(s, t0, t1) ==
  IF seeking THEN SelectSeq(trace[s], LAMBDA c : c.tick \in t0 .. t1) ELSE trace[s]

(* What a decode delivers for [t0, t1]: everything, or with a backend that *)
(* seeks the last change at or before t0 and those up to t1.               *)
Decoded(s, t0, t1) ==
  IF seeking
  THEN LET seed == last_at_or_before(trace[s], t0)
       IN  SubSeq(trace[s], IF seed = 0 THEN 1 ELSE seed, upper_bound(trace[s], t1))
  ELSE trace[s]

ValueIn(changes, t) ==
  LET pos == last_at_or_before(changes, t)
  IN  IF pos = 0 THEN Undef ELSE changes[pos].raw

Format(s, raw) == IF raw = Undef THEN Shown("undef", << >>, 0) ELSE fmt_val(raw, Kind[s], Width[s])

(* snapshot and snapshot_streaming.                                        *)
Snapshot ==
  /\ phase = "visit" /\ command.cmd = "snapshot"
  /\ rows' = [s \in {x \in command.sel :
                       ValueIn(Decoded(x, window.t1, window.t1), window.t1) # Undef} |->
                Format(s, ValueIn(Decoded(s, window.t1, window.t1), window.t1))]
  /\ phase' = "done" /\ todo' = {}
  /\ UNCHANGED <<trace, command, seeking, window, scan, undefined>>

(* snapshot_pair reads both instants of a full decode, the streaming one   *)
(* two point windows when the backend seeks; values differ as recorded.    *)
Compare ==
  /\ phase = "visit" /\ command.cmd = "compare"
  /\ LET a(s) == ValueIn(Decoded(s, window.t0, window.t0), window.t0)
         b(s) == ValueIn(Decoded(s, window.t1, window.t1), window.t1)
     IN  rows' = [s \in {x \in command.sel : a(x) # b(x)} |->
                    <<Format(s, a(s)), Format(s, b(s))>>]
  /\ phase' = "done" /\ todo' = {}
  /\ UNCHANGED <<trace, command, seeking, window, scan, undefined>>

Finish ==
  /\ phase = "visit" /\ command.cmd = "summary" /\ todo = {} /\ scan = NoScan
  /\ phase' = "done"
  /\ UNCHANGED <<trace, command, seeking, window, todo, scan, rows, undefined>>

Next == ParseTimes \/ BeginScan \/ ScanChange \/ EndScan \/ Snapshot \/ Compare \/ Finish

Spec == Init /\ [][Next]_vars

-----------------------------------------------------------------------------

Summarised == phase = "done" /\ command.cmd = "summary"

(* What a snapshot of the file at an instant says.                         *)
Snap(s, t) == Text(s, last_at_or_before(trace[s], t))

(* The changes `dump` lists for the window.                                *)
Dumped(s) == {i \in DOMAIN trace[s] : trace[s][i].tick \in window.t0 .. window.t1}

(* A summary agrees with the snapshots at both ends of its window and with *)
(* the dump of it: last is the value at t1, init the one just before t0,   *)
(* and each dumped change is counted, those at tick 0 only as a baseline.  *)
SummaryAgrees ==
  Summarised =>
    \A s \in command.sel :
      LET counted == {i \in Dumped(s) : trace[s][i].tick > 0}
      IN  IF s \in undefined
          THEN Snap(s, window.t1).form = "undef"
          ELSE /\ rows[s].last = Snap(s, window.t1)
               /\ rows[s].init = Snap(s, IF window.t0 = 0 THEN 0 ELSE window.t0 - 1)
               /\ rows[s].changes = Cardinality(counted)
               /\ rows[s].init # rows[s].last => rows[s].active
               /\ rows[s].active => rows[s].first_at = trace[s][CHOOSE i \in counted :
                                      \A j \in counted : i <= j].tick

(* A snapshot shows each signal that has a value at the instant, and what  *)
(* it shows is the value; compare leaves out only signals that read the    *)
(* same at both instants and shows the others as snapshots would, whether  *)
(* the backend seeks or decodes everything.                                *)
PointsAgree ==
  phase = "done" =>
    \A s \in command.sel :
      LET before == Snap(s, window.t0)
          after == Snap(s, window.t1)
      IN  /\ command.cmd = "snapshot" =>
               IF s \in DOMAIN rows THEN rows[s] = after ELSE after.form = "undef"
          /\ command.cmd = "compare" =>
               IF s \in DOMAIN rows THEN rows[s] = <<before, after>> ELSE before = after

(* What compare lists reads differently at its two instants.               *)
ListedValuesDiffer ==
  phase = "done" /\ command.cmd = "compare" =>
    \A s \in DOMAIN rows : rows[s][1] # rows[s][2]

(* Targets a user may write for a signal.                                  *)
Targets(width) ==
  {RawTarget(bits) : bits \in UNION {[1 .. n -> Mask] : n \in 1 .. width + 1}}
  \cup {IntTarget(n) : n \in 0 .. 2 ^ (width + 1)}

(* The logic value a scan has just read its baseline from, if it has bits. *)
Current == IF /\ scan # NoScan /\ scan.base # 0 /\ scan.changes = 0
              /\ Kind[scan.sid] = "Bits" /\ trace[scan.sid][scan.base].raw # << >>
           THEN {scan.base} ELSE {}

Fits(s, i) == Len(trace[s][i].raw) <= Width[s]

Holds(op, s, i, target) == condition_match(trace[s][i].raw, "Bits", op, target, Width[s])
HoldsOfUnknown(op, s, target) ==
  condition_match(AllUnknown(Width[s]), "Bits", op, target, Width[s])

(* What a row shows of a logic value is, given back as SIG=<shown>, the    *)
(* condition that holds of the values shown so and of no other: the two    *)
(* readings of bits, one that formats and one that compares, agree.  They  *)
(* differ on one case, a number compared with a value that has more bits   *)
(* than its signal: see OverlongReadsUnknown.                              *)
ShownValueMatches ==
  \A i \in Current :
    LET s == scan.sid
        target == parse_target_value(Text(s, i))
    IN  /\ target.ok
        /\ \A j \in DOMAIN trace[s] :
             trace[s][j].raw # << >> /\ (Fits(s, j) \/ ~target.int) =>
               (Holds("=", s, j, target) <=> Text(s, j) = Text(s, i))

(* = and != never hold both.  Of a value the summary counts as known one   *)
(* of them does, whatever the target; of one it counts as unknown neither  *)
(* does with a number.  To a pattern, a value with more bits than its      *)
(* signal is one whose bits are all x.                                     *)
KnownValuesAreDecided ==
  \A i \in Current :
    LET s == scan.sid
        unknown == bits_have_unknown(trace[s][i].raw)
    IN  \A t \in Targets(Width[s]) :
          LET eq == Holds("=", s, i, t)
              ne == Holds("!=", s, i, t)
          IN  /\ ~(eq /\ ne)
              /\ ~unknown /\ (t.int \/ Fits(s, i)) => eq \/ ne
              /\ unknown /\ t.int => ~eq /\ ~ne
              /\ ~t.int /\ ~Fits(s, i) => /\ eq <=> HoldsOfUnknown("=", s, t)
                                         /\ ne <=> HoldsOfUnknown("!=", s, t)

(* "A value longer than its declared width is malformed and reads as       *)
(* all-x, as `fmt_bits` displays it" (condition.rs pattern_compare), of    *)
(* every target.  It does not hold: a number is compared with the number   *)
(* that the bits spell, and the summary counts the value as known.         *)
OverlongReadsUnknown ==
  \A i \in Current :
    ~Fits(scan.sid, i) =>
      \A t \in Targets(Width[scan.sid]) :
        /\ Holds("=", scan.sid, i, t) <=> HoldsOfUnknown("=", scan.sid, t)
        /\ Holds("!=", scan.sid, i, t) <=> HoldsOfUnknown("!=", scan.sid, t)

(* The code that shows a value and the code that compares one read its     *)
(* bits alike (format.rs fmt_bits, condition.rs condition_match).          *)
ValuesReadAlike == ShownValueMatches /\ KnownValuesAreDecided
=============================================================================
