----------------------------- MODULE FstWindow -----------------------------
(***************************************************************************)
(* The seeking decode of an FST file (backend/fst_window.rs), the backend  *)
(* whose supports_windowed is true.  It answers load_traces_windowed(from, *)
(* to) from a second reader in two passes over the file's data sections,   *)
(* and is held to the full decode of the same file.                        *)
(***************************************************************************)
EXTENDS Integers, Sequences

CONSTANTS
  Sid,        \* signals of the file
  EventSid,   \* those of kind `event`
  Value,      \* recorded values
  Unknown,    \* what a frame holds for a signal that never changed: x
  Files,      \* the files: their changes, cut into data sections
  Requests,   \* [from, to, slots] of a load_traces_windowed call
  Unbounded,  \* `to` = None
  None

Recorded == [tick : Nat, sid : Sid, val : Value]
Section == [start : Nat, first : Nat, last : Nat]
Changes == [tick : Nat, val : Value \cup {Unknown}]

ASSUME NoneAssumption == None \notin Nat \cup Value \cup {Unknown} \cup Changes

(* The changes are in order of tick.  A section opens at `start` and holds *)
(* the changes at positions first..last; sections follow one another.  The *)
(* first section opens with its first change, as real writers make every   *)
(* section do; a later one may open earlier, and then at a tick no change  *)
(* is recorded at (fst_window.rs names the corner this leaves out).        *)
ASSUME FilesAssumption ==
  \A f \in Files :
    /\ f.changes \in Seq(Recorded) /\ f.sections \in Seq(Section)
    /\ \A i, j \in DOMAIN f.changes : i <= j => f.changes[i].tick <= f.changes[j].tick
    /\ \A i \in DOMAIN f.changes : \E k \in DOMAIN f.sections :
         i \in f.sections[k].first .. f.sections[k].last
    /\ \A k \in DOMAIN f.sections :
         /\ f.sections[k].first \in 1 .. f.sections[k].last
         /\ f.sections[k].last \in DOMAIN f.changes
         /\ f.sections[k].start <= f.changes[f.sections[k].first].tick
         /\ \A j \in 1 .. k - 1 :
              /\ f.sections[j].last < f.sections[k].first
              /\ f.changes[f.sections[j].last].tick < f.sections[k].start
    /\ f.sections # << >> => f.sections[1].start = f.changes[1].tick

(* A time argument is never negative (format.rs parse_time).               *)
ASSUME RequestsAssumption ==
  \A r \in Requests :
    r.from \in Nat /\ r.to \in Nat \cup {Unbounded} /\ r.slots \subseteq Sid

VARIABLES
  file,
  ask,      \* the request
  phase,    \* "phase1", "phase2" or "done"
  feed,     \* what read_signals has still to deliver: frame entries, positions
  suspect,  \* suspect_time, or None
  col,      \* the collectors, one per requested signal
  traces    \* what is returned

vars == <<file, ask, phase, feed, suspect, col, traces>>

-----------------------------------------------------------------------------

First(S) == CHOOSE i \in S : \A j \in S : i <= j
LastOf(S) == CHOOSE i \in S : \A j \in S : j <= i

Entry(e) == [tick |-> e.tick, val |-> e.val]

(* The ticks of the primary reader's table.                                *)
time_table == {file.changes[i].tick : i \in DOMAIN file.changes}

file_end == file.changes[Len(file.changes)].tick

(* The full decode of a signal: its changes, a value equal to the previous *)
(* one dropped, events all kept (wellen, vendored).                        *)
Extended(trace, e, s) ==
  IF \/ e.sid # s
     \/ s \notin EventSid /\ trace # << >> /\ trace[Len(trace)].val = e.val
  THEN trace ELSE Append(trace, Entry(e))

Decoded(changes, s) ==
  LET upto[i \in 0 .. Len(changes)] ==
        IF i = 0 THEN << >> ELSE Extended(upto[i - 1], changes[i], s)
  IN  upto

FullDecode(s) == Decoded(file.changes, s)[Len(file.changes)]

(* A section's frame: the values its signals carry into it.                *)
Carried(k, s) ==
  LET before == {i \in 1 .. file.sections[k].first - 1 : file.changes[i].sid = s}
  IN  IF before = {} THEN Unknown ELSE file.changes[LastOf(before)].val

(* read_signals(start, end, include) of fst_reader: the sections that      *)
(* overlap the filter, from their first change on, up to `end`; the frame  *)
(* of the first of them, in any order, if it opens before its first change.*)
Overlap(start, end) ==
  {k \in DOMAIN file.sections :
     /\ end >= file.sections[k].start
     /\ file.changes[file.sections[k].last].tick >= start}

Emissions(start, end, include) ==
  LET overlap == Overlap(start, end)
      head == file.sections[First(overlap)]
  IN  [frame |-> IF overlap # {} /\ file.changes[head.first].tick > head.start
                 THEN {[tick |-> head.start, sid |-> s, val |-> Carried(First(overlap), s)] :
                         s \in include}
                 ELSE {},
       changes |-> {i \in DOMAIN file.changes :
                      /\ file.changes[i].tick <= end /\ file.changes[i].sid \in include
                      /\ \E k \in overlap :
                           i \in file.sections[k].first .. file.sections[k].last}]

-----------------------------------------------------------------------------

Larger(a, b) == IF a > b THEN a ELSE b

p1_start == IF ask.from > file_end THEN file_end ELSE ask.from

p1_end == IF ask.to = Unbounded THEN file_end ELSE Larger(ask.to, p1_start)

EmptyCollector ==
  [seed |-> None, seed_suspect |-> FALSE, win |-> << >>, demoted |-> FALSE, seed2 |-> None]

(* The value an in-window change is compared with, if one is trusted yet.  *)
Baseline(c) ==
  IF c.win # << >> THEN c.win[Len(c.win)].val
  ELSE IF c.seed # None /\ ~c.seed_suspect THEN c.seed.val
  ELSE None

(* Wrong variant: a frame echo inside the window counts as a change.       *)
OnPhase1TrustingFrames(c, e, echo) ==
  LET change == Entry(e)
  IN  IF e.tick <= ask.from
      THEN [c EXCEPT !.seed = change, !.seed_suspect = FALSE]
      ELSE IF \/ ask.to # Unbounded /\ e.tick > ask.to
              \/ e.sid \notin EventSid /\ Baseline(c) = e.val
           THEN c
           ELSE [c EXCEPT !.win = Append(@, change)]

(* Wrong variant: an in-window change is not compared with the last one.   *)
OnPhase1Duplicates(c, e, echo) ==
  LET change == Entry(e)
  IN  IF e.tick <= ask.from
      THEN [c EXCEPT !.seed = change, !.seed_suspect = echo]
      ELSE IF echo \/ (ask.to # Unbounded /\ e.tick > ask.to)
           THEN c
           ELSE [c EXCEPT !.win = Append(@, change)]

(* on_phase1: the seed candidate is overwritten by whatever comes later at *)
(* or before `from`, unlike an in-window change, which has to differ.      *)
OnPhase1(c, e, echo) ==
  LET change == Entry(e)
  IN  IF e.tick <= ask.from
      THEN [c EXCEPT !.seed = change, !.seed_suspect = echo]
      ELSE IF \/ echo
              \/ ask.to # Unbounded /\ e.tick > ask.to
              \/ e.sid \notin EventSid /\ Baseline(c) = e.val
           THEN c
           ELSE [c EXCEPT !.win = Append(@, change)]

NeedsPhase2(c) == c.seed = None \/ c.seed_suspect

Finish(s) ==
  LET c    == col[s]
      seed == IF c.demoted THEN c.seed2 ELSE c.seed
      redundant == /\ c.demoted /\ s \notin EventSid
                   /\ seed # None /\ c.win # << >>
                   /\ Head(c.win).val = seed.val
  IN  (IF seed = None THEN << >> ELSE <<seed>>)
        \o (IF redundant THEN Tail(c.win) ELSE c.win)

-----------------------------------------------------------------------------

NoMore == feed = [frame |-> {}, changes |-> {}]

(* The tick of the first emission.                                         *)
FirstTick ==
  IF feed.frame # {} THEN (CHOOSE e \in feed.frame : TRUE).tick
  ELSE file.changes[First(feed.changes)].tick

(* A file with no recorded change at all gives empty traces at once, and a *)
(* request for no signal none.                                             *)
Init ==
  /\ file \in {f \in Files : f.changes # << >>}
  /\ ask \in Requests
  /\ phase = "phase1"
  /\ feed = Emissions(p1_start, p1_end, ask.slots)
  /\ suspect = IF NoMore \/ FirstTick \in time_table THEN None ELSE FirstTick
  /\ col = [s \in ask.slots |-> EmptyCollector]
  /\ traces = None

(* read_signals calls back with e: the frame first, then the changes.      *)
Deliver(e) ==
  \/ /\ e \in feed.frame
     /\ feed' = [feed EXCEPT !.frame = @ \ {e}]
  \/ /\ feed.frame = {} /\ feed.changes # {}
     /\ e = file.changes[First(feed.changes)]
     /\ feed' = [feed EXCEPT !.changes = @ \ {First(@)}]

Emitted == feed.frame \cup {file.changes[i] : i \in feed.changes}

Emission1 ==
  /\ phase = "phase1"
  /\ \E e \in Emitted :
       /\ Deliver(e)
       /\ col' = [col EXCEPT ![e.sid] = OnPhase1(@, e, e.tick = suspect)]
  /\ UNCHANGED <<file, ask, phase, suspect, traces>>

(* Phase 2 re-reads the head of the file for the signals without a seed.   *)
EnterPhase2 ==
  /\ phase = "phase1"
  /\ NoMore
  /\ LET open == {s \in ask.slots : NeedsPhase2(col[s])}
     IN  /\ col' = [s \in ask.slots |-> [col[s] EXCEPT !.demoted = s \in open]]
         /\ feed' = IF open = {} THEN feed ELSE Emissions(0, p1_start, open)
  /\ phase' = "phase2"
  /\ UNCHANGED <<file, ask, suspect, traces>>

Emission2 ==
  /\ phase = "phase2"
  /\ \E e \in Emitted :
       /\ Deliver(e)
       /\ col' = IF e.tick <= ask.from THEN [col EXCEPT ![e.sid].seed2 = Entry(e)] ELSE col
  /\ UNCHANGED <<file, ask, phase, suspect, traces>>

Assemble ==
  /\ phase = "phase2"
  /\ NoMore
  /\ traces' = [s \in ask.slots |-> Finish(s)]
  /\ phase' = "done"
  /\ UNCHANGED <<file, ask, feed, suspect, col>>

(* The file cannot be re-opened, or a read fails part way: the collectors  *)
(* are dropped and the caller decodes in full (wellen_backend.rs).         *)
Fallback ==
  /\ phase # "done"
  /\ traces' = [s \in ask.slots |-> FullDecode(s)]
  /\ phase' = "done"
  /\ UNCHANGED <<file, ask, feed, suspect, col>>

Next == Emission1 \/ EnterPhase2 \/ Emission2 \/ Assemble \/ Fallback

Spec == Init /\ [][Next]_vars

-----------------------------------------------------------------------------

Collector ==
  [seed : Changes \cup {None}, seed_suspect : BOOLEAN, win : Seq(Changes),
   demoted : BOOLEAN, seed2 : Changes \cup {None}]

TypeOK ==
  /\ file.changes # << >>
  /\ phase \in {"phase1", "phase2", "done"}
  /\ feed.frame \subseteq [tick : Nat, sid : ask.slots, val : Value \cup {Unknown}]
  /\ feed.changes \subseteq {i \in DOMAIN file.changes : file.changes[i].sid \in ask.slots}
  /\ suspect \in Nat \cup {None}
  /\ col \in [ask.slots -> Collector]
  /\ traces # None => traces \in [ask.slots -> Seq(Changes)]

(* A collector stays split at `from`: its seeds lie at or before it, its   *)
(* window strictly inside (from, to], in order, alternating in value but   *)
(* for events, and a seed is taken from phase 2 only where phase 1 left    *)
(* none to trust (fst_window.rs Collector).                                *)
CollectorsAreSplit ==
  \A s \in ask.slots :
    LET c == col[s]
    IN  /\ c.seed # None => c.seed.tick <= ask.from
        /\ c.seed2 # None => c.demoted /\ c.seed2.tick <= ask.from
        /\ c.demoted => NeedsPhase2(c)
        /\ \A i \in DOMAIN c.win :
             /\ ask.from < c.win[i].tick
             /\ ask.to # Unbounded => c.win[i].tick <= ask.to
             /\ c.win[i].tick \in time_table
        /\ \A i \in 1..(Len(c.win) - 1) :
             /\ c.win[i].tick <= c.win[i + 1].tick
             /\ s \notin EventSid => c.win[i].val # c.win[i + 1].val

(* The reader's state has its types and its collectors are split at every  *)
(* emission (fst_window.rs Collector).                                     *)
IInv == TypeOK /\ CollectorsAreSplit

(* The value a trace gives a signal at tick t.                             *)
ValueIn(trace, t) ==
  LET upto == {i \in DOMAIN trace : trace[i].tick <= t}
  IN  IF upto = {} THEN None ELSE trace[LastOf(upto)].val

Upper == IF ask.to = Unbounded THEN Larger(file_end, ask.from) ELSE ask.to

(* At every tick of the window, the windowed traces give each signal the   *)
(* value the full decode gives it: what snapshot, compare and trace show   *)
(* does not depend on the backend seeking (fst_window.rs, backend/mod.rs   *)
(* load_traces_windowed).                                                  *)
SameValues ==
  phase = "done" =>
    \A s \in ask.slots : \A t \in ask.from..Upper :
      ValueIn(traces[s], t) = ValueIn(FullDecode(s), t)

(* The changes of a trace past the window's left edge.                     *)
Inside(trace) ==
  LET within == {i \in DOMAIN trace : ask.from < trace[i].tick /\ trace[i].tick <= Upper}
  IN  IF within = {} THEN << >> ELSE SubSeq(trace, First(within), LastOf(within))

(* Past its left edge, the windowed traces hold the changes of the full    *)
(* decode, no frame echo, no redundant change and no duplicate among them: *)
(* what the streaming dump lists there is what a full scan lists.          *)
SameChangesInside ==
  phase = "done" => \A s \in ask.slots : Inside(traces[s]) = Inside(FullDecode(s))

(* Inside its window the seeking decode is the full one, for the commands  *)
(* that read values and for the dump that lists changes (fst_window.rs,    *)
(* backend/wellen_backend.rs load_traces_windowed).                        *)
SameAsFullDecode == SameValues /\ SameChangesInside

(* "For each signal, its last change at-or-before `from`" (backend/mod.rs),*)
(* the full decode's, with its time: fst_window.rs claims to mirror that   *)
(* decode, duplicate suppression included.                                 *)
SeedIsLastChange ==
  phase = "done" =>
    \A s \in ask.slots :
      LET upto(tr) == {i \in DOMAIN tr : tr[i].tick <= ask.from}
          full == FullDecode(s)
      IN  upto(full) # {} /\ upto(traces[s]) # {} =>
            traces[s][LastOf(upto(traces[s]))] = full[LastOf(upto(full))]
=============================================================================
