------------------------------- MODULE Search -------------------------------
(***************************************************************************)
(* The `search` command (commands/search.rs): search_setup resolves the    *)
(* names and terms of the command line, refuses what it cannot answer and  *)
(* picks the mode; then one of the two collectors walks the changes of the *)
(* signals the setup loaded.                                               *)
(*                                                                         *)
(* A typed term is `NAME op VALUE` or changed(NAME).  What a name finds is *)
(* the business of Listing, what a value matches that of Values; here they *)
(* are the functions Found and Accepts.                                    *)
(***************************************************************************)
EXTENDS Clauses

CONSTANTS
  EventSid,   \* signals of kind `event`
  LogicSid,   \* signals of kind `bits`
  Found,      \* name -> the signals resolve_one_signal has to choose among
  Accepts,    \* comparison as written, "op value" -> the values it accepts
  Masks,      \* those of them with a don't-care digit
  Files,      \* the changes a file may hold, in order of delivery
  Lines       \* command lines: condition, show, begin, end, limit

Term == [name : DOMAIN Found, changed : BOOLEAN, text : DOMAIN Accepts]

ASSUME SearchAssumption ==
  /\ Undef \notin Value /\ None \notin Nat
  /\ EventSid \subseteq Sid /\ LogicSid \subseteq Sid \ EventSid
  /\ \A name \in DOMAIN Found : Found[name] \subseteq Sid
  /\ \A text \in DOMAIN Accepts : Accepts[text] \subseteq Value
  /\ \A file \in Files : file \in Seq(Change) /\ ByTick(file)
  /\ \A l \in Lines :
       /\ l.condition \in Seq(Seq(Term))
       /\ l.show \subseteq DOMAIN Found
       /\ l.begin \in Nat /\ l.end \in Nat \cup {None} /\ l.limit \in Nat

VARIABLES
  file,       \* what the file holds
  line,       \* the command line as typed
  stream, q, pos, state, cur_t, results, total, truncated, pc,
  group,                                                \* event mode
  ahead, active, seg_start, seg_values, inited          \* interval mode

vars == <<file, line, stream, q, pos, state, cur_t, results, total, truncated,
          pc, group, ahead, active, seg_start, seg_values, inited>>

Spans == INSTANCE SearchSpans
Edges == INSTANCE SearchEvents WITH events <- results

-----------------------------------------------------------------------------

(* search_end_time: the file's last tick unless --end is given.            *)
search_end_time ==
  IF line.end # None THEN line.end
  ELSE IF file = << >> THEN None ELSE file[Len(file)].tick

Unique(name) == Cardinality(Found[name]) = 1

SidOf(name) == CHOOSE s \in Found[name] : TRUE

(* Two terms are one when they resolve to one signal and are written alike.*)
term_key(t) == <<SidOf(t.name), t.changed, IF t.changed THEN "" ELSE t.text>>

Resolves(t) ==
  /\ Unique(t.name)
  /\ ~t.changed /\ t.text \in Masks => SidOf(t.name) \in LogicSid

Resolved(t) ==
  [sid |-> SidOf(t.name), changed |-> t.changed,
   accept |-> IF t.changed THEN {} ELSE Accepts[t.text]]

(* resolve_conditions: the terms of one clause, the first of equal ones.   *)
resolve_conditions(clause) ==
  {Resolved(clause[i]) : i \in {j \in DOMAIN clause :
     \A k \in 1 .. j - 1 : term_key(clause[k]) # term_key(clause[j])}}

clause_key(clause) == {term_key(clause[i]) : i \in DOMAIN clause}

(* The clauses of the line, the first of equal ones.                       *)
clauses ==
  {resolve_conditions(line.condition[i]) : i \in {j \in DOMAIN line.condition :
     \A k \in 1 .. j - 1 : clause_key(line.condition[k]) # clause_key(line.condition[j])}}

HasChanged(clause) == \E term \in clause : term.changed

changed_sids == {term.sid : term \in {u \in UNION clauses : u.changed}}

(* resolve_show_sids; event mode watches the changed() signals by default. *)
show_sids ==
  IF line.show = {} THEN changed_sids ELSE UNION {Found[name] : name \in line.show}

Terms == UNION {{cl[i] : i \in DOMAIN cl} : cl \in
                  {line.condition[j] : j \in DOMAIN line.condition}}

(* What search_setup lets through; the rest it refuses with a message: no  *)
(* end, a window that ends before it begins, no condition, a name that is  *)
(* not one signal, a mask on a real or an event, changed() clauses beside  *)
(* level clauses, a --show pattern that finds nothing.                     *)
Answerable ==
  /\ search_end_time # None
  /\ line.begin <= search_end_time
  /\ line.condition # << >>
  /\ \A t \in Terms : Resolves(t)
  /\ \/ \A cl \in clauses : HasChanged(cl)
     \/ \A cl \in clauses : ~HasChanged(cl)
  /\ \A name \in line.show : Found[name] # {}

(* The signals to load: those of every term, and the shown ones.           *)
selected == {term.sid : term \in UNION clauses} \cup show_sids

Init ==
  /\ file \in Files
  /\ line \in Lines
  /\ stream = << >>
  /\ q = None
  /\ group = << >>
  /\ pc = "setup"
  /\ Spans!Locals

Locals == <<pos, state, cur_t, results, total, truncated, group, ahead, active,
            seg_start, seg_values, inited>>

Refuse ==
  /\ pc = "setup"
  /\ ~Answerable
  /\ pc' = "refused"
  /\ UNCHANGED <<file, line, stream, q, Locals>>

(* What for_each_event(0, t1) delivers of the loaded signals.              *)
Buffered(t1, sids) ==
  LET upto[i \in 0 .. Len(file)] ==
        IF i = 0 THEN << >>
        ELSE IF file[i].tick <= t1 /\ file[i].sid \in sids THEN Append(upto[i - 1], file[i])
        ELSE upto[i - 1]
  IN  upto[Len(file)]

(* search_setup, and the buffering of the changes by the mode.             *)
Setup ==
  /\ pc = "setup"
  /\ Answerable
  /\ q' = [clauses |-> clauses, show |-> show_sids, t0 |-> line.begin,
           t1 |-> search_end_time, limit |-> line.limit,
           events |-> changed_sids # {}]
  /\ stream' = Buffered(q'.t1, selected)
  /\ pc' = "loop"
  /\ UNCHANGED <<file, line, Locals>>

(* compute_search: changed() terms make it an event search.                *)
EventMode == q # None /\ q.events

LevelMode == q # None /\ ~q.events

search_event_collect ==
  /\ EventMode
  /\ Edges!Next
  /\ UNCHANGED <<file, line, ahead, active, seg_start, seg_values, inited>>

search_interval_collect ==
  /\ LevelMode
  /\ Spans!Next
  /\ UNCHANGED <<file, line, group>>

Next == Refuse \/ Setup \/ search_event_collect \/ search_interval_collect

Spec == Init /\ [][Next]_vars

-----------------------------------------------------------------------------

(* What the line means, in the words it was typed in.                      *)
Meant(values, changed) ==
  \E i \in DOMAIN line.condition :
    \A t \in {line.condition[i][j] : j \in DOMAIN line.condition[i]} :
      IF t.changed THEN SidOf(t.name) \in changed
                   ELSE values[SidOf(t.name)] \in Accepts[t.text]

Shown ==
  (UNION {Found[name] : name \in line.show})
  \cup IF line.show = {} /\ EventMode
       THEN {SidOf(t.name) : t \in {u \in Terms : u.changed}} ELSE {}

At(t) == StateAt(file, t)

ShownAt(t) == show_values(At(t), Shown)

(* The condition holds, showing the same values, at both ticks.            *)
Alike(a, b) == Meant(At(a), {}) /\ Meant(At(b), {}) /\ ShownAt(a) = ShownAt(b)

(* The runs of the window: [first, last] over which the condition holds    *)
(* with the shown values unchanged, and not one tick longer.               *)
IsRun(first, last) ==
  /\ \A t \in first..last : Alike(first, t)
  /\ first > q.t0 => ~Alike(first - 1, first)
  /\ last < q.t1 => ~Alike(last, last + 1)

(* The row of a run ends at the tick the run does not reach; t1 cuts it.   *)
RowOf(first, last) ==
  [begin |-> first, end |-> IF last < q.t1 THEN last + 1 ELSE q.t1,
   values |-> ShownAt(first)]

RunRows ==
  IF q.t0 = q.t1 THEN {}
  ELSE {RowOf(w[1], w[2]) :
          w \in {v \in (q.t0..q.t1) \X (q.t0..q.t1) : v[1] <= v[2] /\ IsRun(v[1], v[2])}}

Listed == {results[i] : i \in DOMAIN results}

(* --limit keeps the earliest rows, says so, and counts one row more.      *)
CutRight(all, start(_)) ==
  /\ Listed \subseteq all
  /\ \A i, j \in DOMAIN results : i < j => start(results[i]) < start(results[j])
  /\ \A r \in all \ Listed : \A x \in Listed : start(x) < start(r)
  /\ truncated <=> Listed # all
  /\ truncated => q.limit # 0 /\ Len(results) = q.limit
  /\ total = Len(results) + (IF truncated THEN 1 ELSE 0)

(* The rows are the runs of the window over which the typed condition      *)
(* holds, in order of time, the earliest ones if --limit cuts the list     *)
(* (commands/search.rs search_setup, search_interval_collect).             *)
RowsAreRuns == LevelMode /\ pc = "done" => CutRight(RunRows, LAMBDA r : r.begin)

(* A signal transitions at tick t: a defined value is followed by another  *)
(* within the tick, or an event is recorded after the file's first tick.   *)
Transitions(s, t) ==
  LET before == IF t = 0 THEN Undef ELSE ValueAt(file, s, t - 1)
  IN  \E i \in DOMAIN file :
        /\ file[i].sid = s /\ file[i].tick = t
        /\ \/ s \in EventSid /\ t # 0
           \/ before # Undef /\ file[i].val # before

FiredRows ==
  {[tick |-> t, values |-> ShownAt(t)] : t \in
     {u \in q.t0..q.t1 : Meant(At(u), {s \in Sid : Transitions(s, u)})}}

(* The rows are the ticks of the window at which the typed clauses fire,   *)
(* earliest first, each with the values it leaves, cut only by --limit.  A *)
(* window of one tick lists a firing at that tick: event mode takes both   *)
(* of its ends in (commands/search.rs search_setup, search_event_collect). *)
RowsAreFirings == EventMode /\ pc = "done" => CutRight(FiredRows, LAMBDA r : r.tick)

(* "A zero-width `search` window (`--begin T --end T`) yields no rows"     *)
(* (skill/SKILL.md), in either mode.  It does not hold: interval mode      *)
(* suppresses the empty interval, event mode lists a firing at T.          *)
ZeroWidthIsEmpty == pc = "done" /\ q.t0 = q.t1 => results = << >>
=============================================================================
