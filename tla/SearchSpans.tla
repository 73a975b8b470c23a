---------------------------- MODULE SearchSpans ----------------------------
(***************************************************************************)
(* `search` without changed(): search_interval_collect reports the spans   *)
(* of the window over which the condition holds, split, with --show,       *)
(* wherever the displayed values change.  Without --show the displayed     *)
(* tuple is empty and never changes, so one machine does both modes.       *)
(***************************************************************************)
EXTENDS Clauses

VARIABLES
  stream,     \* the buffered events, ticks 0..t1
  q,          \* the resolved command line
  pos,        \* the loop's position in the stream
  state,      \* values after the last closed group
  ahead,      \* `state` with the pending group applied
  cur_t,      \* tick of the pending group; None: it is empty
  active,     \* a span is open
  seg_start,
  seg_values,
  inited,     \* init_checks_done
  results,
  total,
  truncated,
  pc          \* "loop", "emit" (past the last group), "done"

vars == <<stream, q, pos, state, ahead, cur_t, active, seg_start, seg_values,
          inited, results, total, truncated, pc>>

Holds(s) == any_clause_holds(s, {}, q.clauses)

-----------------------------------------------------------------------------

(* The locals of the collector, before its stream and query are known.     *)
Locals ==
  /\ pos = 1
  /\ state = AllUndef
  /\ ahead = AllUndef
  /\ cur_t = None
  /\ active = FALSE
  /\ seg_start = None
  /\ seg_values = None
  /\ inited = FALSE
  /\ results = << >>
  /\ total = 0
  /\ truncated = FALSE

(* append_result!: the row past the limit is counted, not kept.            *)
AppendResult(row) ==
  /\ total' = total + 1
  /\ IF q.limit # 0 /\ Len(results) >= q.limit
     THEN truncated' = TRUE /\ UNCHANGED results
     ELSE results' = Append(results, row) /\ UNCHANGED truncated

(* Open a span at tick t if the condition holds there.                     *)
Open(s, t) ==
  /\ active' = Holds(s)
  /\ seg_start' = IF Holds(s) THEN t ELSE None
  /\ seg_values' = IF Holds(s) THEN show_values(s, q.show) ELSE None

(* The state s ends the open span: by its level, or by what it shows.      *)
EndsSpan(s) == active /\ (~Holds(s) \/ show_values(s, q.show) # seg_values)

(* The pending group is complete: judge the state it leaves at its tick.   *)
(* A loop that breaks on the limit leaves the span variables as they were; *)
(* nothing reads them after that.                                          *)
CloseGroup ==
  /\ IF EndsSpan(ahead)
     THEN AppendResult([begin |-> seg_start, end |-> cur_t, values |-> seg_values])
     ELSE UNCHANGED <<results, total, truncated>>
  /\ IF active /\ ~EndsSpan(ahead)
     THEN UNCHANGED <<active, seg_start, seg_values>>
     ELSE Open(ahead, cur_t)
  /\ state' = ahead

Event == stream[pos]

Looping == pc = "loop" /\ pos <= Len(stream)

(* Level semantics: a change at t0 itself belongs to the baseline.         *)
InBaseline(tick) == tick <= q.t0

Baseline ==
  /\ Looping
  /\ InBaseline(Event.tick)
  /\ state' = Apply(state, Event)
  /\ ahead' = state'
  /\ pos' = pos + 1
  /\ UNCHANGED <<stream, q, cur_t, active, seg_start, seg_values, inited,
                 results, total, truncated, pc>>

(* The first change past t0: judge the level the window opens with.        *)
FirstPastBegin ==
  /\ Looping
  /\ ~InBaseline(Event.tick)
  /\ ~inited
  /\ Open(state, q.t0)
  /\ inited' = TRUE
  /\ cur_t' = Event.tick
  /\ ahead' = Apply(state, Event)
  /\ pos' = pos + 1
  /\ UNCHANGED <<stream, q, state, results, total, truncated, pc>>

SameTick ==
  /\ Looping
  /\ inited
  /\ Event.tick = cur_t
  /\ ahead' = Apply(ahead, Event)
  /\ pos' = pos + 1
  /\ UNCHANGED <<stream, q, state, cur_t, active, seg_start, seg_values, inited,
                 results, total, truncated, pc>>

NextTick ==
  /\ Looping
  /\ inited
  /\ Event.tick # cur_t
  /\ CloseGroup
  /\ IF truncated'
     THEN pc' = "done" /\ UNCHANGED <<cur_t, ahead, pos>>
     ELSE /\ cur_t' = Event.tick
          /\ ahead' = Apply(ahead, Event)
          /\ pos' = pos + 1
          /\ UNCHANGED pc
  /\ UNCHANGED <<stream, q, inited>>

(* The stream ended with a group pending.                                  *)
LastGroup ==
  /\ pc = "loop"
  /\ pos > Len(stream)
  /\ inited
  /\ CloseGroup
  /\ pc' = "emit"
  /\ UNCHANGED <<stream, q, pos, ahead, cur_t, inited>>

(* Wrong variant: the late check also runs for a zero-length window.       *)
LateInitCheckAlways ==
  /\ pc = "loop"
  /\ pos > Len(stream)
  /\ ~inited
  /\ Open(state, q.t0)
  /\ pc' = "emit"
  /\ UNCHANGED <<stream, q, pos, state, ahead, cur_t, inited, results, total, truncated>>

(* The stream ended without a change past t0: the condition may hold       *)
(* throughout.  A window [T, T) is left without a row.                     *)
LateInitCheck ==
  /\ pc = "loop"
  /\ pos > Len(stream)
  /\ ~inited
  /\ IF q.t0 < q.t1 THEN Open(state, q.t0)
                    ELSE UNCHANGED <<active, seg_start, seg_values>>
  /\ pc' = "emit"
  /\ UNCHANGED <<stream, q, pos, state, ahead, cur_t, inited, results, total, truncated>>

(* A span still open ends with the window.                                 *)
FinalEmit ==
  /\ pc = "emit"
  /\ IF active /\ ~truncated
     THEN AppendResult([begin |-> seg_start, end |-> q.t1, values |-> seg_values])
     ELSE UNCHANGED <<results, total, truncated>>
  /\ pc' = "done"
  /\ UNCHANGED <<stream, q, pos, state, ahead, cur_t, active, seg_start,
                 seg_values, inited>>

Next ==
  \/ Baseline \/ FirstPastBegin \/ SameTick \/ NextTick
  \/ LastGroup \/ LateInitCheck \/ FinalEmit
=============================================================================
