------------------------------- MODULE Events -------------------------------
(***************************************************************************)
(* The value changes of a loaded waveform and the order `dump` lists them  *)
(* in (crates/rwave/src/model.rs).                                         *)
(*                                                                         *)
(* A decoded SignalTrace is a pair of vectors, times and values.  Nothing  *)
(* in the replay looks at a value, so a trace is here the sequence of its  *)
(* ticks and a change is named by its signal and its position: the value   *)
(* is whatever the trace holds there.                                      *)
(***************************************************************************)
EXTENDS Integers, Sequences, FiniteSets

CONSTANTS
  Sid,        \* the selected signals
  DeclOrder,  \* DeclOrder[s]: declaration order of signal s in the file
  Traces,     \* the tick sequences a decoder may deliver
  Queries,    \* the [t0, t1, limit] a command line may ask for
  Unbounded   \* the upper bound `None`

NonDecreasing(tr) == \A i, j \in DOMAIN tr : i <= j => tr[i] <= tr[j]

(* build_signal_table keeps one entry per backend handle, so the earliest  *)
(* declaration indices of two signals differ.                              *)
ASSUME SidAssumption ==
  /\ IsFiniteSet(Sid)
  /\ \A s \in Sid : DeclOrder[s] \in Nat
  /\ \A s, r \in Sid : DeclOrder[s] = DeclOrder[r] => s = r

ASSUME TracesAssumption ==
  \A tr \in Traces : tr \in Seq(Int) /\ NonDecreasing(tr)

ASSUME QueriesAssumption ==
  \A q \in Queries : /\ q.t0 \in Int
                     /\ q.limit \in Nat
                     /\ q.t1 # Unbounded => q.t1 \in Int

-----------------------------------------------------------------------------

(* The change at position pos of signal s.                                 *)
Event(trace, s, pos) ==
  [tick |-> trace[s][pos], decl |-> DeclOrder[s], sid |-> s, pos |-> pos]

EventsOf(trace, s) == {Event(trace, s, p) : p \in DOMAIN trace[s]}

EventRecord == [tick : Int, decl : Nat, sid : Sid, pos : Nat \ {0}]

(* event_less: ascending on (tick, declaration order).                     *)
KeyLess(a, b) ==
  \/ a.tick < b.tick
  \/ a.tick = b.tick /\ a.decl < b.decl

KeyEqual(a, b) == a.tick = b.tick /\ a.decl = b.decl

(* The order of the rows: by key, and the changes a signal makes within    *)
(* one tick in the order the file has them.                                *)
Precedes(a, b) == KeyLess(a, b) \/ (KeyEqual(a, b) /\ a.pos < b.pos)

WithinUpper(tick, q) == q.t1 # Unbounded => tick <= q.t1

InWindow(tick, q) == q.t0 <= tick /\ WithinUpper(tick, q)

WindowEvents(trace, q) ==
  {e \in UNION {EventsOf(trace, s) : s \in Sid} : InWindow(e.tick, q)}

RowSet(rows) == {rows[i] : i \in DOMAIN rows}

RowsInOrder(rows) ==
  \A i, j \in DOMAIN rows : i < j => Precedes(rows[i], rows[j])

(***************************************************************************)
(* What `dump` owes its caller: the earliest changes of the window, in     *)
(* order, all of them unless --limit cuts the list, and the truncation     *)
(* flag exactly when something was cut.                                    *)
(***************************************************************************)
IsAnswer(trace, q, rows, truncated) ==
  /\ RowsInOrder(rows)
  /\ RowSet(rows) \subseteq WindowEvents(trace, q)
  /\ \A e \in WindowEvents(trace, q) \ RowSet(rows) :
       \A r \in RowSet(rows) : Precedes(r, e)
  /\ truncated <=> RowSet(rows) # WindowEvents(trace, q)
  /\ q.limit # 0 => Len(rows) <= q.limit
  /\ truncated => q.limit # 0 /\ Len(rows) = q.limit
=============================================================================
