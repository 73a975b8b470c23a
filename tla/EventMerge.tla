----------------------------- MODULE EventMerge -----------------------------
(***************************************************************************)
(* The eager path of `dump` (commands/dump.rs): the traces are resident    *)
(* and Wave::for_each_event (model.rs) replays them through a binary       *)
(* min-heap holding one entry per signal, the signal's next change.  The   *)
(* callback keeps the first `limit` rows and raises the truncation flag at *)
(* the first change it has to turn away.                                   *)
(***************************************************************************)
EXTENDS DumpState

VARIABLE heap  \* the entries of the min-heap

vars == <<trace, query, heap, rows, truncated, pc>>

(* `seed`: a signal with a non-empty trace enters with its first change.   *)
Seeds == {Event(trace, s, 1) : s \in {r \in Sid : trace[r] # << >>}}

(* Wrong variant: the comparison is not reversed, so the latest is popped. *)
EarliestUnreversed(e) == \A f \in heap : ~KeyLess(e, f)

(* HeapEntry's Ord looks at (tick, decl_order) alone and is reversed, so   *)
(* the entry popped is one no other entry's key is below.                  *)
Earliest(e) == \A f \in heap : ~KeyLess(f, e)

(* Wrong variant: the loop bound loses the last change of a trace.         *)
SuccessorShort(e) ==
  IF e.pos + 1 < Len(trace[e.sid]) THEN {Event(trace, e.sid, e.pos + 1)}
                                   ELSE {}

(* The popped entry's successor, if its trace goes on.                     *)
Successor(e) ==
  IF e.pos + 1 <= Len(trace[e.sid]) THEN {Event(trace, e.sid, e.pos + 1)}
                                    ELSE {}

(* Wrong variant: the flag goes up with the row that fills the list.       *)
RowEagerFlag(e) ==
  IF ~truncated /\ (query.limit = 0 \/ Len(rows) < query.limit)
  THEN /\ rows' = Append(rows, e)
       /\ truncated' = (query.limit # 0 /\ Len(rows) + 1 = query.limit)
  ELSE truncated' = TRUE /\ UNCHANGED rows

(* dump's callback on an event the replay emits.                           *)
Row(e) ==
  IF ~truncated /\ (query.limit = 0 \/ Len(rows) < query.limit)
  THEN rows' = Append(rows, e) /\ UNCHANGED truncated
  ELSE truncated' = TRUE /\ UNCHANGED rows

-----------------------------------------------------------------------------

Init ==
  /\ trace \in [Sid -> Traces]
  /\ query \in Queries
  /\ heap = Seeds
  /\ rows = << >>
  /\ truncated = FALSE
  /\ pc = "replay"

(* Pop, emit if the change is not before t0, push the signal's next.       *)
Replay ==
  /\ pc = "replay"
  /\ \E e \in heap :
       /\ Earliest(e)
       /\ WithinUpper(e.tick, query)
       /\ heap' = (heap \ {e}) \cup Successor(e)
       /\ IF query.t0 <= e.tick THEN Row(e) ELSE UNCHANGED <<rows, truncated>>
  /\ UNCHANGED <<trace, query, pc>>

(* Wrong variant: the loop looks at the entry past t1 and does not leave.  *)
PassUpperBoundStays ==
  /\ pc = "replay"
  /\ \E e \in heap : Earliest(e) /\ ~WithinUpper(e.tick, query)
  /\ UNCHANGED vars

(* The entry popped is past t1: everything left is, so the loop breaks.    *)
PassUpperBound ==
  /\ pc = "replay"
  /\ \E e \in heap :
       /\ Earliest(e)
       /\ ~WithinUpper(e.tick, query)
       /\ heap' = heap \ {e}
  /\ pc' = "done"
  /\ UNCHANGED <<trace, query, rows, truncated>>

(* The heap ran empty.                                                     *)
Exhaust ==
  /\ pc = "replay"
  /\ heap = {}
  /\ pc' = "done"
  /\ UNCHANGED <<trace, query, heap, rows, truncated>>

Next == Replay \/ PassUpperBound \/ Exhaust

Spec == Init /\ [][Next]_vars

(* A single thread runs the loop: it takes its next step.                  *)
FairSpec == Spec /\ WF_vars(Next)

-----------------------------------------------------------------------------

TypeOK ==
  /\ trace \in [Sid -> Traces]
  /\ query \in Queries
  /\ heap \subseteq UNION {EventsOf(trace, s) : s \in Sid}
  /\ rows \in Seq(EventRecord)
  /\ truncated \in BOOLEAN
  /\ pc \in {"replay", "done"}

(* Still to come: at or after the cursor the heap holds for the signal.    *)
Pending(e) == \E h \in heap : h.sid = e.sid /\ h.pos <= e.pos

OneEntryPerSignal == \A g, h \in heap : g.sid = h.sid => g = h

(* Every row precedes every change the heap has still to deliver.          *)
RowsBeforeHeap == \A r \in RowSet(rows), h \in heap : Precedes(r, h)

(* A change of the window is still to come, or listed, or was turned away  *)
(* after the list was full and then comes after every row.                 *)
TurnedAwayIsLater ==
  \A e \in WindowEvents(trace, query) :
    \/ Pending(e)
    \/ e \in RowSet(rows)
    \/ truncated /\ \A r \in RowSet(rows) : Precedes(r, e)

(* The flag is raised by a change that found the list full.                *)
FlagMeansCut ==
  truncated => /\ query.limit # 0
               /\ Len(rows) = query.limit
               /\ \E e \in WindowEvents(trace, query) : e \notin RowSet(rows) /\ ~Pending(e)

(* The strengthening that is inductive.                                    *)
IInv ==
  /\ TypeOK
  /\ OneEntryPerSignal
  /\ RowsInOrder(rows)
  /\ RowSet(rows) \subseteq WindowEvents(trace, query)
  /\ RowsBeforeHeap
  /\ TurnedAwayIsLater
  /\ FlagMeansCut
  /\ query.limit # 0 => Len(rows) <= query.limit
  /\ pc = "done" => \A h \in heap : ~WithinUpper(h.tick, query)

(* When the replay returns, dump's rows are the earliest changes of the    *)
(* window in (tick, declaration) order, cut only by --limit and flagged    *)
(* truncated exactly when cut (commands/dump.rs, model.rs for_each_event). *)
AnswerIsRight == pc = "done" => IsAnswer(trace, query, rows, truncated)

(* The same, as an implementation of the one-step promise.                 *)
Promise == INSTANCE DumpAnswer WITH
  rows <- IF pc = "done" THEN rows ELSE << >>,
  truncated <- IF pc = "done" THEN truncated ELSE FALSE,
  answered <- pc = "done"

ImplementsDumpAnswer == Promise!Spec

(* The replay returns, also with --limit reached, on every trace.          *)
ReplayEnds == <>(pc = "done")
=============================================================================
