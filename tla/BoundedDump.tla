---------------------------- MODULE BoundedDump ----------------------------
(***************************************************************************)
(* The streaming path of `dump`: Wave::collect_events_bounded (model.rs),  *)
(* taken when the selection is above STREAMING_SIGNAL_THRESHOLD.  Signals  *)
(* are decoded batch by batch, for the window alone where the backend can  *)
(* seek, and only the `limit` smallest changes seen so far are retained,   *)
(* in a max-heap ordered by (tick, declaration order).                     *)
(***************************************************************************)
EXTENDS DumpState

CONSTANTS
  Visits,   \* the orders the selection may be visited in: path order, which
            \* is unrelated to declaration order
  Seeking   \* the answers supports_windowed may give

(* The visit list is the selection, path-sorted: every selected signal     *)
(* once.  The streaming path is taken above a threshold, so there is one.  *)
ASSUME VisitsAssumption ==
  \A v \in Visits : /\ v \in Seq(Sid) /\ v # << >>
                    /\ RowSet(v) = Sid
                    /\ \A i, j \in DOMAIN v : v[i] = v[j] => i = j

ASSUME SeekingAssumption == Seeking \subseteq BOOLEAN

VARIABLES
  windowed,   \* whether the backend seeks (supports_windowed)
  told,       \* the trace of each signal, stamped as the decode stamps it
  todo,       \* signals not yet visited, in visiting order
  cursor,     \* position of the next change of Head(todo) to look at, or 0
  keep,       \* the bounded max-heap
  all,        \* the retained changes when there is no limit
  total       \* in-range changes scanned

scanvars == <<trace, query, windowed, told, todo, cursor, keep, all, total,
          rows, truncated, pc>>

-----------------------------------------------------------------------------

(* The change that tells the value entering the window: the last one at or *)
(* before t0.                                                              *)
Seed(tr) ==
  {p \in DOMAIN tr : /\ tr[p] <= query.t0
                     /\ \A r \in DOMAIN tr : r > p => ~(tr[r] <= query.t0)}

(* The other tick a windowed decode may stamp its seed p with.  An earlier *)
(* one lands on t0 where the file repeats the value there (FST: a record   *)
(* equal to the one before, fst_window.rs on_phase1; FSDB: changes within  *)
(* the tick that come back to it, fsdb/backend.rs).  A WLF scan stamps a   *)
(* signal first logged at t0 as carried in, one tick before it             *)
(* (wlf/backend.rs seed_tag_for).                                          *)
Restamped(tr, p) ==
  IF tr[p] < query.t0 THEN {query.t0}
  ELSE IF p = 1 /\ query.t0 > 0 THEN {query.t0 - 1} ELSE {}

(* The traces a decode may deliver for the history tr.                     *)
Decodes(tr) ==
  {tr} \cup UNION {{[tr EXCEPT ![p] = t] : t \in Restamped(tr, p)} :
                   p \in IF windowed THEN Seed(tr) ELSE {}}

(* Wrong variant: the seek loses the change that lands on t1.              *)
DeliveredShort(s) ==
  {p \in DOMAIN told[s] : query.t1 # Unbounded => told[s][p] < query.t1}

(* The changes of one decode, as positions of the trace.  A windowed       *)
(* decode keeps the last change at or before t0 and those in (t0, t1]      *)
(* (WaveformBackend::load_traces_windowed, backend/mod.rs).                *)
Delivered(s) ==
  IF windowed
  THEN {p \in DOMAIN told[s] :
          /\ WithinUpper(told[s][p], query)
          /\ \A r \in DOMAIN told[s] :
               r > p => ~(told[s][r] <= query.t0)}
  ELSE DOMAIN told[s]

(* lo..hi of the scan: lower_bound(t0) up to upper_bound(t1) in the decode.*)
InRange(s) == {p \in Delivered(s) : InWindow(told[s][p], query)}

(* The root of the max-heap: an entry no other entry's key is above.  With *)
(* equal keys, which of them is the root depends on the heap's array; of   *)
(* two, pushed in turn, it is the first.                                   *)
IsTop(e) == e \in keep /\ \A f \in keep : ~KeyLess(e, f)

(* One in-range change against the retained ones.                          *)
Retain(e) ==
  IF query.limit = 0
  THEN all' = Append(all, e) /\ UNCHANGED keep
  ELSE /\ UNCHANGED all
       /\ IF Cardinality(keep) < query.limit
          THEN keep' = keep \cup {e}
          ELSE \E top \in keep :
                 /\ IsTop(top)
                 /\ keep' = IF KeyLess(e, top) THEN (keep \ {top}) \cup {e}
                                               ELSE keep

(* sort_by on (tick, decl_order): the heap gives equal keys out in no      *)
(* particular order, and the sort leaves them as they come.                *)
SortedByKey(S) ==
  {r \in [1..Cardinality(S) -> S] :
     /\ RowSet(r) = S
     /\ \A i, j \in DOMAIN r : i < j => ~KeyLess(r[j], r[i])}

(* The unlimited list was collected signal by signal in trace order, and   *)
(* the sort is stable: equal keys stay as the list has them.               *)
SortsBefore(list, i, j) ==
  \/ KeyLess(list[i], list[j])
  \/ KeyEqual(list[i], list[j]) /\ i < j

StablySorted(list) ==
  [n \in DOMAIN list |->
     list[CHOOSE j \in DOMAIN list :
            Cardinality({i \in DOMAIN list : SortsBefore(list, i, j)}) = n - 1]]

FirstPosition(s) ==
  IF InRange(s) = {} THEN 0
  ELSE CHOOSE p \in InRange(s) : \A r \in InRange(s) : p <= r

-----------------------------------------------------------------------------

ScanInit ==
  /\ trace \in [Sid -> Traces]
  /\ query \in Queries
  /\ windowed \in Seeking
  /\ told \in {d \in [Sid -> UNION {Decodes(trace[s]) : s \in Sid}] :
                 \A s \in Sid : d[s] \in Decodes(trace[s])}
  /\ todo \in Visits
  /\ cursor = FirstPosition(Head(todo))
  /\ keep = {}
  /\ all = << >>
  /\ total = 0
  /\ rows = << >>
  /\ truncated = FALSE
  /\ pc = "scan"

(* The closure's loop body, for the next in-range change of the signal.    *)
Scan ==
  /\ pc = "scan"
  /\ todo # << >>
  /\ cursor # 0
  /\ LET s == Head(todo)
         later == {p \in InRange(s) : p > cursor}
     IN  /\ total' = total + 1
         /\ Retain(Event(told, s, cursor))
         /\ cursor' = IF later = {} THEN 0
                      ELSE CHOOSE p \in later : \A r \in later : p <= r
  /\ UNCHANGED <<trace, query, windowed, told, todo, rows, truncated, pc>>

(* The closure is called for the next signal of the batch.                 *)
NextSignal ==
  /\ pc = "scan"
  /\ todo # << >>
  /\ cursor = 0
  /\ todo' = Tail(todo)
  /\ cursor' = IF Tail(todo) = << >> THEN 0 ELSE FirstPosition(Head(Tail(todo)))
  /\ UNCHANGED <<trace, query, windowed, told, keep, all, total, rows, truncated, pc>>

(* All signals seen: sort and return.                                      *)
Finish ==
  /\ pc = "scan"
  /\ todo = << >>
  /\ IF query.limit = 0 THEN rows' = StablySorted(all)
                         ELSE rows' \in SortedByKey(keep)
  /\ truncated' = (query.limit # 0 /\ total > query.limit)
  /\ pc' = "done"
  /\ UNCHANGED <<trace, query, windowed, told, todo, cursor, keep, all, total>>

ScanNext == Scan \/ NextSignal \/ Finish

ScanSpec == ScanInit /\ [][ScanNext]_scanvars

-----------------------------------------------------------------------------

ScanTypeOK ==
  /\ trace \in [Sid -> Traces]
  /\ query \in Queries
  /\ windowed \in BOOLEAN
  /\ told \in [Sid -> Seq(Int)]
  /\ todo \in Seq(Sid)
  /\ cursor \in Nat
  /\ keep \subseteq EventRecord
  /\ all \in Seq(EventRecord)
  /\ total \in Nat
  /\ rows \in Seq(EventRecord)
  /\ truncated \in BOOLEAN
  /\ pc \in {"scan", "done"}

(* The in-range changes already looked at.                                 *)
Scanned ==
  {e \in WindowEvents(told, query) :
     /\ e.pos \in InRange(e.sid)
     /\ \/ e.sid \notin RowSet(todo)
        \/ todo # << >> /\ e.sid = Head(todo) /\ (cursor = 0 \/ e.pos < cursor)}

(* Memory: with a limit, the heap never holds more than `limit` changes,   *)
(* and what it has let go is never earlier, by key, than what it holds     *)
(* (model.rs collect_events_bounded).                                      *)
HeapHoldsEarliest ==
  query.limit # 0 =>
    /\ keep \subseteq Scanned
    /\ Cardinality(keep) = IF total < query.limit THEN total ELSE query.limit
    /\ \A k \in keep, e \in Scanned \ keep : ~KeyLess(e, k)

(* The changes of a set in the order of the rows.                          *)
InOrder(S) ==
  [n \in 1..Cardinality(S) |->
     CHOOSE e \in S : Cardinality({f \in S : Precedes(f, e)}) = n - 1]

NoTies == \A s \in Sid : \A i, j \in DOMAIN trace[s] : i < j => trace[s][i] < trace[s][j]

(* The streaming path lists the changes the eager path lists: "both        *)
(* produce the same ordered rows" (commands/dump.rs dump_collect).  The    *)
(* rows are put in file order first: only which changes were kept is       *)
(* compared.                                                               *)
SameChangesAsEager ==
  pc = "done" => IsAnswer(trace, query, InOrder(RowSet(rows)), truncated)

(* The same of a decode that stamps every change as the file does: a seek  *)
(* keeps the last of several changes at t0, and the eager path lists all.  *)
SameChangesWhenSeeking == told = trace => SameChangesAsEager

(* Where no signal changes twice within one tick, the streaming path       *)
(* returns what the eager path would return of the same decode: the same   *)
(* rows, in the same order, cut by the limit at the same place.            *)
SameRowsWithoutTies ==
  NoTies /\ pc = "done" => IsAnswer(told, query, rows, truncated)

(* Against the eager path, which decodes whole histories, the rows differ  *)
(* at the left edge of a windowed decode at most.  A row the eager path    *)
(* does not list repeats at t0 the value the signal has there since        *)
(* before; one that is missing is a signal's first change, at t0, or was   *)
(* cut by the limit, behind every row listed.                              *)
DiffersAtEdgeOnly ==
  NoTies /\ pc = "done" =>
    LET eager == WindowEvents(trace, query)
        shown == RowSet(rows)
    IN  /\ \A e \in shown \ eager :
             /\ windowed /\ e.tick = query.t0
             /\ e.pos \in Seed(trace[e.sid]) /\ trace[e.sid][e.pos] < query.t0
        /\ \A e \in eager \ shown :
             \/ windowed /\ e.tick = query.t0 /\ e.pos = 1
             \/ truncated /\ \A r \in shown : Precedes(r, e)

(* The comment of dump_collect at its word: without ties, the rows of the  *)
(* streaming path are the eager path's on every backend.  It does not      *)
(* hold: windowed decodes restamp their seeds.                             *)
SameRowsOnEveryBackend ==
  NoTies /\ pc = "done" => IsAnswer(trace, query, rows, truncated)

(* On a backend that decodes whole histories, ties or not, the streaming   *)
(* path lists the ticks and signals the eager path lists, in that order,   *)
(* and raises the truncation flag exactly when it does.                    *)
SameTicksAsEager ==
  pc = "done" /\ ~windowed =>
    LET eager == InOrder(WindowEvents(trace, query))
        shown == IF query.limit = 0 THEN Len(eager)
                 ELSE IF Len(eager) < query.limit THEN Len(eager) ELSE query.limit
    IN  /\ Len(rows) = shown
        /\ \A i \in 1..shown : KeyEqual(rows[i], eager[i])
        /\ truncated <=> shown # Len(eager)

(* The scan keeps the earliest changes seen, and what it returns is what   *)
(* the eager path returns: the same rows where no signal changes twice in  *)
(* a tick, but for the left edge of a windowed decode, and the same ticks  *)
(* and signals where one does and the backend decodes whole histories      *)
(* (model.rs collect_events_bounded).                                      *)
StreamsAsEager ==
  /\ ScanTypeOK
  /\ HeapHoldsEarliest
  /\ SameRowsWithoutTies
  /\ DiffersAtEdgeOnly
  /\ SameTicksAsEager
=============================================================================
