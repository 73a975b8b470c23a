---------------------------- MODULE PluginDecode ----------------------------
(***************************************************************************)
(* The decode of a file through a built-in vendor backend: the host side   *)
(* (backend/plugin_backend.rs run_trace_decode, emit_trampoline,           *)
(* fold_change) and the two bridges that feed it, a libwlf scan            *)
(* (plugin/builtin/wlf/backend.rs) and an NPI cursor per signal            *)
(* (plugin/builtin/fsdb/backend.rs).                                       *)
(*                                                                         *)
(* A file holds for each signal its records in order.  A tick may hold     *)
(* several: libwlf delivers a wide vector word by word, NPI reports        *)
(* same-tick glitches.                                                     *)
(***************************************************************************)
EXTENDS Integers, Sequences, FiniteSets, SequencesExt

CONSTANTS
  Sid,        \* signals of the file
  EventSid,   \* those of kind `event`
  Value,
  Files,      \* [end, recs]: the file's end tick, the records of each signal
  Requests,   \* [from, to, sids]; a full decode has from = None
  Unbounded,  \* INT64_MAX, "to the end"
  None

Record == [tick : Nat, val : Value]

ByTick(recs) == \A i, j \in DOMAIN recs : i <= j => recs[i].tick <= recs[j].tick

ASSUME NoneAssumption == None \notin Sid /\ None \notin Value

ASSUME FilesAssumption ==
  \A f \in Files :
    /\ f.end \in Nat
    /\ \A s \in Sid : /\ f.recs[s] \in Seq(Record) /\ ByTick(f.recs[s])
                      /\ \A i \in DOMAIN f.recs[s] : f.recs[s][i].tick <= f.end

(* A request asks for a signal once; an inverted window is let through.    *)
ASSUME RequestsAssumption ==
  \A r \in Requests :
    /\ r.from \in Int \cup {None} /\ r.to \in Int \cup {Unbounded}
    /\ r.sids \in Seq(Sid)
    /\ \A i, j \in DOMAIN r.sids : r.sids[i] = r.sids[j] => i = j

VARIABLES
  file,
  vendor,     \* "wlf" or "fsdb"
  ask,        \* the request
  pc,         \* wlf: create, register, scan, values, pack, boxes; fsdb: stream;
              \* then done
  todo,       \* signals still to register or to stream
  pos,        \* how many records of each signal the library has gone past
  cur_time,   \* SharedScanCtx
  have_time,
  pack,       \* the WlfPackId is live
  kept,       \* signals whose callback data libwlf holds (sig_datas)
  values,     \* signals whose WlfValueId is live
  boxes,      \* signals whose PerSignalScanData is live
  vct,        \* the signal whose NPI cursor is open, or None
  traces,     \* EmitCtx::output
  rc          \* what the backend returns

wlf == <<cur_time, have_time, pack, kept, values, boxes>>
vars == <<file, vendor, ask, pc, todo, pos, wlf, vct, traces, rc>>

-----------------------------------------------------------------------------

(* The host: one emitted change into a signal's trace.                     *)
Entry(tick, val) == [tick |-> tick, val |-> val]

(* Wrong variant: the write that undoes a glitch stays in the trace.       *)
fold_change_keeps_glitch(trace, s, tick, val) ==
  IF s \in EventSid \/ trace = << >> THEN Append(trace, Entry(tick, val))
  ELSE IF Last(trace).tick = tick THEN Append(Front(trace), Entry(tick, val))
  ELSE IF Last(trace).val = val THEN trace
  ELSE Append(trace, Entry(tick, val))

(* The last write of a tick wins; a tick whose net value is the value      *)
(* before it is no change; events are all kept.                            *)
fold_change(trace, s, tick, val) ==
  IF s \in EventSid \/ trace = << >> THEN Append(trace, Entry(tick, val))
  ELSE IF Last(trace).tick = tick
       THEN IF Len(trace) >= 2 /\ trace[Len(trace) - 1].val = val
            THEN Front(trace)
            ELSE Append(Front(trace), Entry(tick, val))
  ELSE IF Last(trace).val = val THEN trace
  ELSE Append(trace, Entry(tick, val))

Emit(s, tick, val) ==
  traces' = [traces EXCEPT ![s] = fold_change(@, s, tick, val)]

-----------------------------------------------------------------------------
(* WLF.  The scan range, clamped onto the file's axis.                     *)

Least(a, b) == IF a < b THEN a ELSE b
Most(a, b) == IF a > b THEN a ELSE b

scan_from == IF ask.from = None THEN 0 ELSE Least(Most(ask.from, 0), file.end)

scan_to ==
  IF ask.from = None \/ ask.to = Unbounded THEN file.end
  ELSE Most(Least(ask.to, file.end), scan_from)

seed_tag == IF scan_from > 0 THEN scan_from - 1 ELSE 0

(* A signal is logged from its first record on.  One already logged where  *)
(* the scan starts is started there, with the value it enters with: its    *)
(* last record before, or the one at the start.                            *)
FirstDelivered(s) ==
  LET before == {i \in DOMAIN file.recs[s] : i = 1 \/ file.recs[s][i].tick < scan_from}
  IN  CHOOSE i \in before : \A j \in before : j <= i

NextDelivered(s) == IF pos[s] = 0 THEN FirstDelivered(s) ELSE pos[s] + 1

(* The library owes a callback for s before it may advance the time.       *)
Pending(s) ==
  /\ pos[s] < Len(file.recs[s])
  /\ file.recs[s][pos[s] + 1].tick <= cur_time

(* What wlfReadDataOverRange may deliver for s now: a pending record, as   *)
(* STARTLOG when it is the first, or at the end of the scan an ENDLOG that *)
(* repeats the last.                                                       *)
Callbacks(s) ==
  IF Pending(s)
  THEN {[reason |-> IF pos[s] = 0 THEN "STARTLOG" ELSE "EVENT", rec |-> NextDelivered(s)]}
  ELSE IF cur_time = scan_to /\ pos[s] > 0 THEN {[reason |-> "ENDLOG", rec |-> pos[s]]}
  ELSE {}

-----------------------------------------------------------------------------

Init ==
  /\ file \in Files
  /\ vendor \in {"wlf", "fsdb"}
  /\ ask \in Requests
  /\ pc = IF vendor = "wlf" THEN "create" ELSE "stream"
  /\ todo = ask.sids
  /\ pos = [s \in Sid |-> 0]
  /\ cur_time = scan_from
  /\ have_time = FALSE
  /\ pack = FALSE
  /\ kept = {} /\ values = {} /\ boxes = {}
  /\ vct = None
  /\ traces = [s \in Sid |-> << >>]
  /\ rc = 0

host == <<file, vendor, ask>>

(* wlfPackCreate, which may return NULL.                                   *)
CreatePack ==
  /\ pc = "create"
  /\ \/ pack' = TRUE /\ pc' = "register" /\ UNCHANGED rc
     \/ pack' = FALSE /\ pc' = "done" /\ rc' = 1
  /\ UNCHANGED <<host, todo, pos, cur_time, have_time, kept, values, boxes, vct, traces>>

(* A signal the hierarchy walk found no symbol for is passed over; it has  *)
(* nothing recorded.                                                       *)
NoSymbol ==
  /\ pc = "register" /\ todo # << >>
  /\ file.recs[Head(todo)] = << >>
  /\ todo' = Tail(todo)
  /\ UNCHANGED <<host, pc, pos, wlf, vct, traces, rc>>

(* One signal's callback is registered.                                    *)
Register ==
  /\ pc = "register" /\ todo # << >>
  /\ LET s == Head(todo)
     IN  kept' = kept \cup {s} /\ values' = values \cup {s} /\ boxes' = boxes \cup {s}
  /\ todo' = Tail(todo)
  /\ UNCHANGED <<host, pc, pos, cur_time, have_time, pack, vct, traces, rc>>

(* wlfValueCreate returns NULL.                                            *)
ValueCreateFails ==
  /\ pc = "register" /\ todo # << >>
  /\ rc' = 1
  /\ pc' = "values"
  /\ UNCHANGED <<host, todo, pos, wlf, vct, traces>>

(* Wrong variant: the value of the refused registration is not destroyed.  *)
AppendFailsLeaks ==
  /\ pc = "register" /\ todo # << >>
  /\ values' = values \cup {Head(todo)}
  /\ rc' = 1
  /\ pc' = "values"
  /\ UNCHANGED <<host, todo, pos, cur_time, have_time, pack, kept, boxes, vct, traces>>

(* wlfAppendSignalEventCB fails: what was made for this signal is undone   *)
(* on the spot, what was kept before is left to the cleanup.               *)
AppendFails ==
  /\ pc = "register" /\ todo # << >>
  /\ values' = values \ {Head(todo)}
  /\ boxes' = boxes \ {Head(todo)}
  /\ rc' = 1
  /\ pc' = "values"
  /\ UNCHANGED <<host, todo, pos, cur_time, have_time, pack, kept, vct, traces>>

(* All registered: scan, unless there is nothing to scan.                  *)
StartScan ==
  /\ pc = "register" /\ todo = << >>
  /\ pc' = IF kept = {} THEN "values" ELSE "scan"
  /\ UNCHANGED <<host, todo, pos, wlf, vct, traces, rc>>

(* A time step follows once the last one's changes are delivered, in       *)
(* whatever order of the signals.                                          *)
time_advance_cb ==
  /\ pc = "scan" /\ cur_time < scan_to
  /\ \A s \in kept : ~Pending(s)
  /\ cur_time' = cur_time + 1
  /\ have_time' = TRUE
  /\ UNCHANGED <<host, pc, todo, pos, pack, kept, values, boxes, vct, traces, rc>>

(* Only EVENT and STARTLOG carry a change.                                 *)
signal_event_cb ==
  /\ pc = "scan"
  /\ \E s \in kept : \E cb \in Callbacks(s) :
       /\ pos' = [pos EXCEPT ![s] = cb.rec]
       /\ LET val == file.recs[s][cb.rec].val
          IN  CASE cb.reason = "EVENT" -> Emit(s, cur_time, val)
                [] cb.reason = "STARTLOG" ->
                     Emit(s, IF have_time THEN cur_time ELSE seed_tag, val)
                [] OTHER -> UNCHANGED traces
  /\ UNCHANGED <<host, pc, todo, wlf, vct, rc>>

ScanComplete == cur_time = scan_to /\ \A s \in kept : ~Pending(s)

(* wlfReadDataOverRange returns, possibly before the end.                  *)
ScanEnds ==
  /\ pc = "scan"
  /\ \/ ScanComplete /\ rc' = 0
     \/ ~ScanComplete /\ rc' = 1
  /\ pc' = "values"
  /\ UNCHANGED <<host, todo, pos, wlf, vct, traces>>

DestroyValues ==
  /\ pc = "values"
  /\ values' = values \ kept
  /\ pc' = "pack"
  /\ UNCHANGED <<host, todo, pos, cur_time, have_time, pack, kept, boxes, vct, traces, rc>>

(* Wrong variant: the callback data goes while the pack still holds it.    *)
DestroyPackLast ==
  /\ pc = "pack"
  /\ boxes' = boxes \ kept
  /\ pc' = "boxes"
  /\ UNCHANGED <<host, todo, pos, cur_time, have_time, pack, kept, values, vct, traces, rc>>

DestroyPack ==
  /\ pc = "pack"
  /\ pack' = FALSE
  /\ pc' = "boxes"
  /\ UNCHANGED <<host, todo, pos, cur_time, have_time, kept, values, boxes, vct, traces, rc>>

FreeBoxes ==
  /\ pc = "boxes"
  /\ boxes' = boxes \ kept
  /\ pc' = "done"
  /\ UNCHANGED <<host, todo, pos, cur_time, have_time, pack, kept, values, vct, traces, rc>>

-----------------------------------------------------------------------------
(* FSDB.  goto_time lands on a value change of the last tick at or before  *)
(* `from`, which of several at that tick is NPI's business; where there is *)
(* none, and for a full decode, goto_first.                                *)

(* Wrong variant: a seek lands on the first change after `from`.           *)
PositionsAfter(s) ==
  LET later == {i \in DOMAIN file.recs[s] : ask.from # None => file.recs[s][i].tick > ask.from}
  IN  IF later = {} THEN {Len(file.recs[s]) + 1}
      ELSE {CHOOSE i \in later : \A j \in later : i <= j}

Positions(s) ==
  LET recs == file.recs[s]
      upto == {i \in DOMAIN recs : ask.from # None /\ recs[i].tick <= ask.from}
  IN  IF upto = {} THEN {1}
      ELSE {i \in upto : \A j \in upto : recs[j].tick <= recs[i].tick}

(* A signal without a cursor (npi_fsdb_create_vct NULL) is passed over.    *)
NoCursor ==
  /\ pc = "stream" /\ vct = None /\ todo # << >>
  /\ file.recs[Head(todo)] = << >>
  /\ todo' = Tail(todo)
  /\ UNCHANGED <<host, pc, pos, wlf, vct, traces, rc>>

OpenCursor ==
  /\ pc = "stream" /\ vct = None /\ todo # << >>
  /\ vct' = Head(todo)
  /\ \E i \in Positions(Head(todo)) : pos' = [pos EXCEPT ![Head(todo)] = i - 1]
  /\ UNCHANGED <<host, pc, todo, wlf, traces, rc>>

(* The cursor is out of changes.                                           *)
AtEnd == pos[vct] >= Len(file.recs[vct])

(* The change under the cursor is past `to`; INT64_MAX is never passed.    *)
PastEnd ==
  /\ ~AtEnd /\ ask.from # None /\ ask.to # Unbounded
  /\ file.recs[vct][pos[vct] + 1].tick > ask.to

emit_vc ==
  /\ pc = "stream" /\ vct # None
  /\ ~AtEnd /\ ~PastEnd
  /\ LET r == file.recs[vct][pos[vct] + 1] IN Emit(vct, r.tick, r.val)
  /\ pos' = [pos EXCEPT ![vct] = @ + 1]
  /\ UNCHANGED <<host, pc, todo, wlf, vct, rc>>

(* Past `to`, or out of changes.                                           *)
ReleaseCursor ==
  /\ pc = "stream" /\ vct # None
  /\ AtEnd \/ PastEnd
  /\ vct' = None
  /\ todo' = Tail(todo)
  /\ UNCHANGED <<host, pc, pos, wlf, traces, rc>>

AllStreamed ==
  /\ pc = "stream" /\ todo = << >>
  /\ pc' = "done"
  /\ UNCHANGED <<host, todo, pos, wlf, vct, traces, rc>>

Next ==
  \/ CreatePack \/ NoSymbol \/ Register \/ ValueCreateFails \/ AppendFails \/ StartScan
  \/ time_advance_cb \/ signal_event_cb \/ ScanEnds
  \/ DestroyValues \/ DestroyPack \/ FreeBoxes
  \/ NoCursor \/ OpenCursor \/ emit_vc \/ ReleaseCursor \/ AllStreamed

Spec == Init /\ [][Next]_vars

-----------------------------------------------------------------------------

Asked == {ask.sids[i] : i \in DOMAIN ask.sids}

Trace == Seq([tick : Nat, val : Value])

TypeOK ==
  /\ file.end \in Nat
  /\ vendor \in {"wlf", "fsdb"}
  /\ pc \in {"create", "register", "scan", "values", "pack", "boxes", "stream", "done"}
  /\ todo \in Seq(Sid)
  /\ pos \in [Sid -> Nat]
  /\ cur_time \in Nat
  /\ have_time \in BOOLEAN /\ pack \in BOOLEAN
  /\ kept \subseteq Sid /\ values \subseteq Sid /\ boxes \subseteq Sid
  /\ vct \in Sid \cup {None}
  /\ traces \in [Sid -> Trace]
  /\ rc \in {0, 1}

(* At most one entry per tick, in order, no two equal in a row, events     *)
(* exempt: what fold_change promises, whatever arrives.                    *)
TracesAreFolded ==
  \A s \in Sid : \A i \in 1..(Len(traces[s]) - 1) :
    IF s \in EventSid
    THEN traces[s][i].tick <= traces[s][i + 1].tick
    ELSE /\ traces[s][i].tick < traces[s][i + 1].tick
         /\ traces[s][i].val # traces[s][i + 1].val

(* libwlf may follow the callback data it holds until the pack is gone,    *)
(* and reads a value until the scan is over.                               *)
HeldDataIsLive ==
  /\ pack => kept \subseteq boxes
  /\ pc \in {"register", "scan"} => kept \subseteq values

(* The decode's state has its types, its traces are folded and what the    *)
(* library holds is live, at every callback (run_scan, fold_change).       *)
IInv == TypeOK /\ TracesAreFolded /\ HeldDataIsLive

(* Every handle is returned, on every way out of the decode: values, pack, *)
(* callback data, cursors (run_scan's cleanup, stream_signal_windowed).    *)
HandlesReturned ==
  pc = "done" => ~pack /\ values = {} /\ boxes = {} /\ vct = None

(* The value a run of changes leaves once tick t is over.                  *)
UpTo(changes, t) == {i \in DOMAIN changes : changes[i].tick <= t}

ValueAt(changes, t) ==
  IF UpTo(changes, t) = {} THEN None
  ELSE changes[CHOOSE i \in UpTo(changes, t) : \A j \in UpTo(changes, t) : j <= i].val

NetValue(s, t) == ValueAt(file.recs[s], t)

(* A trace has the file's net changes at the ticks of T: an entry where    *)
(* the value left is not the value found, and no other.                    *)
NetChanges(s, T) ==
  /\ \A t \in T : NetValue(s, t) # NetValue(s, t - 1) =>
       \E i \in DOMAIN traces[s] : traces[s][i] = Entry(t, NetValue(s, t))
  /\ \A i \in DOMAIN traces[s] : traces[s][i].tick \in T =>
       LET t == traces[s][i].tick
       IN  traces[s][i].val = NetValue(s, t) /\ NetValue(s, t) # NetValue(s, t - 1)

(* An event's trace has every record at the ticks of T, in order, some d   *)
(* records of the file into it.                                            *)
EveryRecord(s, T) ==
  \E d \in 0..Len(file.recs[s]) :
    /\ \A i \in DOMAIN traces[s] : traces[s][i].tick \in T =>
         i + d \in DOMAIN file.recs[s] /\ traces[s][i] = file.recs[s][i + d]
    /\ \A j \in DOMAIN file.recs[s] : file.recs[s][j].tick \in T =>
         j - d \in DOMAIN traces[s] /\ traces[s][j - d] = file.recs[s][j]

SameChanges(s, T) == IF s \in EventSid THEN EveryRecord(s, T) ELSE NetChanges(s, T)

Window ==
  IF ask.from = None THEN 0..file.end
  ELSE ask.from..(IF ask.to = Unbounded THEN Most(file.end, ask.from) ELSE ask.to)

(* A decode that came to its end gives each signal, at every tick of the   *)
(* window, the value the file gives it once the tick is over: what         *)
(* snapshot, compare and trace read does not depend on the vendor or on    *)
(* the seek (plugin_backend.rs, load_traces_windowed of both bridges).     *)
SameValues ==
  pc = "done" /\ rc = 0 =>
    \A s \in Asked : \A t \in Window : ValueAt(traces[s], t) = NetValue(s, t)

(* ... and its changes after the window's left edge are the file's net     *)
(* changes there, glitches and partial words folded away; a full decode's  *)
(* are the whole history.  A WLF seed is stamped before the edge, so a     *)
(* signal logged before it has its changes at the edge as well.            *)
SameChangesInside ==
  pc = "done" /\ rc = 0 =>
    \A s \in Asked :
      SameChanges(s, IF ask.from = None \/ (vendor = "wlf" /\ NetValue(s, scan_from - 1) # None)
                     THEN Window ELSE Window \ {ask.from})

(* A finished decode is the file's: its values throughout the window and   *)
(* its changes inside, by either vendor (both load_traces_windowed).       *)
SameAsFile == SameValues /\ SameChangesInside

(* "A tick whose net value equals the previous entry is no change at all"  *)
(* (plugin_backend.rs fold_change): at the window's left edge, too.        *)
NoChangeAtEdge ==
  pc = "done" /\ rc = 0 /\ ask.from # None =>
    \A s \in Asked \ EventSid : \A i \in DOMAIN traces[s] :
      traces[s][i].tick = ask.from => NetValue(s, ask.from) # NetValue(s, ask.from - 1)

(* A decode that stopped part way is right as far as it got: up to some    *)
(* tick its traces are those of a complete one, and beyond it they are     *)
(* empty (wlf/backend.rs run_scan, plugin_backend.rs warn_partial_decode). *)
PartialIsPrefix ==
  pc = "done" /\ rc # 0 /\ ask.from = None =>
    \E cut \in 0..file.end :
      \A s \in Asked :
        /\ SameChanges(s, 0..(cut - 1))
        /\ \A i \in DOMAIN traces[s] : traces[s][i].tick <= cut
=============================================================================
