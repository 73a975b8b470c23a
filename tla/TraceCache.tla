----------------------------- MODULE TraceCache -----------------------------
(***************************************************************************)
(* The trace cache of a Wave (model.rs) under the lines of a batch         *)
(* session (batch.rs): one Wave is opened, and each line runs a command    *)
(* against it.  A command reads traces in one of three ways:               *)
(*                                                                         *)
(*   eager     ensure_loaded on the whole selection, which stays resident; *)
(*   batched   for_each_signal_batched: load a batch, visit it, release    *)
(*             what the batch itself loaded;                               *)
(*   windowed  for_each_signal_windowed on a backend that seeks: decode a  *)
(*             batch for [from, to] alone, visit it, drop it.              *)
(*                                                                         *)
(* What matters of a decoded trace is at which ticks it tells the signal's *)
(* value: a full decode does at every tick, a windowed one in its window.  *)
(* A trace is therefore the set of those ticks.  A decode may stop part    *)
(* way (plugin_backend.rs load_traces): what it had collected is used, and *)
(* cached, as if it were everything.                                       *)
(***************************************************************************)
EXTENDS Integers, Sequences, FiniteSets

CONSTANTS
  Sid,        \* signals of the file
  Tick,       \* ticks of the file
  Threshold,  \* STREAMING_SIGNAL_THRESHOLD (8192 in the code)
  Batch,      \* STREAMING_BATCH (8192 in the code)
  Commands,   \* the command lines a session may hold
  Absent        \* no trace is resident

ASSUME TickAssumption == Tick # {} /\ Tick \subseteq Int
ASSUME AbsentAssumption == \A T \in SUBSET Tick : Absent # T
ASSUME BatchAssumption == Threshold \in Nat /\ Batch \in Nat \ {0}

Kinds == {"dump", "snapshot", "trace", "compare", "summary", "search"}

(* A parsed line: its selected signals, its instants or window, and        *)
(* whether it comes out with nothing to show.  Two endpoints of a `trace`  *)
(* may be aliases of one signal, so a selection may repeat a signal.       *)
ASSUME CommandsAssumption ==
  \A c \in Commands : /\ c.kind \in Kinds
                      /\ c.sel \in Seq(Sid)
                      /\ c.t0 \in Tick /\ c.t1 \in Tick /\ c.t0 <= c.t1
                      /\ c.quiet \in BOOLEAN

VARIABLES
  seeks,    \* supports_windowed of the backend, fixed at open
  cache,    \* Wave::traces
  command,  \* the line being run, or Idle
  passes,   \* passes over the selection still to make
  at,       \* signals of the selection done in the current pass
  fresh,    \* signals the current batch loaded itself (not `preloaded`)
  step,     \* "load", "visit" or "release" of the current batch
  served,   \* what the visits of this command were given
  stopped,  \* ghost: signals whose decode stopped part way in this command
  pinned    \* ghost: the cache when the command began

cachevars ==
  <<seeks, cache, command, passes, at, fresh, step, served, stopped, pinned>>

Idle == [kind |-> "idle", sel |-> << >>]

-----------------------------------------------------------------------------

Window(from, to) == {t \in Tick : from <= t /\ t <= to}

should_stream(c) == Len(c.sel) > Threshold

Pass(how, from, to, ask, batch) ==
  [how |-> how, from |-> from, to |-> to, ask |-> ask, batch |-> batch]

Eager(ask) == Pass("eager", 0, 0, ask, 1)

Batched(ask, batch) == Pass("batched", 0, 0, ask, batch)

(* for_each_signal_windowed: without a seek, the full batched decode.      *)
Windowed(from, to, ask) ==
  IF seeks THEN Pass("windowed", from, to, ask, Batch) ELSE Batched(ask, Batch)

(* empty_window_reason: an empty answer is explained by looking for any    *)
(* sample of the selection in the whole file, up to UNDUMPED_SCAN_CAP.     *)
EmptyScan(c) ==
  IF c.quiet /\ Len(c.sel) <= Batch THEN <<Batched(Tick, Batch)>> ELSE << >>

DumpPasses(c) ==
  LET ask == Window(c.t0, c.t1)
  IN  <<IF should_stream(c) THEN Windowed(c.t0, c.t1, ask) ELSE Eager(ask)>>
        \o EmptyScan(c)

(* snapshot, and the values `trace --at` shows, which has no threshold.    *)
PointPasses(c) ==
  IF seeks \/ (c.kind = "snapshot" /\ should_stream(c))
  THEN <<Windowed(c.t0, c.t0, {c.t0})>>
  ELSE <<Eager({c.t0})>>

(* Wrong variant: one window at the first instant serves both.             *)
ComparePassesOneWindow(c) ==
  IF seeks \/ should_stream(c)
  THEN <<Windowed(c.t0, c.t0, {c.t0, c.t1})>>
  ELSE <<Eager({c.t0, c.t1})>>

(* snapshot_pair_streaming: two point windows beat one spanning window,    *)
(* but only where the backend seeks and the instants differ.               *)
ComparePasses(c) ==
  IF seeks /\ c.t0 # c.t1
  THEN <<Windowed(c.t0, c.t0, {c.t0}), Windowed(c.t1, c.t1, {c.t1})>>
  ELSE IF seeks \/ should_stream(c)
       THEN <<Windowed(c.t0, c.t1, {c.t0, c.t1})>>
       ELSE <<Eager({c.t0, c.t1})>>

(* summary always reads whole histories (its baseline lies before t0), in  *)
(* one batch for a small selection.                                        *)
SummaryPasses(c) ==
  <<Batched({t \in Tick : t <= c.t1},
            IF should_stream(c) \/ c.sel = << >> THEN Batch ELSE Len(c.sel))>>
    \o EmptyScan(c)

(* search replays from tick 0 to know the values entering its window.      *)
SearchPasses(c) == <<Eager({t \in Tick : t <= c.t1})>>

Passes(c) ==
  CASE c.kind = "dump" -> DumpPasses(c)
    [] c.kind \in {"snapshot", "trace"} -> PointPasses(c)
    [] c.kind = "compare" -> ComparePasses(c)
    [] c.kind = "summary" -> SummaryPasses(c)
    [] c.kind = "search" -> SearchPasses(c)

(* The ticks a command's answer is a function of, for each signal.         *)
Needs(c) ==
  CASE c.kind = "dump" -> Window(c.t0, c.t1)
    [] c.kind \in {"snapshot", "trace"} -> {c.t0}
    [] c.kind = "compare" -> {c.t0, c.t1}
    [] c.kind \in {"summary", "search"} -> {t \in Tick : t <= c.t1}

(* Wrong variant: a batch does not move past the signals it read.          *)
ChunkEndStuck == at

(* The signals of the current batch: all of them for an eager pass.        *)
ChunkEnd ==
  LET p == Head(passes)
  IN  IF p.how = "eager" \/ at + p.batch > Len(command.sel)
      THEN Len(command.sel) ELSE at + p.batch

Chunk == {command.sel[i] : i \in (at + 1)..ChunkEnd}

Missing == {s \in Chunk : cache[s] = Absent}

(* How far a decode from tick 0 gets before it ends or stops.              *)
InitialParts == {p \in SUBSET Tick : \A t \in p, u \in Tick : u <= t => u \in p}

(* Wrong variant: a repeated request drops what was there.                 *)
EnsureLoadedOnly(told) == [s \in Sid |-> IF s \in Missing THEN told[s] ELSE Absent]

(* ensure_loaded: decode what is not resident yet, and keep what came.     *)
EnsureLoaded(told) == [s \in Sid |-> IF s \in Missing THEN told[s] ELSE cache[s]]

(* Wrong variant: nothing is released.                                     *)
ReleasedNone == cache

(* Release exactly the traces this batch introduced.                       *)
Released == [s \in Sid |-> IF s \in fresh THEN Absent ELSE cache[s]]

(* What one visit is given: the ticks the closure asks about, and those    *)
(* the trace at hand can tell.                                             *)
Visit(s, told) == [sid |-> s, ask |-> Head(passes).ask, told |-> told]

(* Wrong variant: the partial traces of a window enter the cache.          *)
AfterWindowCached(told) ==
  [s \in Sid |-> IF s \in Chunk THEN told[s] ELSE cache[s]]

(* A windowed batch leaves the cache alone.                                *)
AfterWindow(told) == cache

-----------------------------------------------------------------------------

CacheInit ==
  /\ seeks \in BOOLEAN
  /\ cache = [s \in Sid |-> Absent]
  /\ command = Idle
  /\ passes = << >>
  /\ at = 0
  /\ fresh = {}
  /\ step = "load"
  /\ served = {}
  /\ stopped = {}
  /\ pinned = [s \in Sid |-> Absent]

(* The next line parses (parse_batch_line) and its command starts.  A line *)
(* that does not parse emits its error and touches nothing.                *)
Line(c) ==
  /\ command = Idle
  /\ command' = c
  /\ passes' = Passes(c)
  /\ at' = 0
  /\ step' = "load"
  /\ UNCHANGED <<seeks, cache, fresh, served, stopped, pinned>>

Reading(how) == passes # << >> /\ Head(passes).how \in how

(* A decode that stopped warns (warn_partial_decode) or, where an FSDB     *)
(* traversal cannot be made, says nothing; the trace is cached all the     *)
(* same.                                                                   *)
Load ==
  /\ Reading({"eager", "batched"})
  /\ step = "load"
  /\ at < Len(command.sel)
  /\ fresh' = IF Head(passes).how = "batched" THEN Missing ELSE {}
  /\ \E told \in [Missing -> InitialParts] :
       /\ cache' = EnsureLoaded(told)
       /\ stopped' = stopped \cup {s \in Missing : told[s] # Tick}
  /\ step' = "visit"
  /\ UNCHANGED <<seeks, command, passes, at, served, pinned>>

(* `f` on every signal of the batch whose trace is resident.               *)
VisitLoaded ==
  /\ Reading({"eager", "batched"})
  /\ step = "visit"
  /\ served' = served \cup {Visit(s, cache[s]) : s \in {r \in Chunk : cache[r] # Absent}}
  /\ step' = "release"
  /\ UNCHANGED <<seeks, cache, command, passes, at, fresh, stopped, pinned>>

Release ==
  /\ Reading({"eager", "batched"})
  /\ step = "release"
  /\ cache' = Released
  /\ fresh' = {}
  /\ at' = ChunkEnd
  /\ step' = "load"
  /\ UNCHANGED <<seeks, command, passes, served, stopped, pinned>>

(* One batch of a windowed pass.  The resident cache is ignored; a backend *)
(* that fails to read its window decodes in full instead, and either       *)
(* decode may stop part way.                                               *)
WindowBatch ==
  /\ Reading({"windowed"})
  /\ at < Len(command.sel)
  /\ \E span \in {Window(Head(passes).from, Head(passes).to), Tick} :
     \E told \in [Chunk -> {span \cap p : p \in InitialParts}] :
       /\ served' = served \cup {Visit(s, told[s]) : s \in Chunk}
       /\ cache' = AfterWindow(told)
       /\ stopped' = stopped \cup {s \in Chunk : told[s] # span}
  /\ at' = ChunkEnd
  /\ UNCHANGED <<seeks, command, passes, fresh, step, pinned>>

EndPass ==
  /\ passes # << >>
  /\ step = "load"
  /\ at = Len(command.sel)
  /\ passes' = Tail(passes)
  /\ at' = 0
  /\ UNCHANGED <<seeks, cache, command, fresh, step, served, stopped, pinned>>

(* The result line is printed and flushed; the Wave is kept.               *)
Reply ==
  /\ command # Idle
  /\ passes = << >>
  /\ command' = Idle
  /\ served' = {}
  /\ stopped' = {}
  /\ pinned' = cache
  /\ UNCHANGED <<seeks, cache, passes, at, fresh, step>>

Work == Load \/ VisitLoaded \/ Release \/ WindowBatch \/ EndPass \/ Reply

CacheNext == (\E c \in Commands : Line(c)) \/ Work

CacheSpec == CacheInit /\ [][CacheNext]_cachevars

(* The process runs the command it has read; nothing makes a next line     *)
(* come.                                                                   *)
FairSpec == CacheSpec /\ WF_cachevars(Work)

-----------------------------------------------------------------------------

PassType ==
  [how : {"eager", "batched", "windowed"}, from : Int, to : Int,
   ask : SUBSET Tick, batch : Nat \ {0}]

TypeOK ==
  /\ seeks \in BOOLEAN
  /\ cache \in [Sid -> {Absent} \cup SUBSET Tick]
  /\ command \in Commands \cup {Idle}
  /\ passes \in Seq(PassType)
  /\ at \in Nat
  /\ fresh \subseteq Sid
  /\ step \in {"load", "visit", "release"}
  /\ served \subseteq [sid : Sid, ask : SUBSET Tick, told : SUBSET Tick]
  /\ stopped \subseteq Sid
  /\ pinned \in [Sid -> {Absent} \cup SUBSET Tick]

(* The partial traces of a window never enter the cache, so a later line   *)
(* never reads one as a history (model.rs for_each_signal_windowed).  What *)
(* is resident begins at the file's first tick; where it is not the whole  *)
(* history a full decode stopped part way, in this command or in one       *)
(* before it whose trace stayed.                                           *)
CacheHoldsHistories ==
  \A s \in Sid : cache[s] # Absent =>
    /\ cache[s] \in InitialParts
    /\ cache[s] = Tick \/ s \in stopped \/ cache[s] = pinned[s]

(* Signal i of the line was read at tick t.                                *)
Covered(i, t) ==
  \E v \in served : v.sid = command.sel[i] /\ t \in v.ask \cap v.told

(* A tick of a signal that no visit told because a decode of it stopped:   *)
(* in this command, or in the earlier one that left what is resident.      *)
Lost(s, t) == s \in stopped \/ (pinned[s] # Absent /\ t \notin pinned[s])

Answered == command # Idle /\ passes = << >>

(* A batch line's answer is the answer of the same command run alone       *)
(* (batch.rs): every selected signal was read at every tick the answer     *)
(* depends on, whatever earlier lines cached or released.  What is missing *)
(* is Lost to a decode that stopped.                                       *)
AnswerIsComplete ==
  Answered =>
    \A i \in DOMAIN command.sel : \A t \in Needs(command) :
      Covered(i, t) \/ Lost(command.sel[i], t)

(* A decode that stopped is to be said so, "rather than presenting [the    *)
(* traces] as complete" (plugin_backend.rs warn_partial_decode).  Said of  *)
(* each line: what it did not read stopped during that line.  It does not  *)
(* hold: a later line reads the cached remainder without a word.           *)
IncompleteIsReported ==
  Answered =>
    \A i \in DOMAIN command.sel : \A t \in Needs(command) :
      Covered(i, t) \/ command.sel[i] \in stopped

(* Streaming keeps memory bounded: beyond what was resident when the       *)
(* command began, at most one batch of traces is resident, and no trace    *)
(* that was pinned is evicted (model.rs for_each_signal_batched).          *)
MemoryBounded ==
  Reading({"batched", "windowed"}) =>
    /\ \A s \in Sid : pinned[s] # Absent => cache[s] # Absent
    /\ Cardinality(fresh) <= Head(passes).batch
    /\ \A s \in Sid : cache[s] # Absent /\ pinned[s] = Absent =>
         s \in fresh \/ (command.kind = "dump" /\ ~should_stream(command))

(* Every line read is answered.                                            *)
EveryLineAnswered == command # Idle ~> command = Idle

-----------------------------------------------------------------------------

(* A pass still to make, or not yet at signal i, asks about tick t.        *)
Due(i, t) ==
  \E k \in DOMAIN passes : t \in passes[k].ask /\ (k > 1 \/ i > at)

(* An eager load followed by another pass is dump's, whose empty answer is *)
(* being explained.                                                        *)
PassesSound ==
  \A k \in DOMAIN passes :
    /\ passes[k].how = "windowed" => passes[k].ask \subseteq Window(passes[k].from, passes[k].to)
    /\ passes[k].how = "eager" /\ k < Len(passes) =>
         command.kind = "dump" /\ ~should_stream(command)

(* Between its load and its release a batch is resident, and it releases   *)
(* nothing it did not load.                                                *)
BatchSound ==
  /\ step # "load" => Reading({"eager", "batched"}) /\ at < Len(command.sel)
  /\ step = "load" => fresh = {}
  /\ step # "load" => \A s \in Chunk : cache[s] # Absent /\ (s \in fresh => pinned[s] = Absent)
  /\ step = "release" => \A s \in Chunk : Visit(s, cache[s]) \in served
  /\ step # "load" => fresh \subseteq Chunk
  /\ fresh # {} => Reading({"batched"})

(* What was resident when the command began stays as it was, and between   *)
(* commands nothing is under way.                                          *)
PinsSound ==
  /\ \A s \in Sid : pinned[s] # Absent => cache[s] = pinned[s]
  /\ command = Idle =>
       pinned = cache /\ served = {} /\ stopped = {} /\ passes = << >>

(* The strengthening that is inductive.                                    *)
IInv ==
  /\ TypeOK
  /\ CacheHoldsHistories
  /\ PinsSound
  /\ at <= Len(command.sel)
  /\ passes = << >> => at = 0
  /\ PassesSound
  /\ BatchSound
  /\ command # Idle =>
       \A i \in DOMAIN command.sel : \A t \in Needs(command) :
         Covered(i, t) \/ Due(i, t) \/ Lost(command.sel[i], t)
  /\ MemoryBounded
=============================================================================
