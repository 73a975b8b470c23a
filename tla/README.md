# RWaveAnalyzer in TLA+

RWaveAnalyzer (`rwave`) is a command-line reader of digital waveforms. It opens
a VCD, FST, GHW, WLF or FSDB file and answers one command (`dump`, `snapshot`,
`compare`, `summary`, `search`, `trace`, `list`, `tree`, `info`) or, in batch
mode, a session of command lines over one open file. These modules model it
from the parsing of its arguments to the rows of an answer; what is left out
is how an answer is laid out as text. Paths below are relative to
`src/crates/rwave/src/` unless they begin with `vendor/`, `tests/` or `docs/`.

## 1. The system

### Components

| Component | Source | State it keeps | Operations |
|---|---|---|---|
| Wave | `model.rs` | signal table, per-signal trace cache (`traces`), the backend | `build_signal_table`, `ensure_loaded`, `release_traces`, `for_each_signal_batched`, `for_each_signal_windowed`, `for_each_event`, `collect_events_bounded`, `snapshot*`, `snapshot_pair*` |
| Backends | `backend/` | the open file; for FST a second reader | `load_traces`, `supports_windowed`, `load_traces_windowed`, `var_decls`, `time_range` |
| FST window reader | `backend/fst_window.rs` | collectors of one request | `open`, `load_windowed` (two passes) |
| Plugin host | `backend/plugin_backend.rs`, `plugin/` | `LOADED_PLUGINS` (process-wide, behind a lock), per-decode emit context | `load_or_get`, `register`, `open`, `run_trace_decode`, `emit_trampoline`, `fold_change`, `Drop` |
| Vendor libraries | `plugin/builtin/*_sys.rs` | one `OnceLock` each, process-wide | locate, `dlopen`, initialise once |
| WLF bridge | `plugin/builtin/wlf/` | file handle, declaration cache; per scan a pack, values, callback data | `collect_scope`, `load_traces*`, `run_scan`, two callbacks |
| FSDB bridge | `plugin/builtin/fsdb/` | file handle, declaration cache, the design session's `loaded`; per signal a cursor | `walk`, `load_traces*`, design queries |
| Design trace | `backend/design.rs`, `npi_dump.rs`, `commands/trace.rs` | NPI holds one design per process; the session records which | `probe_kdb`, `ensure_design`, `load_design`, `parse_dump` |
| Search engine | `commands/search.rs` | the scan's pending group, state and open span | `search_setup`, `search_event_collect`, `search_interval_collect` |
| Other commands | `commands/` | none between commands | one collector and one renderer each |
| Conditions | `condition.rs` | none | `parse_conditions`, `condition_match`, `pattern_compare` |
| Selection | `select.rs`, `filter.rs` | none | patterns, scopes, depths, exclusions |
| Batch session | `batch.rs` | the Wave, the line counter | split, parse, run, answer one line |
| Command line | `cli.rs`, `main.rs` | none | pre-scan, token loop, checks, batch defaults |
| Text | `format.rs`, `json.rs`, `backend/bitstr.rs` | none | values and times in and out; layout |

### How they interact

Control runs from the batch loop (or `main`) to a command's collector, from
there to the Wave, which calls its backend for traces and the collector's
closure for every signal or event. Plugin backends call back: the vendor
library calls `signal_event_cb` and `time_advance_cb`, which call the host's
`emit_trampoline`, which folds a change into the trace of the signal. What
outlives a command in a session is the Wave's trace cache and the design the
vendor holds. The program's commands run on one thread; the plugin registry and the
vendor locks are process-wide and written to be used by several, so they are
modelled with several.

### What is hard

* **Ordering.** Changes come signal by signal and must be listed by tick; a tick
  may hold several changes of several signals, or of one. Declarations come in
  any order and several may be one recording.
* **Boundaries.** A change exactly at the first or last tick of a window belongs
  to a dump, is an event of an event search and is part of the opening level of
  an interval search; tick 0 has no tick before it. `--limit` cuts in the
  middle of a tick, or of a group.
* **Two ways to one answer.** Large selections stream, small ones load eagerly;
  backends that seek decode a window, the others whole histories. The arguments are
  scanned twice. A value is read by the code that shows it and by the code that
  compares it. A batch line mirrors a command line. Both ways must agree.
* **Stale state.** What a batch line leaves in the cache, in the defaults or in the
  vendor's library is found by the next.
* **Partial failure.** A read fails part way; a vendor scan stops in the middle;
  a registration is refused with others already made; a design fails to load; a
  line does not parse.
* **Races.** Two opens register one format, or load one vendor library.
* **Resources and protocol.** One batch of traces at a time; handles, iterators,
  messages and licences of vendor libraries taken and given back in an order those
  libraries can live with.

### What makes each component correct

* Replay and dump: the rows are the earliest changes of the window in order of
  (tick, declaration), all of them or `limit` of them, flagged exactly when cut;
  streaming and eager differ only where a windowed decode enters its window.
* Cache: no window is ever resident; a line's answer does not depend on the
  lines before it, unless a decode stopped part way; streaming holds one batch
  beyond what was resident.
* Search: the rows are the maximal runs of the condition (with `--show`, of the
  condition and the displayed values), or the ticks at which a clause fires.
* Windowed decodes: the values of the full decode everywhere in the window and
  its changes past the left edge.
* Plugin decode: net values per tick, whatever granularity the vendor delivers;
  what was taken from the library is returned, in order, on every way out.
* Registry: one table per format for the life of the process, checked before it
  is used, its code mapped; a vendor library initialised once; every open returns.
* Signal table: every declared path leads to the entry of its recording.
* Selection and listings: what a command selects, lists, counts and resolves by
  name is the same set of signals, under the same names.
* Statistics and conditions: a row of `summary`, `snapshot` or `compare` tells what a
  dump of the window tells; a value shown satisfies the condition that quotes it.
* Command line: nothing is accepted and ignored; a line means what its words mean
  alone; every line gets its own answer.
* Design trace: the answer comes from the design the line means; each endpoint has
  its own value; no licence is spent on a line that cannot be answered.

## 2. The modules

| Module | Models | Extends or instantiates |
|---|---|---|
| `Events` | changes, their order, windows, and `IsAnswer`, what `dump` owes | |
| `DumpAnswer` | the abstract specification of `dump`: one step that answers | `Events` |
| `DumpState` | what a dump holds, whichever way it collects its rows | `Events` |
| `EventMerge` | `Wave::for_each_event` with the eager callback of `dump_collect` | `DumpState`, `DumpAnswer` |
| `BoundedDump` | `Wave::collect_events_bounded`, full or windowed decode | `DumpState` |
| `TraceCache` | the trace cache under a batch session of any length | |
| `Clauses` | clauses over signal values and their meaning on a stream | |
| `SearchSpans`, `SearchEvents` | the two collectors of a search | `Clauses` |
| `Search` | `search_setup`, then the collector it picks | `Clauses`, both collectors |
| `FstWindow` | `FstWindowReader::load_windowed` and its fall-back | |
| `PluginDecode` | `run_trace_decode`, `fold_change`, the WLF scan and the FSDB cursor | |
| `OnceMap` | the abstract specification of a process-wide table: a map written once per key | |
| `PluginRegistry` | `load_or_get`, `register`, vendor loading, opening and closing of sessions | `OnceMap`, twice |
| `Paths` | names, patterns, scopes, exclusions | |
| `SignalTable` | the walks of a hierarchy and `build_signal_table` | `Paths` |
| `Listing` | `list`, `tree`, `info`, selection and lookup by name | `SignalTable` |
| `Values` | values as they are shown, written and compared; times | |
| `Statistics` | `summary`, `snapshot`, `compare` | `Values` |
| `CommandLine` | the parse of the arguments and a batch session | |
| `DesignTrace` | the `trace` lines of a session | |
| `DumpProofs` (of `EventMerge` and `BoundedDump`), `SessionProofs` (of `CommandLine` and `TraceCache`), `FstWindowProofs`, `PluginProofs` (of `PluginDecode` and `PluginRegistry`), `ListingProofs`, `DesignTraceProofs`, `SearchProofs`, `StatisticsProofs` | theorems | the modules named, `TLAPS` |
| `MC...` | small instances for TLC | the module named |

Modules that are not composed meet at the contracts of the calls between them.
`BoundedDump` takes a windowed decode as the backends make it (`Decodes`, `Delivered`):
the contract of `load_traces_windowed`, which `FstWindow` and `PluginDecode` check past
the left edge, and at that edge what those two show of each backend. `TraceCache` takes of a
trace only at which ticks it tells a value, all of them, the window, or as far as a
decode got that stopped, which is `PluginDecode`'s `PartialIsPrefix`; `Search` takes from `Listing` what a
name finds and from `Values` what a comparison accepts; `CommandLine` ends where a
command begins. Definitions that end in `...Late`, `...Kept`, `...Only`, `...First` and
the like, with a comment that says what they do otherwise, are variants of the
definition beside them: the defect the property next to them would catch.

### Events, DumpAnswer, DumpState, EventMerge

A trace is the sequence of its ticks; the replay never looks at a value, so a
change is `[tick, decl, sid, pos]`. `heap` is the `BinaryHeap`, as a set: its
`Ord` compares (tick, declaration order) and `Replay` pops any entry that no other
is below. With one entry per signal and distinct declaration orders
(`SidAssumption`, which `build_signal_table` gives: `TableAlwaysComplete`) there is
only one such entry. `Replay` is the loop body with the callback (`Row`),
`PassUpperBound` the break past `t1`, `Exhaust` the empty heap. When the list is full
the code goes on popping, and so does the model.

### BoundedDump

`todo` is the selection in visiting order, `cursor` the position inside the
first signal's in-range changes, `keep` the bounded max-heap, `all` the list used
without a limit. Which of two entries with equal keys is at the root of a binary heap
depends on its array, so `Retain` may evict any maximal entry, and `Finish`
may return ties in any order the sort allows. `windowed` chooses between the two
decodes a backend may give, and `told` is the trace as the decode stamps it. A full decode
stamps what the file does. A windowed one may stamp the change that enters the window
otherwise (`Restamped`): FST takes a record at `t0` that repeats the value for the seed
(`backend/fst_window.rs:254`), an FSDB scan lists the changes within tick `t0` that come back to
the value (`plugin/builtin/fsdb/backend.rs:275`), and a WLF scan tells a signal first logged at
`t0` one tick before it (`plugin/builtin/wlf/backend.rs:544-548`). The model lets each signal of any
windowed decode be stamped in any of these ways, which is more than one backend does.

### TraceCache

A trace is the set of ticks at which it can tell the signal's value: all for a
full decode, the window for a windowed one, an initial part of either where the decode
stopped part way (`InitialParts`), `Absent` if not resident. A stopped decode is used and kept
like any other, with a warning or none (`plugin_backend.rs:553-562`, `728-736`), so later lines
find it resident (`Load`, `EnsureLoaded`). A command is
its kind, its selection, its instants and whether its answer is empty; `Passes`
gives the passes over the selection its collector makes, with thresholds as
constants, including the two point windows of `compare` and the whole-file scan
that explains an empty answer. `Load`, `VisitLoaded` and `Release` are the three
parts of an iteration of `for_each_signal_batched`, `WindowBatch` is an iteration of
`for_each_signal_windowed`, whose backend may fall back to a full decode. `served`
records what the closures were given, `pinned` the cache when the line began,
`stopped` the signals with a decode that stopped during the line; all three are ghosts.

### Clauses, SearchSpans, SearchEvents, Search

A level term is the set of values it accepts. The stream of
`for_each_event(0, t1)` is buffered by the code before the scan (`Buffered`) and is a
constant sequence of changes to the collectors. In `SearchSpans`, `state` is the state after the last
closed group and `ahead` the same with the pending group applied; the code
keeps the group as a list and applies it when it closes, which is the same at
every point where the state is read. Interval mode is segment mode with nothing
shown. `Search` begins at a line as it is typed: names that find one signal,
several or none, terms given twice, `changed()` and levels mixed, masks, `--show`,
windows that end before they begin. Its setup refuses the line or hands the
collector the clauses, the window and the mode.

### FstWindow

A file is a sequence of changes, in order of tick, cut into data sections: a section
has a start tick and holds a range of positions.
`Emissions` is what `fst-reader` delivers for a filter: the changes of the
overlapping sections from their first one on, and the frame of the first of
them, its signals in any order, if it opens before its first change. `Emission1` and `Emission2` are the callbacks
of the two passes, `OnPhase1` and `Finish` the collector's methods. `Fallback` is
`load_traces_windowed` of `backend/wellen_backend.rs` taking the full decode when
the file cannot be re-opened or read. `FullDecode` is wellen's decode, which drops
a value equal to the previous one. The first section opens with its first change; a
later one may open earlier, at a tick no change is recorded at. A frame at a tick of the
table is the corner `fst_window.rs` names in a comment (`backend/fst_window.rs:113-116`) and leaves open.

### PluginDecode

A file holds a list of records per signal, several at one tick where the vendor
splits a vector or reports a glitch. `pos` counts how many records of each signal
libwlf has gone past, and `Callbacks` is what it may deliver next: the STARTLOG of a
signal's value at the window's edge, then its events in order of time, in any order
across signals within a time step, then its ENDLOG (`Pending`, `FirstDelivered`). That order
is external and modelled from how the callbacks in `plugin/builtin/wlf/backend.rs`
use it. A window that ends before it begins goes through. Every failure `run_scan` handles is an
action: no pack, no value, a refused registration, a scan that ends early. The
cleanup is three steps (values, pack, callback data). For FSDB, `Positions` are the
records `goto_time` may land on: any of the last tick at or before `from`.

### OnceMap, PluginRegistry

Each thread opens a file: it looks its format up under the lock, else resolves it
without the lock (the library named by `$RWAVE_PLUGIN_<EXT>`, whose table may be
of another version, lack entry points or name another format; else the table
compiled in, once its vendor library is loaded), checks the table in the code's
order, registers it under the lock, opens the file, uses it and closes it. A lock
section is one step; everything between two of them interleaves. `touched` is the
table and the field a step has just read, `mapped` the libraries still mapped
and for whom, `strings` the error messages a library handed out that are not yet
freed, `inits` how often each vendor library was initialised. Environment
variables and what is on disk may differ from one open to the next. `at` is where a thread
is, `oncelock` the `OnceLock` of each bridge: one thread loads, the others wait.

### Paths, SignalTable, Listing

A text is a sequence of letters, with one letter for either separator; names may
hold a separator (an escaped identifier) or be empty. `stack` is the call stack of
the walk: `WlfWalk` drains a scope's iterator before it recurses, `FsdbWalk` recurses
with its iterators open. `decls` is what the host fetches, `groups` and `table` the two
halves of `build_signal_table`: declarations grouped by recording, `decl_idx` of them so
far, then groups and the aliases of each sorted by path. `InOrder` puts a finite set in order
by counting what is before each element. `Listing` then asks one question of the table. A file is one of three kinds, by its backend.

### Values, Statistics

A logic value is its bits, most significant first. `Values` has normalisation, the
hexadecimal, decimal and binary forms, a condition's value with masks and
digits of any width, the comparison and the conversion of a time with its unit to
a tick. `Statistics` runs one of three commands over a recording: the scan of
`summary` change by change, `snapshot` and `compare` on full or windowed traces.

### CommandLine

Arguments are sequences of texts; a text is a sequence of `Atoms`, the characters
`split_line` looks at and any others, whole words among them. The loops over a line, over the tokens and
over the arguments are recursive functions of a position (`Scan`, `TakeTokens`,
`PrescanOver`, `Joined`). `Prescan` is the first scan,
`accumulate` the token loop, `check_*` the tables of flags, `resolve` the parsed
command. In a session each line is split, its label taken, parsed with the session's
options as defaults (`parse_batch_line`), run and answered; the run itself may fail.
`Reads`, the options each command's code uses, is taken from
`commands/` and stands for them.

### DesignTrace

An operand counts as one only with a type NPI gives (`NoType`). A line says its target, `--kdb`, `--top`, `--at`, `--control` and `--limit`. Steps are the
code's: what the waveform resolves, `probe_kdb`, `ensure_design`, the load, the
lookup and walk, the annotation. `held` is NPI's design, one per process, dropped
when a load fails; `loaded` what the session believes. What the walk reports is any of
`Dumps`: groups of statements with operands, whose scopes, types and names are
`Texts`. It is written line by line as the vendor writes it (`Written`) and parsed
line by line (`Parsed`). A name that is a path of several signals is the first one's, as
`endpoint_index` keeps the first it meets.

## 3. The runs

| Run | Question | Instance |
|---|---|---|
| `event_merge` | Does the replay answer as promised, and return? | 3 signals in another declaration than path order, up to 2 changes each, ticks 0..2, all windows, limits 0..2 |
| `bounded_dump` | Does streaming list what the eager path lists, and where not? | 2 signals visited in both orders, up to 3 changes, ticks 0..2, limits 0..2, both decodes, every stamp of a seed |
| `dump_ties` | ... also with ties? (no: sect. 6) | the same, up to 2 changes, full decode |
| `trace_cache` | Do lines disturb each other; is memory bounded; is every line answered? | 3 signals, 2 ticks, threshold 2, batches of 2, every decode whole or stopped at any tick, sessions of any length |
| `search` | Are the rows the runs, or the firings, of what was typed? | 2 signals, one an event; files of 3 changes over ticks 0..3 and of 4 over ticks 0..1; conditions of one or two clauses in levels, transitions and both; with and without `--show`; limits 0..1; nine kinds of refused line |
| `fst_window` | Does the seek show what the full decode shows? | one or two sections of up to 2 changes, the second opening early or not, windows before, between, in and after them, also ones that end before they begin |
| `plugin_decode` | Do both bridges give the file's net changes; are handles returned? | a signal of up to 3 records and an event, ticks 0..3, full and windowed requests, every failure |
| `plugin_registry` | Do racing opens agree, use only what they checked, and return? | 2 threads, 3 formats (one compiled in, one with the design session, one external only), a good library and one of another version or name, 2 opens |
| `listing` | Is the table complete, and do list, tree, the counts of info and lookups agree on it? | scopes `u`, `u.a`, `u.a.u` and three leaves, at the root or inside, aliases, names in two cases, escaped, empty; WLF, FSDB and wellen; every kind of scope, filter and exclusion; depths 0..2 |
| `statistics` | Do the reducing commands tell what a dump tells; do shown values match? | a bit, a vector of 2 and a real, up to 3 changes with ties, weak, short, overlong and unknown values; times in ticks and in ps that fall between ticks |
| `command_line` | Is every argument heard; does a line mean what it means alone? | command lines with up to two options, sessions of 2 lines with defaults, lines of every command, words that need quoting, in three quotings |
| `design_trace` | Is each line answered from its design, and at what cost? | two designs, one that needs a top; directories never elaborated, gone and unspeakable; names that differ in case; dumps of up to 2 groups; sessions of any length |

**Why the bounds are enough.** Two signals and two changes within a tick give
every tie; a third signal in `event_merge` makes a pop leave an entry on either
side of it. Limits 0, 1 and 2 are unlimited, full at once, and full in the middle
of a tick. Threshold and batch of 2 with selections of 0 to 3 signals give an
eager load, a full batch, a short last batch and an empty selection; a repeated
signal gives `trace` its duplicates within and across batches. Two ticks in
`trace_cache` give decodes that stop at once, half way or not at all, and windows that begin at
the first tick and after it. Three ticks give
a tick before, in and after a point; four in `search` separate two runs, and windows of one tick
are among its windows. Two
sections give a seek that skips one, one that reads both and one past the end.
Three records allow a glitch that undoes itself and a redundant record. Two
threads give every race of two critical sections, and the second open of a
thread finds what the first registered; the proofs lift the bound. Three nested scopes with one name twice let a
pattern match at two depths. Two bits give every combination of a known and an
unknown digit; recorded values and targets are up to one digit wider than the signal. Two options give every pair
of one that needs, forbids or replaces another, and two lines a line after a
failed one. Two designs give a session that changes its design and comes back.

**Deadlock.** `trace_cache` and `design_trace` are checked for deadlock: a session
can always take a line or finish the one it runs. The other machines answer
one request and stop, so their configurations allow it.

**Fairness.** `EventMerge` and `TraceCache` assume weak fairness of the running
loop (`Next`, `Work`): one thread runs it, holds no lock and waits for nothing
between the steps, so a step that can be taken is. `PluginRegistry` assumes it of each
thread that is inside `open`, step by step: a thread the system schedules goes
on, and a wait on a `OnceLock` is no step until the loader is done. Nothing is
assumed to make another batch line arrive, or a session ask or close.

## 4. What the properties say

* `IInv` of `EventMerge`, `TraceCache`, `FstWindow` and `PluginDecode`, `RegistryInv`: the
  types, with what holds at every step: the heap has one entry per signal and the
  rows precede it; what a line needs is covered or due; the collectors are split
  at `from`; traces are folded and callback data outlives the pack; what is
  registered passed the checks. In `EventMerge`, `TraceCache` and `PluginRegistry` it is
  inductive; the other proofs strengthen it or have their own (section 5).
* `AnswerIsRight`, `ImplementsDumpAnswer`, `ReplayEnds`: the rows are `IsAnswer`, in one
  abstract step, and the replay ends.
* `StreamsAsEager`: the bounded heap holds the earliest changes seen (`HeapHoldsEarliest`).
  Without same-tick changes of one signal the streaming dump lists row by row what the eager
  path would list of the same decode (`SameRowsWithoutTies`). Against full histories it is the
  same on a backend that decodes those; a windowed decode differs at `t0` alone
  (`DiffersAtEdgeOnly`): a row there may repeat the value the signal has since before (FST,
  FSDB), a signal's first change there may be missing (WLF), and with a limit the extra rows push
  out as many from the end. With same-tick changes, on full decodes, ticks, signals, number
  of rows and the flag still agree (`SameTicksAsEager`). That the rows are the same on every
  backend does not hold: section 6.
* `CacheHoldsHistories`, `AnswerIsComplete`, `MemoryBounded`, `EveryLineAnswered`: no window
  enters the cache, and a resident trace that is not whole is what a full decode delivered before it
  stopped; each line reads every selected signal at every tick its answer is a
  function of, except where a decode of that signal stopped, during this line or earlier
  (`Lost`); a streaming pass adds at most a batch and evicts nothing; every
  line is answered. That the user is told of each incomplete answer does not hold: section 6.
* `RowsAreRuns`, `RowsAreFirings`: the rows of a search against a definition that reads
  the typed line and the stream and knows nothing of setup, groups or loops. A firing at `T`
  in the window `[T, T]` is a row, as the code has it; the documentation says otherwise
  (section 6).
* `SameAsFullDecode` (FST), `SameAsFile` (WLF and FSDB): windowed traces against the full
  history, values throughout and changes past the edge.
* `HandlesReturned`, `PartialIsPrefix`: nothing leaks on any path; a decode that stopped
  is right up to where it stopped.
* `SessionsShareMappedTable`: all sessions of a format run on one table whose code is
  mapped. `TablesUsedAsDeclared`: of a table of another version only the version is
  read, no empty slot is called, no foreign handle is taken for rwave's own session.
  `WriteOnce`: registry and vendor locks refine `OnceMap`, and no vendor library is
  initialised twice. `OpenReturns`: an open ends in a session or an error.
* `IteratorsClosed`, `TableIsComplete`: WLF never has two iterators open and no walk
  leaves one; there are as many declarations as leaves and every path is an alias of its
  recording's entry, in the file's order.
* `ListShowsTheSelection`, `SummariesAgreeWithList`, `NamesMeanOneSignal`: selection, list, tree,
  info and lookups by name agree, whatever the options. Of `info`: its signals are those `list` has
  rows of, its references are its counts by type added up, no fewer than the rows
  of `list`, and its scopes are those with a reference.
* `SummaryAgrees`, `PointsAgree`, `ValuesReadAlike`: a summary's first, last and count are
  those of snapshots and dump; `compare` leaves out only what reads the same;
  a displayed value matches the condition that quotes it, and a known value is
  equal or unequal to every target, never both. A pattern may accept unknown bits in
  digits it leaves free: `=b1?` holds of `1x`. Values with more bits than their signal are in it,
  apart from their comparison with a number, where the two readings disagree (section 6).
  A value of no bits is left out: it is shown as `0` and `=0` does not hold of it.
* `PassesAgree`, `NoFlagIgnored`, `AnswersInStep`, `WordsComeBack`, `LineMirrorsSingle`: the two
  scans of the arguments see one mode; no flag is accepted that its command does not
  read, but for `--limit`, which `info` takes and never reads (`cli.rs:562`; `--json` and `--batch`
  are read by the driver); a line's answer carries its own label or number; quoting gives back the
  words typed; a line runs, with the same options, exactly if the command line
  that spells out the defaults does.
* `AnsweredFromMeantDesign`, `DumpReadBack`, `ValuesAreTheirs`, `LicenceIsEarned`: the design
  of a traced line is the one it names or the one recorded, also after failed
  loads; statements keep their group, mark and operands; a value is that of the
  signal it stands by; the held design changes only for a line that has all else.

## 5. What is proved

With the proof system, for every value of the constants the assumptions allow.

* `DumpProofs`, for the replay: `TypeCorrect`, `ReplayInvariant`, `MergeAnswers`,
  `MergeImplementsDumpAnswer`. Assumptions: finitely many signals with distinct
  declaration orders in `Nat` (`SidAssumption`), traces in order of tick
  (`TracesAssumption`), `t0` and `t1` integers, the limit a natural number
  (`QueriesAssumption`). `AnswerIsRight` alone says nothing before the end, so the
  induction carries `IInv`: one heap entry per signal; every row precedes every
  entry; each change of the window is pending, listed, or was turned away by a
  full list and then comes after every row. The step lemma is that the popped
  entry is before everything still to come (`PoppedIsFirst`, `PopAdvances`), which
  needs the traces' order and, for ties, the distinct declaration orders.
* `DumpProofs`, for the streaming scan: `ScanInvariant`, `StreamingMatchesEager`. Assumptions: those of
  `Events`, a set of visiting orders each of which names every signal once
  (`VisitsAssumption`), any decodes (`SeekingAssumption`). The invariant says what the scan has
  seen (`CursorIsNext`, `VisitsOnce`), that without a limit the list holds all of it
  (`ListHoldsAll`), and that with one the heap holds `limit` changes such that each
  change seen and not kept comes after, or ties with, every one kept (`HeapHoldsEarliest`). The end
  is two sorted lists of one set: an element's place in a sorted list is
  its rank, the number of elements before it, so equal sets make equal rows; with ties the
  ranks are those of (tick, declaration) and the rows agree up to which of the tied is shown.
  The invariant keeps that `told` is one of `Decodes` (`DecodeSound`); a decode rises where the
  file does and differs from it in its seed at most (`ToldFacts`, `ToldRises`), so a row of
  one and not of the other is at `t0` or behind all rows that were kept (`DoneAtEdge`).
* `SessionProofs`, for the traces kept between lines: `CacheInvariant`, `CachedTracesAreHistories`,
  `BatchLinesAreComplete`, `StreamingIsBounded`. Assumptions: a non-empty set of
  ticks, `Absent` no trace, a batch of at least one (the code's `batch.max(1)`), commands as they are
  parsed (`CommandsAssumption`). The invariant carries, for the running line,
  that every needed tick of every selected signal was covered by a visit, is
  due in a pass still to make or was lost to a decode that stopped (`Covered`, `Due`, `Lost`), that
  what was resident when the line began stays as it was (`PinsSound`), and that between load and release
  a batch is resident in full and releases nothing it did not load
  (`BatchSound`).
* `PluginProofs`, for the registry: `RegistryInvariant`, `SessionsShare`, `CallsAreDeclared`,
  `RegistryIsWriteOnce`. Assumption: `RegistryAssumption`, that `Nothing` and the owner
  `"process"` are no thread or entry and candidates are tables with a library. Any number
  of threads, formats, libraries and opens. The invariant (`Trusted`) is that what is
  registered passed every check and its library is mapped for the process, and
  that a thread past `register` holds the registered table, which is why losing a race
  is harmless: the loser takes the winner's entry and its own library is not
  needed by anyone. `CallsAreDeclared` needs one more fact, that a table with no library is
  the compiled-in one. For `WriteOnce` the refinement maps a lock section to `Put` or a
  stutter, and one `OnceLock` has at most one thread loading (`VendorInv`).
* `FstWindowProofs`: `FstInvariant`, `CollectorsStaySplit`, `WindowedMatchesFull`. Assumptions:
  files as above (`FilesAssumption`), any number of sections, signals and changes; a request of known
  signals with a natural `from` and any `to`, also one before `from` (`RequestsAssumption`); `None` is no tick or value
  (`NoneAssumption`). `CollectorsAreSplit` does not mention the full decode, so it cannot be
  carried from one emission to the next by itself and says nothing of the traces. `FstInv` puts a collector beside the full
  decode of its signal up to the same position of the file: past `from` both have the same entries,
  but that the collector may begin with one change more, which repeats a seed phase 1
  does not know (`Matches`, `Redundant`). What makes it inductive is what the reader skips:
  a position that is not delivered is before everything that is, or past the window
  (`SelectionHolds`), so a baseline is trusted only when nothing between it and the
  change was missed. Frame echoes sit at a tick no change has (`FrameHolds`), all before the
  first change. Phase 2 starts over from the first position and keeps the last change at or before
  `from` (`SeedIs`, `Rereads`), and then `Finish` drops the first entry exactly
  if it is the redundant one (`FinishShortens`). The end is that such a trace tells the same
  values and lists the same changes (`ShortensTells`, `ShortensLists`).
* `PluginProofs`, for the decode: `DecodeInvariant`, `DecodeKeepsOrder`, `EveryHandleReturned`,
  `DecodesMatchFile`, `PartialDecodesArePrefixes`. Assumptions: `None` is no signal and no value
  (`NoneAssumption`), each signal's records are in order of tick
  (`FilesAssumption`), requests as the host makes them (`RequestsAssumption`).
  `DecodeInv` says which handles are held at each step (`Phases`, `Turns`) and, for
  each signal, that its trace tells, from the window's edge on, the value of the
  records the library has gone past (`Scanned`, `Streamed`). The step lemma is about `fold_change`: it
  keeps a trace strictly increasing in time and without repeated values, and after it
  the trace tells what the records so far tell (`FoldSeesRight`), whatever glitch or
  redundant record comes. No order across signals is used.
* `SessionProofs`, for the lines: `CommandInvariant`, `TwoPassesAgree`, `FlagsAreRead`,
  `OneAnswerPerCommand`, `WordsAreAsTyped`. Assumptions: the five characters the splitter looks at
  are atoms (`AtomsAssumption`), arguments and lines are sequences of texts and
  texts, and the lines kept beside what they should give were made by quoting words
  (`LinesAssumption`). `CommandInv` says that what a session goes by is what `parse` made of its
  arguments, and of the line at hand (`ArgumentsParsed`, `LineHeeded`), and that counters and
  answers agree (`Counted`, `Numbered`). `TwoPassesAgree` is an induction over the arguments with the two passes side by
  side (`InStep`). `OneAnswerPerCommand` needs that the scanner's verdict on a line, blank or comment,
  is whether it holds a command (`HoldsCommand`). `WordsAreAsTyped` is for any words of any
  characters, each in any of the three quotings, behind any label.
* `ListingProofs`: `IteratorsAlwaysClosed`, `TableAlwaysComplete`,
  `ListAlwaysShowsTheSelection`, `NamesAlwaysMeanOneSignal`. Assumptions: a file's hierarchy is a
  tree of finitely many nodes whose names hold no wildcard and, of an FSDB, no scope lacks a name (`FilesAssumption`, `IsTree`); letters
  and the separator are distinct, in a strict order (`PathsAssumption`, `RankAssumption`). Any
  hierarchy, options and queries. `ListInv` says of the walk (`WalkPart`) that the
  calls under way go down the tree, and that the declarations so far and the leaves under what
  those calls have in front of them (`Owed`, `Ahead`) are together as many as the leaves. What makes it
  inductive is that no call has in front of it what leads to a call further in (`Shape`): then a
  step that goes into a node takes exactly that node's leaves from one call to the next. The iterators are those the calls hold (`Held`). Of the loop
  of `build_signal_table` (`GroupPart`) it says that a group is what the declarations met so far
  say of its recording, of the table (`TablePart`) that it is the groups, sorted. The order of
  paths is proved a strict total order (`LessTransitive`, `LessTotal`), so that counting what is before an element enumerates a
  finite set (`InOrderFacts`): the aliases of an entry are its paths, once each (`Aliases`), and the
  rows of `list` are the aliases it may show (`ListedRows`). For the names: a path
  spelled exactly holds no wildcard and is matched by the pattern it spells (`SpelledExactly`,
  `ExactMatches`), so a look-up that falls back to the pattern and finds one has passed over nothing
  exact.
* `DesignTraceProofs`: `SessionInvariant`, `LinesAnsweredFromMeantDesign`,
  `LicencesAreEarned`, with no assumption on the constants, and `DumpsAreReadBack`,
  `ValuesStandByTheirNames`, which assume only what kind of thing a dump, a table and a limit
  are. What must be carried
  between lines is `RecordIsTrue`: if the session records a design as loaded, NPI holds
  it. It survives a failed load only because the record is cleared before the
  load is tried (`LoadIsDue`). The other parts are what a line has established by each step;
  `ProbedIsMeant` is the lemma about `probe_kdb`. For the dumps, parsing one text after another
  is parsing the second from where the first left the parser (`ParsedConcat`), so an
  operand, a statement, a group and a dump are read back one inside the other, and
  the head of a group leaves nothing of the group before it (`HeadRead`). `EndpointFacts` is the
  lemma about `endpoint_index`, for any table with any aliases.
* `SearchProofs`: `SearchInvariant`, `RowsAreRunsAlways`, `RowsAreFiringsAlways`.
  Assumption: `SearchAssumption`, that `Undef` is no value and `None` no tick, a signal of kind `event` is
  not of kind `bits`, a file holds its changes in order of tick and a line is what the parser makes
  of one. First, the clauses left without duplicates mean what was typed (`Meaning`), and the
  changes that setup did not load or buffer do not matter to them (`OnlySelectedCount`). Then the state after a
  position of the stream is the state at every tick up to the next change (`NowIsThen`). `SpansInv` says
  that the open span began at the first tick of the run going on at the tick before the pending
  group, and that the rows are the runs that have ended (`Lists`); `EdgesInv` that the
  group is all the stream's changes of one tick so far, of which the scan judges `changed()` as the
  file would (`ChangedAre`), and that a tick without a change of a loaded signal never fires
  (`NoneFires`). A scan that stops at the limit has the earliest rows because
  rows end, and so are listed, in the order in which they begin (`Finished`).
* `StatisticsProofs`: `StatInvariance`, `SummaryAlwaysAgrees`, `PointsAlwaysAgree`,
  `ValuesAlwaysReadAlike`. Assumptions: recordings in order of tick with values that are sequences of
  letters, widths of at least one, commands as they are parsed with times that are written numbers
  (`StatisticsAssumption`, `IsArgument`), and what the timescale and the largest tick are
  (`ValuesAssumption`). Any recordings, windows and selections. The changes
  up to a tick are the first ones of a recording (`ReachFacts`), so those a summary counts are an
  interval of positions (`CountedFacts`), and `StatInv` can say that a scan has counted its way
  from the baseline to its place (`ScanOK`), that each row that is done is right (`Promised`), and that
  each signal is still to do, left out or has a row. What a seeking decode delivers at an instant is
  at most one change, the one in force (`DecodedFacts`). For the values: a binary number determines
  its bits (`NumberPositions`), a value's bits extended to the width of its signal are what
  is shown of it and what a pattern is compared with (`ShownFacts`, `PatternFacts`), so a number or a pattern
  that is read back from a row holds of the values shown so and of no other (`ShownMatches`). To a
  pattern a value with too many bits is one whose bits are all `x`, which is how it is shown
  (`OverlongFacts`, `ReadAsFitting`), so only numbers need the width as a hypothesis. The prover
  does not know that `"x"` is a `STRING`, hence `Letter`.

The proof system cannot use the library's induction over numbers, whose theorem takes
a predicate as its parameter. Where a proof goes along a list, the positions for which
the claim holds form a set, and a least position outside it is led to a
contradiction (`UpTo`, from `WFMin` and the well-foundedness of `<`). The loops are
recursive functions, and each gets a lemma that says what it has at every position.

Model-checked only: the liveness properties, which are out of the prover's
reach; `SummariesAgreeWithList` of `Listing`, whose tree and counts fold and select with the library's
operators, whose recursions the provers cannot unfold;
and `LineMirrorsSingle` of `CommandLine`, which spells options out in an
arbitrary order (`SetToSeq`), about which the prover knows nothing.

## 6. Where code and comment disagree

`dump_ties` is a run and a finding: the bounded heap compares (tick, declaration)
only and may evict the first of two same-tick changes of one signal for an
earlier change, keeping the second (`model.rs:739`). `commands/dump.rs:35-36`: "both
produce the same ordered rows". It needs a limit, more than 8192 signals and a
format that keeps same-tick changes (VCD, FST, GHW through wellen).

Configurations kept for the reader. TLC finds each property violated; where a configuration
has two, `-continue` shows both:

| Configuration | Property | Case |
|---|---|---|
| `MCBoundedDumpSeek` | `SameRowsOnEveryBackend` | Without ties, on a seeking backend: a row at `t0` the eager dump does not have, or one missing there (section 2, BoundedDump). `commands/dump.rs:35-36`: "both produce the same ordered rows". |
| `MCBoundedDumpSeek` | `SameChangesWhenSeeking` | On a seeking backend a signal's earlier changes at `t0` are not in the windowed decode, so they are not listed (`model.rs:719`). `model.rs:716-718`: "exactly the same in-range events as a full-trace scan would". |
| `MCTraceCacheStopped` | `IncompleteIsReported` | A full decode that stopped part way stays cached, and a later line answers from it without a warning (`model.rs:456`, `backend/plugin_backend.rs:553-562`). `plugin_backend.rs:726-729`: "say so rather than presenting them as complete". |
| `MCSearchZeroWidth` | `ZeroWidthIsEmpty` | An event search of the window `[T, T]` lists a firing at `T` (`commands/search.rs:652-663`). `skill/SKILL.md:379` (beside `crates/`): "A zero-width `search` window (`--begin T --end T`) yields no rows." Interval mode does suppress them (`search.rs:949`). |
| `MCStatisticsReadings` | `OverlongReadsUnknown` | A value with more bits than its signal is shown as unknown (`format.rs:131`), but satisfies `=` with the number its bits spell (`condition.rs:385-393`) and is counted as known (`format.rs:209`). `condition.rs:457-458`: "A value longer than its declared width is malformed and reads as all-x, as `fmt_bits` displays it". |
| `MCFstWindowSeed` | `SeedIsLastChange` | A redundant change at or before `from` replaces the seed (`backend/fst_window.rs:254`), so its time is not the full decode's; values are unaffected. `fst_window.rs:27-28`: "identical consecutive-duplicate suppression". |
| `MCPluginDecodeEdge` | `NoChangeAtEdge` | An FSDB window that opens at a tick that glitches back lists a change there (`plugin/builtin/fsdb/backend.rs:275`); `plugin_backend.rs:692-694`: "a tick whose net value equals the previous entry is no change at all". |
| `MCStatisticsReadings` | `ListedValuesDiffer` | `compare` tells values apart by their recorded bits, so it lists a signal whose two values render identically (`commands/compare.rs:78`). `compare.rs:76`: "two values that render identically are unchanged". |

Met while modelling, stated here in words:

* A condition that becomes true at `t1` is listed as `[t1, t1)`
  (`commands/search.rs:1025`); rows are "`[a, b)` intervals where conditions hold"
  (`search.rs:787`) and a `[T, T)` row is suppressed elsewhere (`search.rs:945-948`).
  `RowsAreRuns` states the rows as they are.
* A session started with `--depth` but no `--scope` makes `info` and `trace` lines fail, which
  read neither (`cli.rs:506-508`, `752-754`); `LineMirrorsSingle` leaves these lines out
  (`StrayDepth`).
* The help says an empty value lifts a default; `--begin ''` and `--at ''` are time
  errors instead, except for `trace --at ''`.
* In a session with a default `--depth`, `tree --of` is never valid. `list --help` is an
  error on a line and prints the help alone. `--batch` on a line is accepted.
* `trace --top ''` and no `--top` mean one design, and loading one after the other
  loads it again.

## 7. What is not modelled

* Rendering, tables, JSON, help texts: no property here is about layout.
* The byte encodings of `backend/bitstr.rs`, the symbol tables of the vendor bindings,
  the silencing of standard output while a library speaks
  (`plugin/builtin/fsdb/fsdb_sys.rs`) and the capture of its diagnostics: pure I/O.
* The driver and load analysis of `trace`, which the vendor does.
* A file rewritten under an open session (`backend/wellen_backend.rs:256`) and a
  design rebuilt under one: the code detects neither, so there is nothing to
  state. FST writers whose first section opens before its first change, or whose
  frame tick collides with a change of another section (`fst_window.rs:117-119`
  names the corner); `FilesAssumption` says so.
* Traces an eager line loads stay resident to the end of the session by design
  (`commands/dump.rs:69`); `MemoryBounded` bounds the streaming passes.
* libwlf's merge of negative archive times. Negative archive numbers, all of which become one
  signal (`plugin/builtin/wlf/backend.rs:641`), are in `SignalTable` but
  no property singles them out.
* Regular files that fail to open for reasons of the file system.

## 8. The plan

Done: every module of section 2, with the proofs of `EventMerge`, `BoundedDump`, `TraceCache`,
`FstWindow`, `PluginDecode`, `PluginRegistry`, `SignalTable`, `DesignTrace`, `Statistics`, `Search`
with its two collectors, and all but one property each of `Listing` and `CommandLine`.

Next, theorems that need the model's folds restated as functions of a position:

1. `Listing`: `SummariesAgreeWithList`, with the tree as a walk of its own.
