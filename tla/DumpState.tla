----------------------------- MODULE DumpState -----------------------------
(***************************************************************************)
(* What a `dump` holds whichever way it collects its rows: EventMerge when *)
(* the traces are resident, BoundedDump when they are streamed             *)
(* (commands/dump.rs dump_collect).                                        *)
(***************************************************************************)
EXTENDS Events

VARIABLES
  trace,      \* the full decode of each signal: what the file holds
  query,      \* t0, t1 and the row limit (0: unlimited)
  rows,       \* what is returned, as far as it is collected
  truncated,  \* whether something was turned away
  pc          \* what the collector is doing; "done" when it has returned
=============================================================================
