---------------------------- MODULE MCTraceCache ----------------------------
(* Small instance: a threshold of two and batches of two, so selections of *)
(* three signals stream in two batches and smaller ones load eagerly.  Two *)
(* ticks are enough for a decode that stops at once, half way or not at    *)
(* all, and for windows that begin at the first tick and after it.         *)
EXTENDS TraceCache

MCSid == 1..3
MCTick == 0..1

(* Selections in path order, and one with a repeated signal for trace.     *)
MCSelections == {<< >>, <<1>>, <<2, 3>>, <<1, 2, 3>>}
MCCommands ==
  {c \in [kind : Kinds, sel : MCSelections \cup {<<1, 2, 1>>},
          t0 : MCTick, t1 : MCTick, quiet : BOOLEAN] :
     /\ c.t0 <= c.t1
     /\ c.kind # "trace" => c.sel \in MCSelections
     /\ c.kind \in {"snapshot", "trace"} => c.t0 = c.t1
     /\ c.kind \notin {"dump", "summary"} => ~c.quiet}
=============================================================================
