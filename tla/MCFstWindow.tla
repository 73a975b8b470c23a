---------------------------- MODULE MCFstWindow ----------------------------
(* Small instance: one or two data sections, the second opening with its   *)
(* first change or one tick before it; signal 2 is an event.  The window   *)
(* may open before, between, in or after the sections.                     *)
EXTENDS FstWindow

CONSTANTS MaxChanges, LastTick

Of(ticks) == {e \in [tick : ticks, sid : {1, 2}, val : {0, 1}] : e.sid = 2 => e.val = 1}
Runs(ticks) ==
  {ch \in UNION {[1..n -> Of(ticks)] : n \in 1..MaxChanges} :
     \A i \in 1..(Len(ch) - 1) : ch[i].tick <= ch[i + 1].tick}
(* A file of the given runs of changes, the second section opening early.  *)
Cut(runs, early) ==
  [changes |-> IF Len(runs) = 1 THEN runs[1] ELSE runs[1] \o runs[2],
   sections |-> [k \in DOMAIN runs |->
     [start |-> IF k = 2 /\ early THEN 3 ELSE runs[k][1].tick,
      first |-> IF k = 1 THEN 1 ELSE Len(runs[1]) + 1,
      last |-> IF k = 1 THEN Len(runs[1]) ELSE Len(runs[1]) + Len(runs[2])]]]
MCFiles ==
  {Cut(<<a>>, FALSE) : a \in Runs({0, 1})}
  \cup {Cut(<<a, b>>, early) : a \in Runs({0, 1}), b \in Runs({4, 5}), early \in BOOLEAN}
(* The end of a window may lie before its beginning.                       *)
MCRequests == [from : 0..LastTick, to : {2, 4, LastTick, Unbounded}, slots : {{1}, {1, 2}}]
=============================================================================
