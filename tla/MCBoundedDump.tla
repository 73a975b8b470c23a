--------------------------- MODULE MCBoundedDump ---------------------------
(* Small instance: two signals visited in either order, traces             *)
(* with and without same-tick changes, every window, limit and backend.    *)
EXTENDS BoundedDump

CONSTANTS MaxTick, MaxLen, MaxLimit

MCDeclOrder == <<1, 0>>
MCTraces ==
  {tr \in UNION {[1..n -> 0..MaxTick] : n \in 0..MaxLen} : NonDecreasing(tr)}
MCQueries ==
  [t0 : 0..MaxTick, t1 : (0..MaxTick) \cup {Unbounded}, limit : 0..MaxLimit]
MCVisits == {v \in [1..Cardinality(Sid) -> Sid] : RowSet(v) = Sid}
=============================================================================
