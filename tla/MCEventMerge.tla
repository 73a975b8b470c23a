---------------------------- MODULE MCEventMerge ----------------------------
(* Small instance: three signals whose declaration order is not their path *)
(* order, traces with same-tick changes, every window and limit.           *)
EXTENDS EventMerge

CONSTANTS MaxTick, MaxLen, MaxLimit

MCSid == 1..3
MCDeclOrder == <<2, 0, 1>>
MCTraces ==
  {tr \in UNION {[1..n -> 0..MaxTick] : n \in 0..MaxLen} : NonDecreasing(tr)}
MCQueries ==
  [t0 : 0..MaxTick, t1 : (0..MaxTick) \cup {Unbounded}, limit : 0..MaxLimit]
=============================================================================
