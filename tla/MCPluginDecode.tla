--------------------------- MODULE MCPluginDecode ---------------------------
(* Small instance: a two-valued signal with up to three records, so that a *)
(* tick may glitch and a record repeat, and an event; full decodes and     *)
(* windows that open before, at, between and past the records.             *)
EXTENDS PluginDecode

CONSTANTS MaxTick, MaxRecords, MaxEvents

Runs(n, vals) ==
  {r \in UNION {[1..k -> [tick : 0..MaxTick, val : vals]] : k \in 0..n} : ByTick(r)}
MCFiles ==
  {[end |-> MaxTick, recs |-> <<a, b>>] : a \in Runs(MaxRecords, {0, 1}), b \in Runs(MaxEvents, {1})}
(* Files that never record the value they already have.                    *)
MCMovingFiles ==
  {f \in MCFiles : \A i \in 1..(Len(f.recs[1]) - 1) : f.recs[1][i].val # f.recs[1][i + 1].val}
MCRequests ==
  {r \in [from : {None, 0 - 1, 0, 1, MaxTick, MaxTick + 1}, to : {MaxTick - 1, Unbounded},
          sids : {<<1, 2>>}] :
     r.to = Unbounded \/ r.from # None}
=============================================================================
