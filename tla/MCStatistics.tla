---------------------------- MODULE MCStatistics ----------------------------
(* A bit, a vector of two bits and a real, in recordings of up to three    *)
(* changes (two of them at one tick in some), with short, weak and unknown *)
(* values; windows from and past tick 0, their ends written in ticks and in*)
(* picoseconds that do not fall on a tick.                                 *)
EXTENDS Statistics

MCSid == 1 .. 3
MCWidth == <<1, 2, 1>>
MCKind == <<"Bits", "Bits", "Real">>

At(tick, raw) == [tick |-> tick, raw |-> raw]

BitTraces ==
  {<< >>} \cup
  {<<At(t[1], v[1]), At(t[2], v[2]), At(t[3], v[3])>> :
     t \in {<<0, 1, 1>>, <<1, 2, 3>>, <<0, 2, 3>>},
     v \in [1 .. 3 -> {<<"0">>, <<"1">>, <<"x">>, <<"h">>}]}
VectorTraces ==
  {<<At(0, v[1]), At(2, v[2])>> :
     v \in {<<"1">>, <<"x">>, <<"1", "0">>, <<"h", "l">>, <<"z", "1">>, <<"1", "x">>,
            <<"0", "0", "1">>, <<"1", "0", "1">>} \X {<<"1">>, <<"0", "1">>, <<"x", "1">>, <<"x", "x">>}}

One == <<At(2, <<"r">>)>>
MCRecordings ==
  {[s \in MCSid |-> IF s = 1 THEN b ELSE IF s = 2 THEN << >> ELSE One] : b \in BitTraces}
  \cup {[s \in MCSid |-> IF s = 2 THEN v ELSE << >>] : v \in VectorTraces}

Time(num, unit) ==
  [minus |-> FALSE, num |-> num, den |-> 1, point |-> FALSE, underscores |-> FALSE,
   unit |-> unit]

MCNoTime == Time(0, "none")
MCTimes == {Time(0, ""), Time(1, ""), Time(2, ""), Time(1, "ps"), Time(3, "ps"), Time(5, "ps")}
Odd == {[Time(1, "") EXCEPT !.point = TRUE], [Time(1, "") EXCEPT !.minus = TRUE],
        [Time(1, "ps") EXCEPT !.underscores = TRUE], Time(9, "")}

MCCommands ==
  {[cmd |-> c, begin |-> b, end |-> e, sel |-> sel] :
     c \in {"summary", "compare"}, b \in MCTimes, e \in MCTimes, sel \in {{1, 2}, {2, 3}}}
  \cup {[cmd |-> "summary", begin |-> b, end |-> MCNoTime, sel |-> {1, 2}] :
          b \in Odd \cup {Time(1, ""), Time(4, ""), MCNoTime}}
  \cup {[cmd |-> "snapshot", begin |-> MCNoTime, end |-> e, sel |-> {1, 2, 3}] : e \in MCTimes}
=============================================================================
