------------------------------ MODULE MCSearch ------------------------------
(* Small instance: files of changes of two signals, the second an event,   *)
(* either long or over many ticks; clauses of levels, of transitions and   *)
(* of both, written twice and under two names; lines the setup refuses.    *)
EXTENDS Search, TLC

CONSTANTS MaxTick, MaxLimit

MCFound == "a" :> {1} @@ "also a" :> {1} @@ "b" :> {2} @@ "any" :> {1, 2} @@ "gone" :> {}
MCAccepts == "=0" :> {0} @@ "=1" :> {1} @@ "!=x" :> {0, 1} @@ "=b?" :> {0, 1}

FilesOf(len, tick) ==
  {st \in UNION {[1..n -> [tick : 0..tick, sid : Sid, val : Value]] : n \in 0..len} :
     \A i \in 1..(Len(st) - 1) :
       \/ st[i].tick < st[i + 1].tick
       \/ st[i].tick = st[i + 1].tick /\ st[i].sid <= st[i + 1].sid}
MCFiles == FilesOf(3, MaxTick) \cup FilesOf(4, 1)

Level(name, text) == [name |-> name, changed |-> FALSE, text |-> text]
Edge(name) == [name |-> name, changed |-> TRUE, text |-> "=0"]

LevelLines ==
  {<< <<Level("a", "=1")>>, <<Level("b", "=1")>> >>,
   << <<Level("a", "=1"), Level("b", "!=x"), Level("also a", "=1")>> >>,
   << <<Level("a", "=0")>>, <<Level("also a", "=1")>> >>}
EdgeLines ==
  {<< <<Edge("a")>>, <<Edge("b")>> >>,
   << <<Edge("a"), Edge("b")>> >>,
   << <<Edge("also a"), Level("b", "=1")>>, <<Level("b", "=1"), Edge("a")>> >>}
RefusedLines ==
  {<< >>, << <<Edge("a")>>, <<Level("b", "=1")>> >>, << <<Level("any", "=1")>> >>,
   << <<Level("gone", "=1")>> >>, << <<Level("b", "=b?")>> >>}

Windows ==
  {<<0, 0>>, <<0, 1>>, <<0, MaxTick>>, <<1, 1>>, <<1, 2>>, <<1, None>>, <<2, MaxTick>>}
Line(cond, show, w, limit) ==
  [condition |-> cond, show |-> show, begin |-> w[1], end |-> w[2], limit |-> limit]
MCLines ==
  {Line(c, s, w, n) : c \in LevelLines, s \in {{}, {"b"}}, w \in Windows, n \in 0..MaxLimit}
  \cup {Line(c, {}, w, n) : c \in EdgeLines, w \in Windows, n \in 0..MaxLimit}
  \cup {Line(c, {}, <<0, MaxTick>>, 0) : c \in RefusedLines}
  \cup {Line(<< <<Level("a", "=b?")>> >>, {"any"}, <<0, MaxTick>>, 0),
        Line(<< <<Edge("a")>> >>, {"b"}, <<0, MaxTick>>, 0),
        Line(<< <<Level("a", "=1")>> >>, {"gone"}, <<0, MaxTick>>, 0),
        Line(<< <<Level("a", "=1")>> >>, {}, <<MaxTick, 0>>, 0)}
=============================================================================
