------------------------------ MODULE MCListing ------------------------------
(* Scopes u, u.a and u.a.u (the same instance name at two depths) and three*)
(* leaves placed and named in every way of interest: at the root, aliases  *)
(* of one recording, names that differ in case only, an escaped identifier *)
(* whose path another declaration has too, and a leaf without a name.      *)
EXTENDS Listing

MCLetter == {"a", "u", "x", "X"}
MCLower == [c \in MCLetter |-> IF c = "X" THEN "x" ELSE c]
MCRank == [c \in {".", "a", "u", "x", "X"} |->
  CASE c = "." -> 1 [] c = "X" -> 2 [] c = "a" -> 3 [] c = "u" -> 4 [] OTHER -> 5]

ScopeName == <<<<"u">>, <<"a">>, <<"u">>>>

File(format, parents, second, data) ==
  LET parent == <<0, 1, 2>> \o parents
  IN  [format |-> format, scopes |-> 1 .. 3,
       children |-> [n \in 0 .. 6 |->
         SetToSortSeq({k \in 1 .. 6 : parent[k] = n}, LAMBDA i, j : i < j)],
       name |-> ScopeName \o <<<<"x">>, second, <<"a">>>>,
       data |-> <<0, 0, 0>> \o data,
       bits |-> [n \in 1 .. 6 |-> IF n = 6 THEN {"real"} ELSE {"reg", "member"}],
       widths |-> [n \in 1 .. 6 |-> IF n = 5 THEN <<0, 2, 4>> ELSE <<1, 0, 0>>],
       vars |-> << >>]

Var(full, local, width, sid) ==
  [full |-> full, local |-> local, width |-> width, range |-> <<"a">>, sid |-> sid,
   kind |-> "Bits", type |-> "wire"]

NoNodes == [File("wlf", <<0, 0, 0>>, <<"x">>, <<0, 0, 0>>)
  EXCEPT !.format = "wellen", !.children = [n \in 0 .. 6 |-> << >>]]

MCFiles ==
  {File("wlf", <<p, q, r>>, s, d) :
     p \in {0, 3}, q \in {0, 1, 2}, r \in {2, 3},
     s \in {<<"x">>, <<"X">>, <<"a", ".", "x">>, << >>},
     d \in {<<2, 1, 0>>, <<1, 1, 0>>, <<0, -1, 1>>}}
  \cup {File("fsdb", <<p, q, r>>, s, <<0, 0, 0>>) :
     p \in {0, 3}, q \in {1, 2}, r \in {2, 3}, s \in {<<"X">>, <<"a", ".", "x">>}}
  \cup {[NoNodes EXCEPT !.vars = <<Var(<<"x">>, <<"x">>, 1, 0),
           Var(<<"u", ".", "a", ".", "x">>, v, 2, 0),
           Var(<<"u", ".", "X">>, <<"X">>, 1, 1)>>] :
         v \in {<<"x">>, <<"a", ".", "x">>}}

Sel(scope, depth, filter, exclude, exact) ==
  [scope |-> scope, depth |-> depth, filter |-> filter, exclude |-> exclude, exact |-> exact]

U == <<"u">>
AU == <<"a", ".", "u">>
ScopeOptions == {{}, {U}, {AU}, {<<"u", "*">>, <<"a">>}, {<<".">>}}
NamePatterns == {<<"x">>, <<"a">>, <<"*", "x">>, <<"a", ".">>, <<"u", ".", "*">>}

Selections ==
  {s \in {Sel(sc, d, f, x, e) : sc \in ScopeOptions, d \in 0 .. 2,
            f \in {{}, {<<"x">>}, {<<"a", ".">>}}, x \in {{}, {<<"a">>}, {<<"*", ".", "X">>}},
            e \in BOOLEAN} :
     /\ s.depth > 0 => s.scope \in {{U}, {AU}}
     /\ s.exact => s.depth = 0}

All == Sel({}, 0, {}, {}, FALSE)
Query(cmd, sel, limit, name) == [cmd |-> cmd, sel |-> sel, limit |-> limit, name |-> name]

MCQueries ==
  {Query("select", s, 0, << >>) : s \in Selections}
  \cup {Query("list", All, n, << >>) : n \in 0 .. 2}
  \cup {Query("tree", Sel(sc, d, {}, {}, FALSE), n, << >>) :
          sc \in ScopeOptions, d \in {0, 2, 4}, n \in {0, 1}}
  \cup {Query("info", All, 0, << >>)}
  \cup {Query("of", All, 0, n) : n \in NamePatterns}
  \cup {Query("search", s, 0, n) :
          s \in {All, Sel({AU}, 0, {}, {}, FALSE), Sel({}, 0, {}, {<<"a">>}, FALSE)},
          n \in NamePatterns \cup {<<"u", ".", "x">>, <<"u", ".", "a", ".", "x">>}}
  \cup {Query("show", All, 0, n) : n \in NamePatterns}
=============================================================================
