------------------------------- MODULE Paths -------------------------------
(***************************************************************************)
(* The text of a hierarchical name, and the options that select signals by *)
(* it: --scope, --depth, --filter, --exclude (select.rs, filter.rs).       *)
(*                                                                         *)
(* A text is a sequence of letters.  Sep stands for either separator ('.'  *)
(* and '/'); a declared name may itself hold one (an escaped identifier).  *)
(* A pattern is a text that may also hold Star and AnyOne.  An option that is *)
(* not given, or is all blanks, is {} (no patterns).                       *)
(***************************************************************************)
EXTENDS Integers, Sequences, FiniteSets

CONSTANTS
  Letter,  \* letters of names
  Lower,   \* their lower case
  Sep, Star, AnyOne

ASSUME PathsAssumption ==
  /\ Sep \notin Letter /\ Star \notin Letter /\ AnyOne \notin Letter
  /\ Cardinality({Sep, Star, AnyOne}) = 3
  /\ Lower \in [Letter -> Letter]
  /\ \A c \in Letter : Lower[Lower[c]] = Lower[c]

Text == Seq(Letter \cup {Sep})

lower(s) == [i \in DOMAIN s |-> IF s[i] \in Letter THEN Lower[s[i]] ELSE s[i]]

HasSep(s) == \E i \in DOMAIN s : s[i] = Sep

(* The name in a path, split off by the length of its scope, never by the  *)
(* last separator.                                                         *)
leaf_of(path, scope) ==
  IF scope # << >> /\ Len(path) > Len(scope) /\ path[Len(scope) + 1] = Sep
  THEN SubSeq(path, Len(scope) + 2, Len(path))
  ELSE path

(* split(SEPARATORS) without the empty pieces.                             *)
Segments(s) ==
  LET starts == {i \in DOMAIN s : s[i] # Sep /\ (i = 1 \/ s[i - 1] = Sep)}
      nth(k) == CHOOSE i \in starts : Cardinality({j \in starts : j < i}) = k - 1
      last(i) == CHOOSE j \in i .. Len(s) :
                   /\ \A m \in i .. j : s[m] # Sep
                   /\ j = Len(s) \/ s[j + 1] = Sep
  IN  [k \in 1 .. Cardinality(starts) |-> SubSeq(s, nth(k), last(nth(k)))]

-----------------------------------------------------------------------------

(* glob_rec, anchored at both ends.                                        *)
glob_match(p, hay) ==
  LET from[t \in 1 .. Len(p) + 1, h \in 1 .. Len(hay) + 1] ==
        CASE t > Len(p) -> h > Len(hay)
          [] t <= Len(p) /\ p[t] = Star ->
               \E k \in h .. Len(hay) + 1 : from[t + 1, k]
          [] OTHER ->
               /\ h <= Len(hay) /\ p[t] \in {AnyOne, hay[h]}
               /\ from[t + 1, h + 1]
  IN  from[1, 1]

IsWild(p) == \E i \in DOMAIN p : p[i] \in {Star, AnyOne}

HasSubstring(hay, p) ==
  \E i \in 0 .. Len(hay) - Len(p) : SubSeq(hay, i + 1, i + Len(p)) = p

(* One pattern of a Filters: with a separator it looks at the path, without*)
(* one at the leaf; free of wildcards it is a substring unless --exact.    *)
PatMatches(p, exact, path, leaf) ==
  LET hay == lower(IF HasSep(p) THEN path ELSE leaf)
  IN  IF exact \/ IsWild(p) THEN glob_match(lower(p), hay)
      ELSE HasSubstring(hay, lower(p))

matches_path_leaf(pats, exact, path, leaf) ==
  \E p \in pats : PatMatches(p, exact, path, leaf)

-----------------------------------------------------------------------------

(* A --scope value names one instance, or with a separator a run of them.  *)
ScopePatHits(p, segs, k) ==
  LET ps == Segments(p)
  IN  IF ~HasSep(p) THEN glob_match(lower(p), segs[k])
      ELSE /\ ps # << >> /\ k >= Len(ps)
           /\ \A i \in DOMAIN ps :
                glob_match(lower(ps[i]), segs[k - Len(ps) + i])

(* Values made of separators only are dropped.                             *)
ScopePats(sel) == {p \in sel.scope : Segments(p) # << >>}

(* The scope's depth at its deepest match, counted from there.             *)
structural_ok(sel, scope) ==
  LET segs == Segments(lower(scope))
      hits == {k \in DOMAIN segs : \E p \in ScopePats(sel) : ScopePatHits(p, segs, k)}
      base == CHOOSE k \in hits : \A j \in hits : j <= k
  IN  \/ ScopePats(sel) = {}
      \/ /\ hits # {}
         /\ sel.depth = 0 \/ Len(segs) - base + 1 <= sel.depth

is_all(sel) == ScopePats(sel) = {} /\ sel.filter = {} /\ sel.exclude = {}

(* Mutant of displays_alias: --exclude looks at the path where it should   *)
(* look at the leaf.                                                       *)
DisplaysByPath(sel, a) ==
  /\ structural_ok(sel, a.scope)
  /\ ~matches_path_leaf(sel.exclude, sel.exact, a.path, a.path)

(* A row `list` may print.                                                 *)
displays_alias(sel, a) ==
  /\ structural_ok(sel, a.scope)
  /\ ~matches_path_leaf(sel.exclude, sel.exact, a.path, leaf_of(a.path, a.scope))

(* An alias that clears every gate.                                        *)
keeps_alias(sel, a) ==
  /\ structural_ok(sel, a.scope)
  /\ LET leaf == leaf_of(a.path, a.scope)
     IN  /\ \/ sel.filter = {}
            \/ matches_path_leaf(sel.filter, sel.exact, a.path, leaf)
         /\ ~matches_path_leaf(sel.exclude, sel.exact, a.path, leaf)

keeps_signal(sel, info) == \E i \in DOMAIN info.aliases : keeps_alias(sel, info.aliases[i])

(* The first alias that clears them.                                       *)
matched_alias(sel, info) ==
  LET kept == {i \in DOMAIN info.aliases : keeps_alias(sel, info.aliases[i])}
  IN  info.aliases[CHOOSE i \in kept : \A j \in kept : i <= j].path

(* A name looked up inside a selection: one alias must match both.         *)
keeps_signal_matching(sel, info, p) ==
  \E i \in DOMAIN info.aliases :
    LET a == info.aliases[i]
    IN  /\ keeps_alias(sel, a)
        /\ PatMatches(p, sel.exact, a.path, leaf_of(a.path, a.scope))

has_exact_path_ci(info, p) ==
  \E i \in DOMAIN info.aliases : lower(info.aliases[i].path) = lower(p)
=============================================================================
