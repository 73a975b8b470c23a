------------------------------- MODULE Listing -------------------------------
(***************************************************************************)
(* The commands that answer from the signal table alone: list, tree, info, *)
(* the selection every value command makes, and the lookup of one signal   *)
(* by name (commands/list.rs, tree.rs, info.rs, common.rs, search.rs).     *)
(***************************************************************************)
EXTENDS SignalTable

CONSTANTS
  Queries,  \* parsed command lines
  Unbounded \* a --depth no hierarchy reaches

VARIABLES query, answer

vars == <<wavevars, query, answer>>

Pairs(info) == {info.aliases[i] : i \in DOMAIN info.aliases}
AllPairs == UNION {Pairs(table[e]) : e \in DOMAIN table}

(* clip_len.                                                               *)
Clip(rows, limit) ==
  [shown |-> IF limit = 0 \/ Len(rows) <= limit THEN rows ELSE SubSeq(rows, 1, limit),
   total |-> Len(rows), truncated |-> limit # 0 /\ Len(rows) > limit]

-----------------------------------------------------------------------------

(* match_selection: the entries a value command works on.                  *)
Selected(sel) == {e \in DOMAIN table : is_all(sel) \/ keeps_signal(sel, table[e])}

(* match_report: through which name each was selected.                     *)
MatchReport(sel) ==
  IF is_all(sel) THEN {}
  ELSE {<<matched_alias(sel, table[e]), CanonicalPath(table[e])>> : e \in Selected(sel)}

(* list_entries: a row per alias the options do not rule out.              *)
ListRows(sel) ==
  LET shown(e) == {k \in DOMAIN table[e].aliases :
                     is_all(sel) \/ displays_alias(sel, table[e].aliases[k])}
      rows == UNION {{<<table[e].aliases[k].path, e, k>> : k \in shown(e)} : e \in Selected(sel)}
  IN  InOrder(rows, {p \in rows \X rows :
        TextLess(p[1][1], p[2][1]) \/ (p[1][1] = p[2][1] /\ p[1][2] < p[2][2])})

(* info: the scopes that hold a signal, and how many declarations.         *)
InfoAnswer ==
  [signal_count |-> Len(table), reference_count |-> Len(decls), types |-> types,
   scopes |-> {a.scope : a \in AllPairs} \ {<< >>}]

-----------------------------------------------------------------------------

(* prefixes: a separator in front opens no scope.                          *)
prefixes(scope) ==
  {SubSeq(scope, 1, i - 1) : i \in {j \in 2 .. Len(scope) : scope[j] = Sep}} \cup {scope}

(* parent_of; << >> when there is none.                                    *)
parent_of(path) ==
  LET seps == {i \in DOMAIN path : path[i] = Sep}
      last == CHOOSE i \in seps : \A j \in seps : j <= i
  IN  IF seps = {} \/ last = 1 THEN << >> ELSE SubSeq(path, 1, last - 1)

(* Mutant of IndexAlias: ancestors without signals of their own are missed.*)
IndexAliasOnly(scopes, scope) ==
  [p \in DOMAIN scopes \cup {scope} |->
    (IF p \in DOMAIN scopes THEN scopes[p] ELSE 0) + (IF p = scope THEN 1 ELSE 0)]

(* Index::build: one more alias in a scope; its ancestors are entered the  *)
(* first time the scope is met.                                            *)
IndexAlias(scopes, scope) ==
  IF scope \in DOMAIN scopes
  THEN [scopes EXCEPT ![scope] = @ + 1]
  ELSE [p \in DOMAIN scopes \cup prefixes(scope) |->
         (IF p \in DOMAIN scopes THEN scopes[p] ELSE 0) + (IF p = scope THEN 1 ELSE 0)]

AliasScopes ==
  FlattenSeq([e \in DOMAIN table |->
    [k \in DOMAIN table[e].aliases |-> table[e].aliases[k].scope]])

Scopes == FoldLeft(IndexAlias, [p \in {} |-> 0], SelectSeq(AliasScopes, LAMBDA s : s # << >>))

RootSignals == Len(SelectSeq(AliasScopes, LAMBDA s : s = << >>))

SortedTexts(S) == SetToSortSeq(S, TextLess)

Node(scopes, path, level) ==
  [path |-> path, level |-> level, signals |-> scopes[path],
   children |-> Cardinality({p \in DOMAIN scopes : parent_of(p) = path})]

(* walk: a scope, then its children one level further.                     *)
WalkTree(scopes, root, depth) ==
  LET walk[p \in DOMAIN scopes, level \in 0 .. Unbounded] ==
        LET kids == SortedTexts({q \in DOMAIN scopes : parent_of(q) = p})
        IN  <<Node(scopes, p, level)>>
            \o IF level >= depth THEN << >>
               ELSE FlattenSeq([i \in DOMAIN kids |-> walk[kids[i], level + 1]])
  IN  walk[root, 0]

(* roots: every matching scope whose parent does not match.                *)
TreeRoots(scopes, pats) ==
  LET sel == [scope |-> pats, depth |-> 0]
      matched(s) == structural_ok(sel, s)
  IN  SortedTexts(
        IF pats = {} THEN {p \in DOMAIN scopes : parent_of(p) = << >>}
        ELSE {p \in DOMAIN scopes :
                matched(p) /\ ~(parent_of(p) # << >> /\ matched(parent_of(p)))})

(* build: depth 1 unless given; a target wins over --scope.                *)
TreeRows(pats, depth) ==
  LET scopes == Scopes
      roots == TreeRoots(scopes, pats)
  IN  FlattenSeq([i \in DOMAIN roots |->
        WalkTree(scopes, roots[i], IF depth = 0 THEN 1 ELSE depth)])

(* --of: the ancestors of a signal, top down.                              *)
ChainRows(scope) ==
  LET scopes == Scopes
      chain == SetToSortSeq(prefixes(scope), LAMBDA a, b : Len(a) < Len(b))
  IN  IF scope = << >> THEN << >>
      ELSE [i \in DOMAIN chain |-> Node(scopes, chain[i], i - 1)]

-----------------------------------------------------------------------------

Found(what) == [ok |-> TRUE, found |-> what]
NotFound == [ok |-> FALSE, found |-> {}]
Unique(S) == IF Cardinality(S) = 1 THEN Found(CHOOSE x \in S : TRUE) ELSE NotFound

(* resolve_signal_path (tree --of, trace): the one alias spelled exactly,  *)
(* else the one alias the pattern matches.                                 *)
resolve_signal_path(p) ==
  LET exact == {a \in AllPairs : lower(a.path) = lower(p)}
  IN  IF Cardinality(exact) = 1 THEN Unique(exact)
      ELSE Unique({a \in AllPairs : PatMatches(p, FALSE, a.path, leaf_of(a.path, a.scope))})

(* Mutant of resolve_one_signal: a full path is looked up in the selection.*)
ResolveInSelection(sel, p) ==
  LET exact == IF IsWild(p) THEN {}
               ELSE {e \in Selected(sel) : has_exact_path_ci(table[e], p)}
  IN  IF exact # {} THEN Unique(exact)
      ELSE Unique({e \in DOMAIN table : keeps_signal_matching(sel, table[e], p)})

(* resolve_one_signal (search): the one entry with an alias spelled        *)
(* exactly, wherever it is; else the one the pattern matches in the        *)
(* selection.                                                              *)
resolve_one_signal(sel, p) ==
  LET exact == IF IsWild(p) THEN {} ELSE {e \in DOMAIN table : has_exact_path_ci(table[e], p)}
  IN  IF exact # {} THEN Unique(exact)
      ELSE Unique({e \in DOMAIN table : keeps_signal_matching(sel, table[e], p)})

(* resolve_show_sids: every match counts, and each pattern must have one.  *)
resolve_show_sids(sel, pats) ==
  LET exact(p) == IF IsWild(p) THEN {} ELSE {e \in DOMAIN table : has_exact_path_ci(table[e], p)}
      matched(p) == IF exact(p) # {} THEN exact(p)
                    ELSE {e \in DOMAIN table : keeps_signal_matching(sel, table[e], p)}
  IN  IF \E p \in pats : matched(p) = {} THEN NotFound
      ELSE Found(UNION {matched(p) : p \in pats})

Ask(cmd, result(_)) ==
  /\ phase = "ready"
  /\ \E q \in {x \in Queries : x.cmd = cmd} : query' = q /\ answer' = result(q)
  /\ phase' = "answered"
  /\ UNCHANGED <<file, walkvars, tablevars>>

AskList == Ask("list", LAMBDA q : Clip(ListRows(q.sel), q.limit))
AskTree ==  \* a --scope that matches no scope is an error, an empty table is not
  Ask("tree", LAMBDA q :
        IF q.sel.scope # {} /\ TreeRoots(Scopes, q.sel.scope) = << >> THEN NotFound
        ELSE Found(Clip(TreeRows(q.sel.scope, q.sel.depth), q.limit)))
AskInfo == Ask("info", LAMBDA q : InfoAnswer)
AskSelect ==
  Ask("select", LAMBDA q : [sids |-> Selected(q.sel), matched |-> MatchReport(q.sel)])
AskChain ==
  Ask("of", LAMBDA q : LET r == resolve_signal_path(q.name)
                       IN  IF r.ok THEN Found(ChainRows(r.found.scope)) ELSE NotFound)
AskName == Ask("search", LAMBDA q : resolve_one_signal(q.sel, q.name))
AskShow == Ask("show", LAMBDA q : resolve_show_sids(q.sel, {q.name}))

Init == InitWave /\ query = << >> /\ answer = << >>

Next ==
  \/ OpenWave /\ UNCHANGED <<query, answer>>
  \/ AskList \/ AskTree \/ AskInfo \/ AskSelect \/ AskChain \/ AskName \/ AskShow

Spec == Init /\ [][Next]_vars

-----------------------------------------------------------------------------

Answered(cmd) == phase = "answered" /\ query.cmd = cmd

(* `list` and the value commands agree on what the same options select:    *)
(* every selected signal has a row, every row is of a selected signal, and *)
(* the report names each through an alias `list` shows too.                *)
ListShowsTheSelection ==
  Answered("select") =>
    LET rows == ListRows(query.sel)
    IN  /\ {rows[i][2] : i \in DOMAIN rows} = answer.sids
        /\ \A m \in answer.matched : \E i \in DOMAIN rows :
             rows[i][1] = m[1] /\ CanonicalPath(table[rows[i][2]]) = m[2]
        /\ Cardinality({m[2] : m \in answer.matched}) <= Cardinality(answer.sids)

(* `tree` without a bound on its depth shows each scope once under its     *)
(* parent, in the scopes `list` prints rows of for the same --scope, and   *)
(* its counts add up to those rows (none when the scope matches nothing).  *)
TreeAgreesWithList ==
  Answered("tree") /\ query.sel.depth = Unbounded /\ query.limit = 0 =>
    LET nodes == IF answer.ok THEN answer.found.shown ELSE << >>
        rows == ListRows(query.sel)
        atRoot == IF ScopePats(query.sel) = {} THEN RootSignals ELSE 0
    IN  /\ \A i, j \in DOMAIN nodes : nodes[i].path = nodes[j].path => i = j
        /\ \A i \in DOMAIN nodes : nodes[i].level > 0 =>
             \E j \in 1 .. i - 1 : /\ nodes[j].path = parent_of(nodes[i].path)
                                   /\ nodes[j].level = nodes[i].level - 1
        /\ Len(rows) = atRoot + FoldLeft(LAMBDA n, x : n + x.signals, 0, nodes)
        /\ \A i \in DOMAIN rows :
             LET a == table[rows[i][2]].aliases[rows[i][3]]
             IN  a.scope # << >> => \E j \in DOMAIN nodes : nodes[j].path = a.scope

(* `info` describes the table the other commands answer from: a signal per *)
(* entry, however many names it has; no more declarations listed than it   *)
(* counts by type; and the scopes it names are those `tree` finds signals  *)
(* directly in.                                                            *)
InfoAgreesWithList ==
  Answered("info") =>
    LET rows == ListRows(query.sel)
    IN  /\ answer.signal_count = Cardinality({rows[i][2] : i \in DOMAIN rows})
        /\ answer.reference_count = FoldFunction(LAMBDA n, m : n + m, 0, answer.types)
        /\ Len(rows) <= answer.reference_count
        /\ answer.scopes = {p \in DOMAIN Scopes : Scopes[p] > 0}

(* What `tree` and `info` count, `list` shows (commands/tree.rs, info.rs). *)
SummariesAgreeWithList == TreeAgreesWithList /\ InfoAgreesWithList

(* A name `search` resolves with no options is the signal `tree --of` and  *)
(* `trace` resolve it to, if they do; a path spelled in full that belongs  *)
(* to one signal is found whatever the selection; and what the pattern     *)
(* finds lies inside it.                                                   *)
NamesMeanOneSignal ==
  Answered("search") =>
    LET other == resolve_signal_path(query.name)
        exact == {e \in DOMAIN table : has_exact_path_ci(table[e], query.name)}
    IN  /\ (is_all(query.sel) /\ ~query.sel.exact /\ answer.ok /\ other.ok) =>
             other.found \in Pairs(table[answer.found])
        /\ Cardinality(exact) = 1 => answer.ok /\ answer.found \in exact
        /\ (answer.ok /\ exact = {}) => answer.found \in Selected(query.sel)
=============================================================================
