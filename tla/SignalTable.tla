----------------------------- MODULE SignalTable -----------------------------
(***************************************************************************)
(* How a waveform's declarations become the signal table: the built-in WLF *)
(* and FSDB backends walk the vendor's hierarchy with its iterators (wlf/  *)
(* backend.rs, fsdb/backend.rs), the host fetches the result in two calls  *)
(* (plugin_backend.rs), and build_signal_table merges the declarations of  *)
(* one recording into one entry (model.rs).                                *)
(***************************************************************************)
EXTENDS Paths, SequencesExt, Functions

CONSTANTS
  Files,  \* hierarchies a file may hold
  Rank    \* the order of letters and Sep

(* A hierarchy: the children of each node in file order.  Node 0 is the    *)
(* root, only scopes have children, and a child is numbered after its      *)
(* parent.                                                                 *)
IsTree(f) ==
  LET nodes == {0} \cup DOMAIN f.name
  IN  /\ f.scopes \subseteq DOMAIN f.name /\ DOMAIN f.children = nodes
      /\ DOMAIN f.name \subseteq Nat \ {0} /\ IsFiniteSet(DOMAIN f.name)
      /\ \A n \in nodes :
           /\ f.children[n] \in Seq(DOMAIN f.name)
           /\ n \notin f.scopes \cup {0} => f.children[n] = << >>
           /\ \A i \in DOMAIN f.children[n] :
                /\ f.children[n][i] > n
                /\ \A m \in nodes : \A j \in DOMAIN f.children[m] :
                     f.children[m][j] = f.children[n][i] => m = n /\ j = i
      /\ \A c \in DOMAIN f.name : \E n \in nodes : \E i \in DOMAIN f.children[n] :
           f.children[n][i] = c

(* A file: the backend it goes to, its hierarchy, which nodes are scopes,  *)
(* and per node its name, recording, SYMBOL_TYPE bits or NPI kind, and     *)
(* candidate widths; of wellen, which walks its own, the variables.  A     *)
(* scope of an FSDB has a name.                                            *)
ASSUME FilesAssumption ==
  \A f \in Files :
    /\ f.format \in {"wlf", "fsdb", "wellen"}
    /\ f.format # "wellen" =>
         /\ IsTree(f)
         /\ \A n \in DOMAIN f.name : f.name[n] \in Text /\ f.data[n] \in Int
    /\ f.format = "fsdb" => \A n \in f.scopes : f.name[n] # << >>
    /\ f.format = "wellen" =>
         /\ f.vars \in Seq([full : Text, local : Text, range : Text, width : Nat, sid : Nat,
                            kind : STRING, type : STRING])

(* Letters are ordered, and Sep among them.                                *)
ASSUME RankAssumption ==
  /\ Rank \in [Letter \cup {Sep} -> Int]
  /\ \A a, b \in Letter \cup {Sep} : Rank[a] = Rank[b] => a = b

VARIABLES
  file,
  stack,      \* the calls of the walk that are under way, innermost first
  iterators,  \* vendor iterators open: nodes whose children they list
  cache,      \* decl_cache
  phase,
  decls,      \* what the host fetched
  decl_idx,   \* declarations build_signal_table has gone through
  groups,     \* groups of build_signal_table, by backend sid
  table,      \* Wave::signals
  types       \* type_counts_sorted, as a function

walkvars == <<stack, iterators, cache>>
tablevars == <<decls, decl_idx, groups, table, types>>
wavevars == <<file, walkvars, phase, tablevars>>

(* The elements of a finite set in an order, given by its pairs.           *)
InOrder(S, order) ==
  [k \in 1 .. Cardinality(S) |->
    CHOOSE x \in S : Cardinality({y \in S : <<y, x>> \in order}) = k - 1]

TextLess(a, b) ==
  \E k \in 1 .. Len(b) :
    /\ \A i \in 1 .. k - 1 : i <= Len(a) /\ a[i] = b[i]
    /\ k <= Len(a) => Rank[a[k]] < Rank[b[k]]

Join(path, name) ==
  CASE path = << >> -> name
    [] path # << >> /\ name = << >> -> path
    [] OTHER -> path \o <<Sep>> \o name

(* A call of walk or collect_scope: its node, its path, what it has yet to *)
(* visit, and whether it goes through signals or scopes (FSDB).            *)
Frame(n, path, todo, stage) == [node |-> n, path |-> path, todo |-> todo, stage |-> stage]

InitWave ==
  /\ file \in Files
  /\ stack = <<Frame(0, << >>, << >>, "enter")>>
  /\ iterators = {} /\ cache = << >> /\ phase = "walk"
  /\ decls = << >> /\ decl_idx = 0 /\ groups = << >> /\ table = << >> /\ types = << >>

Top == stack[1]
Replace(frame) == stack' = <<frame>> \o Tail(stack)
Walking(format) == phase = "walk" /\ stack # << >> /\ file.format = format

-----------------------------------------------------------------------------

(* classify_kind and classify_type, from the bits of SYMBOL_TYPE.          *)
classify_kind(bits) ==
  CASE "real" \in bits -> "Real"
    [] "event" \in bits \ {"real"} /\ "real" \notin bits -> "Event"
    [] OTHER -> "Bits"

classify_type(bits) ==
  LET order == <<"real", "event", "reg", "net", "integer", "time", "constant">>
      hit == {i \in DOMAIN order : order[i] \in bits}
      first == order[CHOOSE i \in hit : \A j \in hit : i <= j]
  IN  CASE hit = {} \/ first = "net" -> "wire"
        [] hit # {} /\ first = "constant" -> "parameter"
        [] OTHER -> first

(* signal_width: the first property of the type that gives one, else 1.    *)
signal_width(widths) ==
  LET given == {i \in DOMAIN widths : widths[i] > 0}
  IN  IF given = {} THEN 1 ELSE widths[CHOOSE i \in given : \A j \in given : i <= j]

(* leaf_to_decl: a negative archive number becomes sid 0.                  *)
leaf_to_decl(n, path, scope) ==
  [path |-> path, scope |-> scope, sid |-> IF file.data[n] < 0 THEN 0 ELSE file.data[n],
   width |-> signal_width(file.widths[n]), kind |-> classify_kind(file.bits[n]),
   type |-> classify_type(file.bits[n])]

(* walk: one iterator lists the children of a scope...                     *)
WlfOpenIterator ==
  /\ Walking("wlf") /\ Top.stage = "enter"
  /\ iterators' = iterators \cup {Top.node}
  /\ Replace([Top EXCEPT !.stage = "drain"])
  /\ UNCHANGED <<file, cache, phase, tablevars>>

(* Mutant of WlfDrain: the iterator lives on while the children are walked.*)
WlfDrainOnly ==
  /\ Walking("wlf") /\ Top.stage = "drain"
  /\ Replace([Top EXCEPT !.stage = "visit", !.todo = file.children[Top.node]])
  /\ UNCHANGED <<file, iterators, cache, phase, tablevars>>

(* ...and is drained and destroyed before any child is looked at.          *)
WlfDrain ==
  /\ Walking("wlf") /\ Top.stage = "drain"
  /\ Replace([Top EXCEPT !.stage = "visit", !.todo = file.children[Top.node]])
  /\ iterators' = iterators \ {Top.node}
  /\ UNCHANGED <<file, cache, phase, tablevars>>

(* A child with no name keeps its parent's path.                           *)
WlfVisit ==
  /\ Walking("wlf") /\ Top.stage = "visit" /\ Top.todo # << >>
  /\ LET n == Head(Top.todo)
         rest == [Top EXCEPT !.todo = Tail(Top.todo)]
         path == Join(Top.path, file.name[n])
     IN  IF n \in file.scopes
         THEN /\ stack' = <<Frame(n, path, << >>, "enter"), rest>> \o Tail(stack)
              /\ UNCHANGED cache
         ELSE /\ Replace(rest)
              /\ cache' = Append(cache, leaf_to_decl(n, path, Top.path))
  /\ UNCHANGED <<file, iterators, phase, tablevars>>

WlfReturn ==
  /\ Walking("wlf") /\ Top.stage = "visit" /\ Top.todo = << >>
  /\ stack' = Tail(stack)
  /\ UNCHANGED <<file, iterators, cache, phase, tablevars>>

-----------------------------------------------------------------------------

(* record_sig's kind, type and width.                                      *)
NpiKind(bits) ==
  CASE "real" \in bits -> <<"Real", "real">>
    [] "real" \notin bits /\ "member" \in bits -> <<"Str", "array">>
    [] bits \cap {"real", "member"} = {} /\ "string" \in bits -> <<"Str", "string">>
    [] OTHER -> <<"Bits", "wire">>

(* record_sig: NPI gives the full name; the scope is what stands before    *)
(* its last separator (split_scope_leaf).                                  *)
RecordSig(n, full) ==
  LET seps == {i \in DOMAIN full : full[i] = Sep}
      last == CHOOSE i \in seps : \A j \in seps : j <= i
      kt == NpiKind(file.bits[n])
  IN  [path |-> full, scope |-> IF seps = {} THEN << >> ELSE SubSeq(full, 1, last - 1),
       sid |-> n, kind |-> kt[1], type |-> kt[2],
       width |-> IF kt[1] = "Bits" /\ file.widths[n][1] > 0 THEN file.widths[n][1] ELSE 1]

(* The signals, or the scopes, directly in a scope.                        *)
Kids(n, wanted) ==
  LET kids == file.children[n]
      at == {i \in DOMAIN kids : (kids[i] \in file.scopes) = wanted}
      order == InOrder(at, {p \in at \X at : p[1] < p[2]})
  IN  [k \in DOMAIN order |-> kids[order[k]]]

(* build_decl_cache: the top iterator gives scopes only.                   *)
FsdbOpenTop ==
  /\ Walking("fsdb") /\ Top.stage = "enter" /\ Top.node = 0
  /\ iterators' = iterators \cup {0}
  /\ Replace([Top EXCEPT !.stage = "scopes", !.todo = Kids(0, TRUE)])
  /\ UNCHANGED <<file, cache, phase, tablevars>>

(* collect_scope: the signals of the scope...                              *)
FsdbOpenSignals ==
  /\ Walking("fsdb") /\ Top.stage = "enter" /\ Top.node # 0
  /\ iterators' = iterators \cup {Top.node}
  /\ Replace([Top EXCEPT !.stage = "signals", !.todo = Kids(Top.node, FALSE)])
  /\ UNCHANGED <<file, cache, phase, tablevars>>

(* ...those with a full name...                                            *)
FsdbSignal ==
  /\ Walking("fsdb") /\ Top.stage = "signals" /\ Top.todo # << >>
  /\ LET full == Join(Top.path, file.name[Head(Top.todo)])
     IN  cache' = IF full = << >> THEN cache
                  ELSE Append(cache, RecordSig(Head(Top.todo), full))
  /\ Replace([Top EXCEPT !.todo = Tail(Top.todo)])
  /\ UNCHANGED <<file, iterators, phase, tablevars>>

(* ...then, the signal iterator stopped and another opened, its scopes.    *)
FsdbOpenScopes ==
  /\ Walking("fsdb") /\ Top.stage = "signals" /\ Top.todo = << >>
  /\ Replace([Top EXCEPT !.stage = "scopes", !.todo = Kids(Top.node, TRUE)])
  /\ UNCHANGED <<file, iterators, cache, phase, tablevars>>

FsdbDescend ==
  /\ Walking("fsdb") /\ Top.stage = "scopes" /\ Top.todo # << >>
  /\ LET n == Head(Top.todo)
     IN  stack' = <<Frame(n, Join(Top.path, file.name[n]), << >>, "enter"),
                    [Top EXCEPT !.todo = Tail(Top.todo)]>> \o Tail(stack)
  /\ UNCHANGED <<file, iterators, cache, phase, tablevars>>

FsdbReturn ==
  /\ Walking("fsdb") /\ Top.stage = "scopes" /\ Top.todo = << >>
  /\ stack' = Tail(stack)
  /\ iterators' = iterators \ {Top.node}
  /\ UNCHANGED <<file, cache, phase, tablevars>>

(* display_and_scope: the scope is the full name without the local one; a  *)
(* vector's range is part of the path only.                                *)
WellenDecl(v) ==
  LET scope == SubSeq(v.full, 1, Len(v.full) - Len(v.local) - 1)
  IN  [path |-> IF v.width > 1 THEN v.full \o v.range ELSE v.full,
       scope |-> IF v.full = scope \o <<Sep>> \o v.local THEN scope ELSE << >>,
       sid |-> v.sid, width |-> v.width, kind |-> v.kind, type |-> v.type]

WellenVars ==
  /\ Walking("wellen")
  /\ cache' = [i \in DOMAIN file.vars |-> WellenDecl(file.vars[i])]
  /\ stack' = << >>
  /\ UNCHANGED <<file, iterators, phase, tablevars>>

-----------------------------------------------------------------------------

(* map_type_str: the host knows these types, any other is a wire.          *)
map_type_str(t) ==
  IF t \in {"wire", "reg", "real", "realtime", "event", "integer", "time",
            "parameter", "logic", "bit", "string"} THEN t ELSE "wire"

(* PluginBackend::var_decls: one call counts, another fills that much.     *)
FetchDecls ==
  /\ phase = "walk" /\ stack = << >>
  /\ decls' = [i \in DOMAIN cache |-> [cache[i] EXCEPT !.type = map_type_str(@)]]
  /\ phase' = "group"
  /\ UNCHANGED <<file, walkvars, decl_idx, groups, table, types>>

(* Mutant of Merged: the last declaration gives the order.                 *)
MergedLast(g, i) ==
  [g EXCEPT !.decl_order = i,
            !.paths = Append(@, [path |-> decls[i].path, scope |-> decls[i].scope])]

(* The earliest declaration gives the replay order, the first one met the  *)
(* width, type and kind.                                                   *)
Merged(g, i) ==
  [g EXCEPT !.decl_order = IF i < @ THEN i ELSE @,
            !.paths = Append(@, [path |-> decls[i].path, scope |-> decls[i].scope])]

(* One turn of build_signal_table's loop.                                  *)
Group ==
  /\ phase = "group" /\ decl_idx < Len(decls)
  /\ decl_idx' = decl_idx + 1
  /\ LET i == decl_idx + 1
         d == decls[i]
         new == [decl_order |-> i, width |-> d.width, kind |-> d.kind,
                 type |-> d.type, paths |-> <<[path |-> d.path, scope |-> d.scope]>>]
     IN  /\ groups' = [s \in DOMAIN groups \cup {d.sid} |->
              CASE s # d.sid -> groups[s]
                [] s = d.sid /\ s \in DOMAIN groups -> Merged(groups[s], i)
                [] OTHER -> new]
         /\ types' = [t \in DOMAIN types \cup {d.type} |->
              (IF t \in DOMAIN types THEN types[t] ELSE 0) + (IF t = d.type THEN 1 ELSE 0)]
  /\ UNCHANGED <<file, walkvars, phase, decls, table>>

(* sort_by path and dedup_by path: of the declarations of one path the     *)
(* first stays.                                                            *)
Aliases(paths) ==
  LET kept == {i \in DOMAIN paths : \A j \in 1 .. i - 1 : paths[j].path # paths[i].path}
      order == InOrder(kept, {p \in kept \X kept : TextLess(paths[p[1]].path, paths[p[2]].path)})
  IN  [k \in DOMAIN order |-> paths[order[k]]]

Info(s) ==
  [sid |-> s, decl_order |-> groups[s].decl_order, width |-> groups[s].width,
   kind |-> groups[s].kind, type |-> groups[s].type,
   aliases |-> Aliases(groups[s].paths)]

CanonicalPath(info) == info.aliases[1].path

(* The table sorted by canonical path; equal paths in any order.           *)
SortTable ==
  /\ phase = "group" /\ decl_idx = Len(decls)
  /\ \E order \in SetToSeqs(DOMAIN groups) :
       /\ \A i, j \in DOMAIN order :
            i < j => ~TextLess(CanonicalPath(Info(order[j])), CanonicalPath(Info(order[i])))
       /\ table' = [i \in DOMAIN order |-> Info(order[i])]
  /\ phase' = "ready"
  /\ UNCHANGED <<file, walkvars, decls, decl_idx, groups, types>>

WlfWalk == WlfOpenIterator \/ WlfDrain \/ WlfVisit \/ WlfReturn
FsdbWalk == FsdbOpenTop \/ FsdbOpenSignals \/ FsdbSignal \/ FsdbOpenScopes
            \/ FsdbDescend \/ FsdbReturn
Build == FetchDecls \/ Group \/ SortTable

OpenWave == WlfWalk \/ FsdbWalk \/ WellenVars \/ Build

-----------------------------------------------------------------------------

(* The walk of a WLF never has two iterators open, the walk of an FSDB one *)
(* per scope it is inside of, and when a walk is over none is left.        *)
IteratorsClosed ==
  /\ stack = << >> => iterators = {}
  /\ file.format = "wlf" => Cardinality(iterators) <= 1
  /\ file.format = "fsdb" =>
       iterators = {stack[i].node : i \in {k \in DOMAIN stack : stack[k].stage # "enter"}}

(* The leaves a backend must declare: WLF all, FSDB those inside a scope.  *)
LeavesOf(f) ==
  IF f.format = "wellen" THEN DOMAIN f.vars
  ELSE {n \in DOMAIN f.name \ f.scopes : f.format = "fsdb" => n \notin Range(f.children[0])}

(* Once the table stands there are as many declarations as leaves in the   *)
(* file, every declared path is an alias of the entry of its recording, no *)
(* entry has one path twice, and entries keep the order in which the file  *)
(* first declared them, whatever order their names sort in.                *)
TableIsComplete ==
  phase \notin {"walk", "group"} =>
    /\ Len(decls) = Cardinality(LeavesOf(file))
    /\ \A i \in DOMAIN decls :
         \E e \in DOMAIN table :
           /\ table[e].sid = decls[i].sid
           /\ \E k \in DOMAIN table[e].aliases : table[e].aliases[k].path = decls[i].path
    /\ \A e \in DOMAIN table : \A k, m \in DOMAIN table[e].aliases :
         k < m => TextLess(table[e].aliases[k].path, table[e].aliases[m].path)
    /\ \A d, e \in DOMAIN table :
         d # e => /\ table[d].sid # table[e].sid
                  /\ table[d].decl_order < table[e].decl_order =>
                       \E i \in DOMAIN decls :
                         /\ decls[i].sid = table[d].sid
                         /\ \A j \in 1 .. i : decls[j].sid # table[e].sid
=============================================================================
