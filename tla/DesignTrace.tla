----------------------------- MODULE DesignTrace -----------------------------
(***************************************************************************)
(* The `trace` lines of a session over one FSDB (commands/trace.rs,        *)
(* backend/design.rs, plugin/builtin/fsdb/design.rs, npi_design_sys.rs,    *)
(* npi_dump.rs): which design database a line is answered from, whether it *)
(* is loaded, and what is made of the text the vendor's walk writes.       *)
(*                                                                         *)
(* NPI, the vendor's library, holds one design per process; a failed load  *)
(* discards it.  What the walk reports of a signal is arbitrary.           *)
(***************************************************************************)
EXTENDS Integers, Sequences, FiniteSets, SequencesExt

CONSTANTS
  Elab,       \* path |-> the path of the kdb.elab++ in it
  Databases,  \* paths that are an existing kdb.elab++
  WorkLibs,   \* paths that hold a work.lib++
  Unspeakable,\* paths that cannot be passed to C
  InDesign,   \* <<database, top, name>>: name resolves in that design
  Settings,   \* values of RWAVE_TRACE_EN
  Recordings, \* what simvDaidirPath may say, "" for nothing
  Texts,      \* scopes, object types and names
  Dumps,      \* what the walk may report, as groups
  Table,      \* the signal table: for each sid its paths
  Lower,      \* a path in lower case
  Full,       \* target |-> the path it resolves to, or ""
  Values,     \* <<sid, tick>> |-> a value, where there is one
  Commands    \* trace lines: target, kdb, top, at (a set of at most one
              \* tick), malformed (its --at is no time), control, limit

Groups ==
  [scope : Texts, legible : BOOLEAN, through : BOOLEAN,
   stmts : Seq([ty : Texts, operands : Seq(Texts \X Texts)])]

ASSUME TextsAssumption == "" \in Texts
ASSUME DumpsAssumption == \A gs \in Dumps : gs \in Seq(Groups)
ASSUME TableAssumption == Table \in Seq(Seq(Texts))
ASSUME CommandsAssumption == \A c \in Commands : c.limit \in Nat

VARIABLES
  setting, recorded,
  symbols,  \* design_syms: "none", "old" (no npi_waveform_info), "all"
  l1,       \* whether libnpiL1 loads
  builtin,  \* whether the file is open through the NPI backend
  held,     \* the design NPI holds
  loaded,   \* DesignSession::loaded
  line, step, path, kdb,
  groups,   \* what the walk reported
  hops, reply

environment == <<setting, recorded, symbols, l1, builtin>>
vars == <<environment, held, loaded, line, step, path, kdb, groups, hops, reply>>

NoDesign == << >>
NoLine == [target |-> "none"]
NoReply == [kind |-> "none"]
Refused(why) == [kind |-> "refused", why |-> why]

-----------------------------------------------------------------------------
(* Which database: --kdb, taken literally, or what the file records.       *)

enabled(v) == v \notin {"0", "off", "no", "false"}

(* Optional texts: "none" is not given, "" blank, which counts as none.    *)
Blank(text) == text \in {"none", ""}

normalize_kdb(p) ==
  CASE p \in Databases       -> [ok |-> TRUE, kdb |-> p]
    [] Elab[p] \in Databases -> [ok |-> TRUE, kdb |-> Elab[p]]
    [] p \in WorkLibs        -> [ok |-> FALSE, why |-> "NotElaborated"]
    [] OTHER                 -> [ok |-> FALSE, why |-> "NotRecorded"]

Renamed(r, why) == IF ~r.ok /\ r.why = "NotRecorded" THEN [r EXCEPT !.why = why] ELSE r

(* The recorded database stands in for a --kdb that holds none.            *)
probe_kdb_forgiving(cli, rec) ==
  IF ~Blank(cli) /\ (normalize_kdb(cli).ok \/ Blank(rec))
  THEN Renamed(normalize_kdb(cli), "ExplicitMissing")
  ELSE IF Blank(rec) THEN [ok |-> FALSE, why |-> "NotRecorded"]
  ELSE Renamed(normalize_kdb(rec), "RecordedGone")

probe_kdb(cli, rec) ==
  CASE ~Blank(cli) -> Renamed(normalize_kdb(cli), "ExplicitMissing")
    [] Blank(rec)  -> [ok |-> FALSE, why |-> "NotRecorded"]
    [] OTHER       -> Renamed(normalize_kdb(rec), "RecordedGone")

recorded_design_dir == IF symbols = "all" THEN recorded ELSE ""

TopArg(top) == IF Blank(top) THEN "none" ELSE top

-----------------------------------------------------------------------------
(* The text of the walk, line by line.                                     *)

kind_of(npi_type) ==
  CASE npi_type = "npiContAssign"                           -> "ContAssign"
    [] npi_type \in {"npiAssignment", "npiAssignStmt"}      -> "Procedural"
    [] npi_type \in {"npiPort", "npiMpPort", "npiInstPort"} -> "Port"
    [] npi_type \in {"npiIf", "npiIfElse", "npiCase", "npiCaseItem", "npiWhile",
                     "npiDoWhile", "npiRepeat", "npiForever", "npiFor", "npiWait",
                     "npiEventControl"}                     -> "Control"
    [] npi_type \in {"npiConstant", "npiEnumConst", "npiParameter"} -> "Constant"
    [] OTHER                                                -> "Other"

Header(n, scope, ok) == [is |-> "header", n |-> n, scope |-> scope, ok |-> ok]
Through == [is |-> "through"]
Remark == [is |-> "remark"]
Statement(ty) == [is |-> "statement", ty |-> ty]
Operand(ty, name) == [is |-> "operand", ty |-> ty, name |-> name]

Parser == [hops |-> << >>, group |-> 0, scope |-> "", boundary |-> FALSE]

(* The group of a header that does not parse.                              *)
OnHeader(p, l) ==
  [p EXCEPT !.group = IF l.ok THEN l.n ELSE @ + 1,
            !.scope = IF l.ok THEN l.scope ELSE "",
            !.boundary = FALSE]

OnStatement(p, l) ==
  [p EXCEPT !.hops = Append(@, [group |-> p.group, kind |-> kind_of(l.ty), scope |-> p.scope,
                                boundary |-> p.boundary, signals |-> << >>])]

(* What parse_record takes for a type in a line that is no record: its     *)
(* text up to a comma, which does not start with npi.                      *)
NoType == {"", "text"}

OnOperand(p, l) ==
  IF p.hops # << >> /\ l.ty \notin NoType /\ l.name # "" /\ kind_of(l.ty) # "Constant"
  THEN [p EXCEPT !.hops[Len(p.hops)].signals = Append(@, l.name)]
  ELSE p

(* The pass-through mark of a group is kept for the next.                  *)
ParseLineKeepsMark(p, l) ==
  CASE l.is = "header"    -> [OnHeader(p, l) EXCEPT !.boundary = p.boundary]
    [] l.is = "through"   -> [p EXCEPT !.boundary = TRUE]
    [] l.is = "statement" -> OnStatement(p, l)
    [] l.is = "operand"   -> OnOperand(p, l)
    [] OTHER              -> p
ParseLine(p, l) ==
  CASE l.is = "header"    -> OnHeader(p, l)
    [] l.is = "through"   -> [p EXCEPT !.boundary = TRUE]
    [] l.is = "statement" -> OnStatement(p, l)
    [] l.is = "operand"   -> OnOperand(p, l)
    [] OTHER              -> p

Parsed(p, text) ==
  LET after[i \in 0 .. Len(text)] == IF i = 0 THEN p ELSE ParseLine(after[i - 1], text[i])
  IN  after[Len(text)]

parse_dump(text) == Parsed(Parser, text).hops

classify(hs) ==
  LET structural == {i \in DOMAIN hs : hs[i].kind # "Control"}
  IN  IF structural = {} THEN "NotFound"
      ELSE IF \A i \in structural : hs[i].kind = "Port" THEN "BoundaryOnly" ELSE "Resolved"

Joined(texts) ==
  LET upto[i \in 0 .. Len(texts)] == IF i = 0 THEN << >> ELSE upto[i - 1] \o texts[i]
  IN  upto[Len(texts)]

(* What a sequence holds at some of its places.                            *)
Chosen(s, places) ==
  LET upto[i \in 0 .. Len(s)] ==
        IF i = 0 THEN << >> ELSE IF i \in places THEN Append(upto[i - 1], s[i]) ELSE upto[i - 1]
  IN  upto[Len(s)]

(* What the walk leaves out unless control dependencies are asked for, and *)
(* how it writes the rest: groups numbered from 1, each a header, a mark   *)
(* for groups reached through a port, and statements with their operands.  *)
Reported(gs, control) ==
  IF control THEN gs
  ELSE [i \in DOMAIN gs |-> [gs[i] EXCEPT !.stmts =
          Chosen(@, {j \in DOMAIN @ : kind_of(@[j].ty) # "Control"})]]

StatementWritten(s) ==
  <<Statement(s.ty)>> \o [k \in DOMAIN s.operands |-> Operand(s.operands[k][1], s.operands[k][2])]

GroupWritten(i, g) ==
  <<Header(i, g.scope, g.legible), IF g.through THEN Through ELSE Remark>>
  \o Joined([j \in DOMAIN g.stmts |-> StatementWritten(g.stmts[j])])

Written(gs) == <<Remark>> \o Joined([i \in DOMAIN gs |-> GroupWritten(i, gs[i])])

-----------------------------------------------------------------------------
(* The endpoints' signals in the waveform.                                 *)

Sids == DOMAIN Table
PathsOf(sid) == {Table[sid][i] : i \in DOMAIN Table[sid]}

Exact(name) == {sid \in Sids : name \in PathsOf(sid)}
Folded(name) == {sid \in Sids : \E p \in PathsOf(sid) : Lower[p] = Lower[name]}
First(S) == CHOOSE sid \in S : \A other \in S : sid <= other

(* 0 for none.                                                             *)
endpoint_index_first(name) == IF Folded(name) = {} THEN 0 ELSE First(Folded(name))
endpoint_index(name) ==
  IF Exact(name) # {} THEN First(Exact(name))
  ELSE IF Cardinality(Folded(name)) = 1 THEN First(Folded(name)) ELSE 0

Clip(hs, limit) == IF limit = 0 \/ Len(hs) <= limit THEN hs ELSE SubSeq(hs, 1, limit)

Wanted(hs) == UNION {{hs[i].signals[j] : j \in DOMAIN hs[i].signals} : i \in DOMAIN hs}

Annotated(hs, at) ==
  LET known == {n \in Wanted(hs) : endpoint_index(n) # 0
                                   /\ <<endpoint_index(n), at>> \in DOMAIN Values}
  IN  [values |-> [n \in known |-> Values[<<endpoint_index(n), at>>]],
       unresolved |-> Cardinality({n \in Wanted(hs) : endpoint_index(n) = 0})]

-----------------------------------------------------------------------------

Init ==
  /\ setting \in Settings /\ recorded \in Recordings
  /\ symbols \in {"none", "old", "all"} /\ l1 \in BOOLEAN /\ builtin \in BOOLEAN
  /\ held = NoDesign /\ loaded = NoDesign
  /\ line = NoLine /\ step = "idle" /\ path = "" /\ kdb = ""
  /\ groups = << >> /\ hops = << >> /\ reply = NoReply

Go(s) == step' = s /\ reply' = NoReply
Answer(r) == step' = "answered" /\ reply' = r

Begin(c) ==
  /\ step = "idle"
  /\ line' = c
  /\ path' = Full[c.target]
  /\ CASE ~enabled(setting)     -> Answer(Refused("disabled"))
       [] c.malformed          -> Answer(Refused("time"))
       [] ~builtin              -> Answer(Refused("unsupported"))
       [] Full[c.target] = ""   -> Answer(Refused("name"))
       [] OTHER                 -> Go("probe")
  /\ UNCHANGED <<environment, held, loaded, kdb, groups, hops>>

Probe ==
  /\ step = "probe"
  /\ LET r == probe_kdb(line.kdb, recorded_design_dir)
     IN  IF r.ok THEN kdb' = r.kdb /\ Go("ensure")
         ELSE kdb' = kdb /\ Answer(Refused(r.why))
  /\ UNCHANGED <<environment, held, loaded, line, path, groups, hops>>

(* ensure_design up to the call: the symbols, libnpiL1, and load_design's  *)
(* comparison with what is loaded.                                         *)
Want == <<kdb, line.top>>

(* The record outlives a failed load.                                      *)
BeforeLoadingKept == loaded
BeforeLoading == NoDesign

EnsureDesign ==
  /\ step = "ensure"
  /\ \/ /\ symbols = "none" \/ ~l1
        /\ Answer(Refused("library")) /\ UNCHANGED loaded
     \/ /\ symbols # "none" /\ l1 /\ loaded = Want
        /\ Go("trace") /\ UNCHANGED loaded
     \/ /\ symbols # "none" /\ l1 /\ loaded # Want
        /\ loaded' = BeforeLoading
        /\ IF kdb \in Unspeakable THEN Answer(Refused("path")) ELSE Go("load")
  /\ UNCHANGED <<environment, held, line, path, kdb, groups, hops>>

(* npi_load_design.                                                        *)
LoadDesign ==
  /\ step = "load"
  /\ \/ /\ held' = <<kdb, TopArg(line.top)>> /\ loaded' = Want /\ Go("trace")
     \/ /\ held' = NoDesign /\ UNCHANGED loaded /\ Answer(Refused("load"))
  /\ UNCHANGED <<environment, line, path, kdb, groups, hops>>

(* The signal is looked up before the walk; either may fail in NPI, and    *)
(* the buffer of the walk may not be had.                                  *)
Resolves == held # NoDesign /\ <<held[1], held[2], path>> \in InDesign

Trace ==
  /\ step = "trace"
  /\ \/ /\ loaded = NoDesign \/ ~Resolves
        /\ Answer(Refused("unknown")) /\ UNCHANGED <<groups, hops>>
     \/ /\ loaded # NoDesign /\ Resolves
        /\ \/ Answer(Refused("walk")) /\ UNCHANGED <<groups, hops>>
           \/ \E gs \in Dumps :
                /\ groups' = Reported(gs, line.control)
                /\ hops' = parse_dump(Written(Reported(gs, line.control)))
                /\ Go("annotate")
  /\ UNCHANGED <<environment, held, loaded, line, path, kdb>>

Tick == CHOOSE t \in line.at : TRUE

Annotate ==
  /\ step = "annotate"
  /\ LET shown == Clip(hops, line.limit)
         at == IF line.at = {} THEN [values |-> << >>, unresolved |-> 0]
               ELSE Annotated(shown, Tick)
     IN  Answer([kind |-> "traced", status |-> classify(hops), shown |-> shown,
                 total |-> Len(hops), values |-> at.values, unresolved |-> at.unresolved])
  /\ UNCHANGED <<environment, held, loaded, line, path, kdb, groups, hops>>

NextLine ==
  /\ step = "answered" /\ step' = "idle"
  /\ line' = NoLine /\ path' = "" /\ kdb' = "" /\ groups' = << >> /\ hops' = << >>
  /\ reply' = NoReply
  /\ UNCHANGED <<environment, held, loaded>>

Next ==
  \/ \E c \in Commands : Begin(c)
  \/ Probe \/ EnsureDesign \/ LoadDesign \/ Trace \/ Annotate \/ NextLine

Spec == Init /\ [][Next]_vars

-----------------------------------------------------------------------------

(* The database a line means: the one --kdb names and no other, or the one *)
(* the waveform was dumped from.                                           *)
Meant(p) ==
  LET source == IF Blank(line.kdb) THEN recorded ELSE line.kdb
  IN  p \in Databases /\ p \in {source, Elab[source]}

(* Whatever earlier lines loaded or failed to load, a line is answered     *)
(* from the design it means, and a signal called unknown is unknown there. *)
AnsweredFromMeantDesign ==
  /\ reply.kind = "traced" =>
       /\ held = <<kdb, TopArg(line.top)>> /\ Meant(kdb)
       /\ <<kdb, TopArg(line.top), path>> \in InDesign
  /\ reply.kind = "refused" /\ reply.why = "unknown" =>
       Meant(kdb) /\ <<kdb, TopArg(line.top), path>> \notin InDesign

(* What the walk reported is read back: each statement with its own        *)
(* group's number, scope (none for an illegible header) and boundary mark, *)
(* and the signals it touches, literals and stray text left out; and the   *)
(* verdict is over all statements that are not control, shown or not.      *)
Signals(s) ==
  Chosen([k \in DOMAIN s.operands |-> s.operands[k][2]],
         {k \in DOMAIN s.operands :
            /\ s.operands[k][1] \notin NoType /\ kind_of(s.operands[k][1]) # "Constant"
            /\ s.operands[k][2] # ""})

Place(gs) ==
  Joined([i \in DOMAIN gs |->
    [j \in DOMAIN gs[i].stmts |->
       [group |-> i, kind |-> kind_of(gs[i].stmts[j].ty),
        scope |-> IF gs[i].legible THEN gs[i].scope ELSE "", boundary |-> gs[i].through,
        signals |-> Signals(gs[i].stmts[j])]]])

Drivers ==
  (UNION {{kind_of(groups[i].stmts[j].ty) : j \in DOMAIN groups[i].stmts} : i \in DOMAIN groups})
    \ {"Control"}

DumpReadBack ==
  reply.kind = "traced" =>
    /\ hops = Place(groups)
    /\ reply.status = CASE Drivers = {} -> "NotFound" [] Drivers = {"Port"} -> "BoundaryOnly"
                        [] OTHER -> "Resolved"
    /\ reply.total = Len(Place(groups)) /\ IsPrefix(reply.shown, hops)

(* A value stands by the name of its own signal: one that has that path,   *)
(* or, if none has, the only one that has it in another case.              *)
ValuesAreTheirs ==
  reply.kind = "traced" /\ line.at # {} =>
    \A n \in Wanted(reply.shown) :
      LET alike == IF Exact(n) # {} THEN Exact(n) ELSE Folded(n)
      IN  IF n \in DOMAIN reply.values
          THEN \E sid \in alike : /\ reply.values[n] = Values[<<sid, Tick>>]
                                  /\ n \in PathsOf(sid) \/ alike = {sid}
          ELSE \A sid \in alike : alike = {sid} => <<sid, Tick>> \notin DOMAIN Values

(* A licence is checked out only for a line that has all else it needs: a  *)
(* readable time, a signal of the waveform, and the library to answer.     *)
LicenceIsEarned ==
  [][held' # held => /\ ~line.malformed /\ builtin /\ path # ""
                     /\ l1 /\ symbols # "none" /\ Meant(kdb)]_vars
=============================================================================
