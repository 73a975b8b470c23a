----------------------------- MODULE CommandLine -----------------------------
(***************************************************************************)
(* One run of `rwave` as its user sees it (cli.rs, batch.rs, main.rs): the *)
(* arguments are parsed, the file opened, and one command run, or one per  *)
(* line of the input with the arguments as its defaults.                   *)
(*                                                                         *)
(* A text is a sequence of atoms: the characters split_line looks at, and  *)
(* whole words such as "--filter" that nothing looks into.                 *)
(***************************************************************************)
EXTENDS Integers, Sequences, FiniteSets, SequencesExt

CONSTANTS
  Atoms,    \* what texts are made of
  Argvs,    \* argument vectors: sequences of texts
  Lines,    \* input lines somebody meant: [words, style, label]
  RawLines, \* other input lines: texts
  MaxLines  \* bound on the lines of one session

Text == Seq(Atoms)

ASSUME AtomsAssumption == {" ", "'", "\"", "\\", "#"} \subseteq Atoms
ASSUME MaxLinesAssumption == MaxLines \in Nat
ASSUME ArgvsAssumption == \A tokens \in Argvs : tokens \in Seq(Text)
ASSUME RawLinesAssumption == \A text \in RawLines : text \in Text

VARIABLES
  argv, phase,
  outcome,  \* what parse made of argv
  exit,     \* the exit code, 3 while running
  asked,    \* ghost: lines that hold a command
  seq,      \* run_batch: seq
  emitted,  \* results written
  line,     \* the line being answered
  answer    \* its result

vars == <<argv, phase, outcome, exit, asked, seq, emitted, line, answer>>

-----------------------------------------------------------------------------
(* Splitting a line into words.                                            *)

Trim(text) ==
  LET solid == {i \in DOMAIN text : text[i] # " "}
  IN  IF solid = {} THEN << >>
      ELSE SubSeq(text, CHOOSE i \in solid : \A j \in solid : i <= j,
                        CHOOSE i \in solid : \A j \in solid : j <= i)

Blank(text) == Trim(text) = << >>

(* The scanner between two characters.  "escape" is a backslash outside    *)
(* quotes, "backslash" one inside double quotes, which is literal unless a *)
(* quote or another backslash follows.                                     *)
Scanner == [mode |-> "plain", tokens |-> << >>, cur |-> << >>, in_token |-> FALSE,
            label |-> << >>]

Push(s, mode, c) == [s EXCEPT !.mode = mode, !.cur = @ \o c, !.in_token = TRUE]

(* An empty word, '', is dropped.                                          *)
EndTokenUnlessEmpty(s) ==
  IF s.cur # << >>
  THEN [s EXCEPT !.tokens = Append(@, s.cur), !.cur = << >>, !.in_token = FALSE]
  ELSE s
EndToken(s) ==
  IF s.in_token
  THEN [s EXCEPT !.tokens = Append(@, s.cur), !.cur = << >>, !.in_token = FALSE]
  ELSE s

(* Every backslash in double quotes is literal.                            *)
AfterBackslashLiteral(c) == <<"\\", c>>
AfterBackslash(c) == IF c \in {"\"", "\\"} THEN <<c>> ELSE <<"\\", c>>

ScanChar(s, c) ==
  CASE s.mode = "label"     -> [s EXCEPT !.label = Append(@, c)]
    [] s.mode = "escape"    -> Push(s, "plain", <<c>>)
    [] s.mode = "single"    -> IF c = "'" THEN [s EXCEPT !.mode = "plain"] ELSE Push(s, "single", <<c>>)
    [] s.mode = "backslash" -> Push(s, "double", AfterBackslash(c))
    [] s.mode = "double"    -> CASE c = "\"" -> [s EXCEPT !.mode = "plain"]
                                 [] c = "\\" -> [s EXCEPT !.mode = "backslash"]
                                 [] OTHER    -> Push(s, "double", <<c>>)
    [] OTHER                -> CASE c = " "  -> EndToken(s)
                                 [] c = "'"  -> Push(s, "single", << >>)
                                 [] c = "\"" -> Push(s, "double", << >>)
                                 [] c = "\\" -> [s EXCEPT !.mode = "escape"]
                                 [] c = "#" /\ ~s.in_token -> [s EXCEPT !.mode = "label"]
                                 [] OTHER    -> Push(s, "plain", <<c>>)

(* The scanner after a text, one character after the other.                *)
Scan(s, text) ==
  LET after[i \in 0 .. Len(text)] == IF i = 0 THEN s ELSE ScanChar(after[i - 1], text[i])
  IN  after[Len(text)]

split_line(text) ==
  LET s == EndToken(Scan(Scanner, text))
  IN  [ok |-> s.mode \in {"plain", "label"}, tokens |-> s.tokens, label |-> Trim(s.label)]

-----------------------------------------------------------------------------
(* The token loop.                                                         *)

CommandNames == {"info", "list", "dump", "summary", "snapshot", "compare", "search",
                 "tree", "trace"}
VALUE_FLAGS == {"--limit", "--begin", "--end", "--scope", "--depth", "--filter",
                "--exclude", "--at", "--condition", "--show", "--kdb", "--top", "--of"}
BareFlags == {"--json", "--batch", "--exact", "--verbose", "--control", "--driver", "--load"}
Number == [n \in {"-1", "0", "2"} |-> CASE n = "-1" -> -1 [] n = "0" -> 0 [] OTHER -> 2]
Opposite == [f \in {"--driver", "--load"} |-> IF f = "--load" THEN "--driver" ELSE "--load"]

Is(token, words) == Len(token) = 1 /\ token[1] \in words
Named(token) == token[1]
Dashed(token) == token # << >> /\ token[1] \in VALUE_FLAGS \cup BareFlags
                                     \cup {"--help", "--version", "--changed", "-h", "-x"}
LongDashed(token) == Dashed(token) /\ token[1] \notin {"-h", "-x"}

(* Acc.  `wants` is the flag whose value comes next.                       *)
Acc == [opt |-> << >>, set |-> {}, condition |-> << >>, command |-> "none",
        positionals |-> << >>, wants |-> "none", ok |-> TRUE]

Failed(acc) == [acc EXCEPT !.ok = FALSE]

TakeValue(acc, v) ==
  LET f == acc.wants
      a == [acc EXCEPT !.wants = "none"]
  IN  CASE f = "--condition" -> [a EXCEPT !.condition = Append(@, v)]
        [] f \in {"--limit", "--depth"} /\ ~Is(v, DOMAIN Number) -> Failed(a)
        [] OTHER -> [a EXCEPT !.opt = [g \in DOMAIN @ \cup {f} |-> IF g = f THEN v ELSE @[g]]]

TakeFlag(acc, f) ==
  IF f \in DOMAIN Opposite /\ Opposite[f] \in acc.set THEN Failed(acc)
  ELSE [acc EXCEPT !.set = @ \cup {f}]

TakeWord(acc, token, batch_mode) ==
  IF batch_mode \/ acc.command # "none"
  THEN [acc EXCEPT !.positionals = Append(@, token)]
  ELSE IF Is(token, CommandNames) THEN [acc EXCEPT !.command = Named(token)] ELSE Failed(acc)

TakeToken(acc, t, batch_mode) ==
  IF ~acc.ok THEN acc
  ELSE IF acc.wants # "none" THEN TakeValue(acc, t)
  ELSE IF Is(t, VALUE_FLAGS) THEN [acc EXCEPT !.wants = Named(t)]
  ELSE IF Is(t, BareFlags) THEN TakeFlag(acc, Named(t))
  ELSE IF LongDashed(t) \/ (Dashed(t) /\ acc.command # "none") THEN Failed(acc)
  ELSE TakeWord(acc, t, batch_mode)

TakeTokens(tokens, batch_mode) ==
  LET after[i \in 0 .. Len(tokens)] ==
        IF i = 0 THEN Acc ELSE TakeToken(after[i - 1], tokens[i], batch_mode)
  IN  after[Len(tokens)]

accumulate(tokens, batch_mode) ==
  LET acc == TakeTokens(tokens, batch_mode)
  IN  IF acc.wants # "none" THEN Failed(acc) ELSE acc

(* The scan that looks for --help, --version and --batch ahead of it.      *)
PrescanToken(p, t, value_flags) ==
  IF p.print THEN p
  ELSE IF p.skip THEN [p EXCEPT !.skip = FALSE]
  ELSE IF Is(t, {"--help", "--version", "-h"}) THEN [p EXCEPT !.print = TRUE]
  ELSE [p EXCEPT !.batch = @ \/ Is(t, {"--batch"}), !.skip = Is(t, value_flags)]

Unscanned == [print |-> FALSE, skip |-> FALSE, batch |-> FALSE]

PrescanOver(tokens, value_flags) ==
  LET after[i \in 0 .. Len(tokens)] ==
        IF i = 0 THEN Unscanned ELSE PrescanToken(after[i - 1], tokens[i], value_flags)
  IN  after[Len(tokens)]

(* --of was added to the token loop only.                                  *)
PrescanOld(tokens) == PrescanOver(tokens, VALUE_FLAGS \ {"--of"})
Prescan(tokens) == PrescanOver(tokens, VALUE_FLAGS)

-----------------------------------------------------------------------------
(* The checks on what was accumulated or merged.                           *)

takes_target(c) == c \in {"trace", "tree"}

Selecting == {"list", "dump", "summary", "snapshot", "compare", "search"}

accepts_flag(c, flag) ==
  CASE flag \in {"--begin", "--end"}                    -> c \in {"dump", "summary", "search"}
    [] flag = "--at"                                    -> c \in {"snapshot", "compare", "trace"}
    [] flag \in {"--scope", "--depth"}                  -> c \in Selecting \cup {"tree"}
    [] flag \in {"--filter", "--exclude", "--exact"}    -> c \in Selecting
    [] flag \in {"--condition", "--show"}               -> c = "search"
    [] flag \in {"--driver", "--load", "--control", "--kdb", "--top"} -> c = "trace"
    [] flag = "--of"                                    -> c = "tree"
    [] OTHER                                            -> TRUE

Spelled(acc) == DOMAIN acc.opt \cup acc.set
                \cup (IF acc.condition = << >> THEN {} ELSE {"--condition"})

(* The flags without a value are forgotten.                                *)
check_command_flags_values(c, acc) == \A f \in DOMAIN acc.opt : accepts_flag(c, f)
check_command_flags(c, acc) == \A f \in Spelled(acc) : accepts_flag(c, f)

dir_override(acc) ==
  IF "--load" \in acc.set THEN "load" ELSE IF "--driver" \in acc.set THEN "driver" ELSE "none"

(* A text given, and not blank.                                            *)
Given(opt, flag) == flag \in DOMAIN opt /\ ~Blank(opt[flag])

check_required(c, a) ==
  /\ c \in {"snapshot", "compare"} => "--at" \in DOMAIN a.opt
  /\ c = "search" => a.condition # << >>
  /\ c = "trace" => ~Blank(a.target)

check_of_conflict(c, a) ==
  c = "tree" /\ Given(a.opt, "--of") =>
    ~Given(a.opt, "--scope") /\ Blank(a.target) /\ "--depth" \notin DOMAIN a.opt

check_limit(opt) == "--limit" \in DOMAIN opt => Number[opt["--limit"][1]] >= 0

check_depth(c, opt) ==
  "--depth" \in DOMAIN opt =>
    /\ Number[opt["--depth"][1]] > 0
    /\ c = "tree" \/ Given(opt, "--scope")

Checked(a) ==
  /\ check_required(a.command, a) /\ check_of_conflict(a.command, a)
  /\ check_limit(a.opt) /\ check_depth(a.command, a.opt)

Outcome(kind, a, acc) == [kind |-> kind, args |-> a, acc |-> acc]
Nothing == << >>

(* The first positional past the file, << >> for none.                     *)
TargetAt(positionals, i) == IF Len(positionals) >= i THEN positionals[i] ELSE << >>

resolve_single(acc) ==
  LET c == acc.command
      a == [command |-> c, opt |-> acc.opt, condition |-> acc.condition,
            set |-> acc.set \cap {"--exact", "--verbose", "--control"},
            target |-> TargetAt(acc.positionals, 2),
            load |-> dir_override(acc) = "load"]
      fine == /\ acc.positionals # << >>
              /\ check_command_flags(c, acc)
              /\ Len(acc.positionals) <= IF takes_target(c) THEN 2 ELSE 1
              /\ Checked(a)
  IN  IF c = "none" THEN Outcome("Print", Nothing, acc)
      ELSE IF fine THEN Outcome("Run", a, acc) ELSE Outcome("Error", Nothing, acc)

resolve_batch(acc) ==
  LET d == [opt |-> acc.opt, condition |-> acc.condition,
            set |-> acc.set \cap {"--exact", "--verbose", "--control"},
            load |-> dir_override(acc)]
      fine == /\ \A i \in DOMAIN acc.positionals : ~Is(acc.positionals[i], CommandNames)
              /\ Len(acc.positionals) = 1
              /\ check_limit(acc.opt)
              /\ "--depth" \in DOMAIN acc.opt => Number[acc.opt["--depth"][1]] > 0
  IN  IF fine THEN Outcome("Batch", d, acc) ELSE Outcome("Error", Nothing, acc)

parse_inner(tokens, batch_mode) ==
  LET acc == accumulate(tokens, batch_mode)
  IN  IF ~acc.ok THEN Outcome("Error", Nothing, acc)
      ELSE IF "--batch" \in acc.set THEN resolve_batch(acc) ELSE resolve_single(acc)

parse(tokens) ==
  IF Prescan(tokens).print \/ tokens = << >> THEN Outcome("Print", Nothing, Acc)
  ELSE parse_inner(tokens, Prescan(tokens).batch)

-----------------------------------------------------------------------------
(* A line under the defaults.                                              *)

Over(own, default) ==
  [f \in DOMAIN own \cup DOMAIN default |-> IF f \in DOMAIN own THEN own[f] ELSE default[f]]

Without(opt, flag) == [f \in DOMAIN opt \ {flag} |-> opt[f]]

(* A cleared scope leaves the depth behind.                                *)
MergedOptKeepsDepth(c, own, default) == Over(own, default)

(* A line that blanks the scope gives up the depth counted from it.        *)
MergedOpt(c, own, default) ==
  LET scope_cleared == /\ "--scope" \in DOMAIN own /\ Blank(own["--scope"])
                       /\ "--depth" \notin DOMAIN own /\ c # "tree"
  IN  Over(own, IF scope_cleared THEN Without(default, "--depth") ELSE default)

parse_batch_line(tokens, d) ==
  LET acc == accumulate(tokens, FALSE)
      c == acc.command
      dir == IF dir_override(acc) # "none" THEN dir_override(acc) ELSE d.load
      a == [command |-> c, opt |-> MergedOpt(c, acc.opt, d.opt),
            condition |-> IF acc.condition = << >> THEN d.condition ELSE acc.condition,
            set |-> (acc.set \cap {"--exact", "--verbose", "--control"}) \cup d.set,
            target |-> TargetAt(acc.positionals, 1),
            load |-> dir = "load"]
      fine == /\ acc.ok /\ c # "none"
              /\ Len(acc.positionals) <= IF takes_target(c) THEN 1 ELSE 0
              /\ check_command_flags(c, acc)
              /\ Checked(a)
  IN  IF fine THEN Outcome("Run", a, acc) ELSE Outcome("Error", Nothing, acc)

-----------------------------------------------------------------------------
(* What a command reads of its Args: the fields its module looks at, the   *)
(* selection and the limit through common.rs.                              *)

SelectionFlags == {"--scope", "--depth", "--filter", "--exclude", "--exact"}

Reads(c) ==
  {"--verbose"} \cup
  CASE c = "info"                      -> {}
    [] c = "list"                      -> SelectionFlags \cup {"--limit"}
    [] c \in {"dump", "summary"}       -> SelectionFlags \cup {"--limit", "--begin", "--end"}
    [] c \in {"snapshot", "compare"}   -> SelectionFlags \cup {"--limit", "--at"}
    [] c = "search"                    -> SelectionFlags \cup {"--limit", "--begin", "--end",
                                                               "--condition", "--show"}
    [] c = "tree"                      -> {"--limit", "--scope", "--depth", "--of"}
    [] OTHER                           -> {"--limit", "--at", "--driver", "--load", "--control",
                                           "--kdb", "--top"}

(* A blank time is read and refused; to trace it means none.               *)
UnreadableTime(a) ==
  /\ a.command # "trace"
  /\ \E f \in {"--begin", "--end", "--at"} \cap Reads(a.command) \cap DOMAIN a.opt :
       Blank(a.opt[f])

(* Whether a command can come back with the given success.                 *)
compute(a, ok) == ok => ~UnreadableTime(a)

-----------------------------------------------------------------------------
(* How a line with the given words is typed, and its label.                *)

Joined(texts) ==
  LET upto[i \in 0 .. Len(texts)] == IF i = 0 THEN << >> ELSE upto[i - 1] \o texts[i]
  IN  upto[Len(texts)]

InSingle(c) == IF c = "'" THEN <<"'", "\\", "'", "'">> ELSE <<c>>
InDouble(c) == IF c \in {"\"", "\\"} THEN <<"\\", c>> ELSE <<c>>
Unquoted(c, i) == IF c \in {" ", "'", "\"", "\\"} \/ (c = "#" /\ i = 1) THEN <<"\\", c>> ELSE <<c>>

Quoted(token, style) ==
  IF style = "single"
  THEN <<"'">> \o Joined([i \in DOMAIN token |-> InSingle(token[i])]) \o <<"'">>
  ELSE IF style = "double" \/ token = << >>
  THEN <<"\"">> \o Joined([i \in DOMAIN token |-> InDouble(token[i])]) \o <<"\"">>
  ELSE Joined([i \in DOMAIN token |-> Unquoted(token[i], i)])

Typed(l) ==
  Joined([i \in DOMAIN l.words |-> Quoted(l.words[i], l.style) \o <<" ">>])
  \o (IF l.label = << >> THEN << >> ELSE <<"#", " ">> \o l.label)

(* Nobody means to label a line by less than they type.                    *)
ASSUME LinesAssumption ==
  \A l \in Lines :
    /\ l \in [words : Seq(Text), style : {"plain", "single", "double"}, label : Text]
    /\ Trim(l.label) = l.label

NoLine == [words |-> << >>, style |-> "none", label |-> << >>]
NoAnswer == [id |-> << >>, label |-> << >>, ok |-> FALSE, parsed |-> << >>]

-----------------------------------------------------------------------------

Init ==
  /\ argv \in Argvs /\ phase = "parse" /\ outcome = Outcome("none", Nothing, Acc) /\ exit = 3
  /\ asked = 0 /\ seq = 0 /\ emitted = 0 /\ line = NoLine /\ answer = NoAnswer

Exit(code) == phase' = "exit" /\ exit' = code

idle == <<asked, seq, emitted, line, answer>>

ParseArgs ==
  /\ phase = "parse"
  /\ outcome' = parse(argv)
  /\ CASE outcome'.kind = "Print" -> Exit(0)
       [] outcome'.kind = "Error" -> Exit(2)
       [] OTHER                   -> phase' = "open" /\ exit' = exit
  /\ UNCHANGED <<argv, idle>>

OpenFile ==
  /\ phase = "open"
  /\ \/ Exit(1)
     \/ phase' = (IF outcome.kind = "Batch" THEN "read" ELSE "run") /\ exit' = exit
  /\ UNCHANGED <<argv, outcome, idle>>

RunCommand ==
  /\ phase = "run"
  /\ \E ok \in BOOLEAN : compute(outcome.args, ok) /\ Exit(IF ok THEN 0 ELSE 1)
  /\ UNCHANGED <<argv, outcome, idle>>

(* The id of a line: its label, or else its number.                        *)
Id(label, n) == IF label = << >> THEN <<n>> ELSE << >>

(* What run_batch does with one line.                                      *)
Serve(l, text) ==
  LET s == split_line(text)
      parsed == parse_batch_line(s.tokens, outcome.args)
      Emit(label, ok, p) ==
        /\ answer' = [id |-> Id(label, seq'), label |-> label, ok |-> ok, parsed |-> p]
        /\ emitted' = emitted + 1 /\ line' = l /\ phase' = "flush"
  IN  \/ /\ ~s.ok
         /\ seq' = seq + 1 /\ Emit(<< >>, FALSE, << >>)
      \/ /\ s.ok /\ s.tokens = << >>
         /\ UNCHANGED <<seq, emitted, line, answer, phase>>
      \/ /\ s.ok /\ s.tokens # << >>
         /\ seq' = seq + 1
         /\ \E ok \in BOOLEAN : /\ ok => parsed.kind = "Run" /\ compute(parsed.args, ok)
                                /\ Emit(s.label, ok, <<parsed, s>>)

(* The documentation's reading: a command unless it is blank or its first  *)
(* character that is not a blank is '#'.                                   *)
HoldsCommand(text) == ~Blank(text) /\ Trim(text)[1] # "#"

ReadLine(l, text) ==
  /\ phase = "read" /\ asked < MaxLines
  /\ asked' = asked + IF HoldsCommand(text) THEN 1 ELSE 0
  /\ Serve(l, text)
  /\ UNCHANGED <<argv, outcome, exit>>

ReadMeant == \E l \in Lines : ReadLine(l, Typed(l))
ReadRaw == \E text \in RawLines : ReadLine(NoLine, text)

Flush ==
  /\ phase = "flush" /\ phase' = "read" /\ line' = NoLine /\ answer' = NoAnswer
  /\ UNCHANGED <<argv, outcome, exit, asked, seq, emitted>>

(* The input ends, or cannot be read.                                      *)
EndInput ==
  /\ phase = "read" /\ \E code \in {0, 1} : Exit(code)
  /\ UNCHANGED <<argv, outcome, idle>>

Next == ParseArgs \/ OpenFile \/ RunCommand \/ ReadMeant \/ ReadRaw \/ Flush \/ EndInput

Spec == Init /\ [][Next]_vars

-----------------------------------------------------------------------------

(* The two passes over the arguments agree on what is a value: whenever    *)
(* the token loop comes through, the mode it was started in, in which the  *)
(* first word is a file or a subcommand, is the one it finds selected.     *)
PassesAgree ==
  phase # "parse" /\ ~Prescan(argv).print /\ outcome.acc.ok =>
    Prescan(argv).batch = ("--batch" \in outcome.acc.set)

(* --json and --batch are read by the driver (main.rs, batch.rs).          *)
Unread(o) == Spelled(o.acc) \ (Reads(o.args.command) \cup {"--json", "--batch"})

(* info takes --limit, as every command does, and lists nothing to cut.    *)
TakenUnread(c) == IF c = "info" THEN {"--limit"} ELSE {}

(* Every flag of an accepted command is one its module or the driver       *)
(* reads, but for info's --limit, on the command line and on a line alike: *)
(* a mistyped value is never passed over.                                  *)
NoFlagIgnored ==
  /\ outcome.kind = "Run" => Unread(outcome) \subseteq TakenUnread(outcome.args.command)
  /\ answer.parsed # << >> =>
       LET o == answer.parsed[1]
       IN  o.kind = "Run" => Unread(o) \subseteq TakenUnread(o.args.command)

(* Each line that holds a command gets one result, in step: its id is its  *)
(* label or its number among those lines, however earlier ones failed.     *)
AnswersInStep ==
  /\ emitted = asked
  /\ phase = "flush" => answer.id = Id(answer.label, asked)

(* The splitter gives back the words a line was typed for, in any quoting, *)
(* and its label.                                                          *)
WordsComeBack ==
  phase = "flush" /\ line # NoLine =>
    /\ answer.parsed # << >>
    /\ answer.parsed[2].tokens = line.words /\ answer.label = line.label

(* The command line that says what a line says under the session's         *)
(* defaults: its words with the file after the command, and every default  *)
(* its command reads and it does not override, the depth only while the    *)
(* scope it is counted from stands.                                        *)
IsValue(tokens, i) == i > 1 /\ Is(tokens[i - 1], VALUE_FLAGS)

CommandAt(tokens) ==
  LET here == {i \in DOMAIN tokens : Is(tokens[i], CommandNames) /\ ~IsValue(tokens, i)}
  IN  CHOOSE i \in here : \A j \in here : i <= j

Inherited(acc, d) ==
  LET lifted == acc.command # "tree" /\ "--scope" \in DOMAIN acc.opt /\ Blank(acc.opt["--scope"])
      texts == ((DOMAIN d.opt \ DOMAIN acc.opt) \cap Reads(acc.command))
               \ (IF lifted THEN {"--depth"} ELSE {})
      turned == d.load # "none" /\ dir_override(acc) = "none" /\ "--load" \in Reads(acc.command)
  IN  Joined(SetToSeq({<< <<f>>, d.opt[f]>> : f \in texts}))
      \o [i \in 1 .. Cardinality(d.set \cap Reads(acc.command)) |->
            <<SetToSeq(d.set \cap Reads(acc.command))[i]>>]
      \o (IF acc.condition = << >> /\ "--condition" \in Reads(acc.command)
          THEN Joined([i \in DOMAIN d.condition |-> << <<"--condition">>, d.condition[i]>>])
          ELSE << >>)
      \o (IF turned THEN << <<IF d.load = "load" THEN "--load" ELSE "--driver">> >> ELSE << >>)

Equivalent(tokens, acc, d) ==
  LET i == CommandAt(tokens)
  IN  SubSeq(tokens, 1, i) \o << <<"f">> >> \o SubSeq(tokens, i + 1, Len(tokens))
      \o Inherited(acc, d)

(* What of the Args the command will look at.                              *)
Effective(a) ==
  [command |-> a.command, target |-> a.target, load |-> a.command = "trace" /\ a.load,
   opt |-> [f \in DOMAIN a.opt \cap Reads(a.command) |-> a.opt[f]],
   set |-> a.set \cap Reads(a.command),
   condition |-> IF a.command = "search" THEN a.condition ELSE << >>]

SameAsAlone(o, tokens) ==
  LET alone == parse(Equivalent(tokens, o.acc, outcome.args))
  IN  alone.kind # "Print" =>
        /\ (o.kind = "Run") = (alone.kind = "Run")
        /\ o.kind = "Run" => Effective(o.args) = Effective(alone.args)

(* The line is one `rwave` would have answered on its own: it names a      *)
(* command in a well-formed way.                                           *)
Comparable == answer.parsed # << >> /\ answer.parsed[1].acc.command # "none"
              /\ answer.parsed[1].acc.ok

(* A default depth without a scope, under a command that reads neither.    *)
StrayDepth ==
  /\ answer.parsed[1].acc.command \in {"info", "trace"}
  /\ "--depth" \in DOMAIN outcome.args.opt /\ ~Given(outcome.args.opt, "--scope")

(* A line runs, and with the same options, exactly if the equivalent       *)
(* command line does.                                                      *)
LineMirrorsSingle ==
  Comparable /\ ~StrayDepth => SameAsAlone(answer.parsed[1], answer.parsed[2].tokens)
=============================================================================
