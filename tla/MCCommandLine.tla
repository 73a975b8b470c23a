---------------------------- MODULE MCCommandLine ----------------------------
(* Command lines with up to two options, sessions with defaults, and lines *)
(* of every command with up to two options of their own, some blank; words *)
(* with characters that need quoting.                                      *)
EXTENDS CommandLine

MCAtoms == STRING

Opt(f, v) == << <<f>>, v >>
Flag(f) == << <<f>> >>
S == <<"s">>

Options ==
  {Opt(f, S) : f \in {"--begin", "--end", "--scope", "--filter", "--exclude", "--at",
                      "--condition", "--show", "--kdb", "--top", "--of"}}
  \cup {Opt("--limit", <<"2">>), Opt("--depth", <<"2">>)}
  \cup {Flag(f) : f \in {"--exact", "--verbose", "--control", "--driver", "--load"}}

Odd == {Opt("--limit", <<"-1">>), Opt("--depth", <<"0">>), Opt("--depth", S), Opt("--of", <<"--batch">>),
        Opt("--filter", <<"--help">>), Flag("--help"), Flag("-x"), Flag("--changed"), Flag("--limit"),
        Flag("extra"), Flag("--json")}

Blanks == {Opt(f, << >>) : f \in {"--scope", "--filter", "--at", "--of"}}

(* One of each family in the lines.                                        *)
LineOptions == Options \ {Opt(f, S) : f \in {"--end", "--exclude", "--show", "--top"}}

Target(c) == IF c \in {"list", "trace", "tree"} THEN {<< >>, << <<"u">> >>} ELSE {<< >>}

MCArgvs ==
  {<< >>, Flag("--version"), Flag("list"), Flag("-x")}
  \cup {<< <<c>>, <<"f">> >> \o t \o o \o p :
          c \in {"list", "tree", "trace", "snapshot", "search"}, t \in {<< >>, << <<"u">> >>},
          o \in Options, p \in Odd \cup {Opt("--at", S), Opt("--condition", S), Opt("--scope", S)}}
  \cup {<< <<"info">>, <<"f">> >> \o o : o \in Options}
  \cup {o \o << <<"--batch">>, <<"f">> >> : o \in Odd \cup {<< >>, Flag("list")}}
  \cup {<< <<"f">>, <<"--batch">> >> \o o : o \in Options}
  \cup {<< <<"--batch">>, <<"f">> >> \o o \o p :
          o \in {Opt("--depth", <<"2">>), Opt("--filter", S), Flag("--load")},
          p \in {Opt("--scope", S), Opt("--of", S), Opt("--at", S), Flag("--control"),
                 Opt("--condition", S), Opt("--filter", << >>)}}

Plain(words) == [words |-> words, style |-> "plain", label |-> << >>]

Few == {<< >>, Opt("--scope", S), Opt("--depth", <<"2">>)} \cup Blanks

Hard == {<<"a", " ", "b">>, <<"'">>, <<"\"", "\\">>, <<"#", "a">>, <<"a", "#">>, <<"\\", "a">>, << >>}

MCLines ==
  UNION {{Plain(<< <<c>> >> \o t \o o \o p) :
            t \in Target(c), o \in LineOptions \cup {<< >>}, p \in Few} : c \in CommandNames}
  \cup {Plain(o \o << <<"tree">> >>) : o \in Options \cup Odd}
  \cup {[words |-> << <<"list">>, <<"--filter">>, w>>, style |-> q, label |-> l] :
          w \in Hard, q \in {"plain", "single", "double"}, l \in {<< >>, <<"t", " ", "'">>}}

MCRawLines == {<< >>, <<" ">>, <<" ", "#", "t">>, <<"#", "'">>, <<"list", " ", "'", "s">>, <<"\"">>,
               <<"list", "\\">>, <<"'", "'">>, <<"nonsense">>}
==============================================================================
