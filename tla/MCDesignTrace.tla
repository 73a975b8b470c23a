---------------------------- MODULE MCDesignTrace ----------------------------
(* Two elaborated designs, one of them with a top to name, a directory that*)
(* was never elaborated, one that is gone and one that C cannot be told of.*)
(* Names that differ in case only, and an alias.                           *)
EXTENDS DesignTrace

Dirs == {"A", "Ak", "B", "Bk", "U", "Uk", "W", "M", "", "none"}
MCElab == [p \in Dirs |-> CASE p = "A" -> "Ak" [] p = "B" -> "Bk" [] p = "U" -> "Uk" [] OTHER -> "M"]
MCDatabases == {"Ak", "Bk", "Uk"}
MCWorkLibs == {"W", "A"}
MCUnspeakable == {"Uk"}
MCInDesign == {<<"Ak", "none", "t.q">>, <<"Ak", "t", "t.q">>, <<"Bk", "t", "t.q">>, <<"Bk", "t", "t.Q">>}
MCSettings == {"unset", "", "1", "off"}
MCRecordings == {"", "A", "W", "M"}

MCTable == <<<<"t.q", "t.u.q">>, <<"t.Q">>, <<"t.R">>>>
Names == {"t.q", "t.Q", "t.u.q", "t.U.Q", "t.R", "t.r", "T.q", "z"}
MCLower == [n \in Names |-> CASE n \in {"t.q", "t.Q", "T.q"} -> "t.q"
                              [] n \in {"t.u.q", "t.U.Q"}    -> "t.u.q"
                              [] n \in {"t.R", "t.r"}        -> "t.r"
                              [] OTHER                       -> n]
MCFull == [t \in {"q", "Q", "zz"} |-> CASE t = "q" -> "t.q" [] t = "Q" -> "t.Q" [] OTHER -> ""]
MCValues == [x \in {<<1, 1>>, <<2, 1>>, <<3, 2>>} |-> x]

MCTexts == STRING
Stmt(ty, operands) == [ty |-> ty, operands |-> operands]
Stmts ==
  {Stmt("npiContAssign", <<<<"npiReg", "t.Q">>, <<"npiConstant", "1">>, <<"npiNet", "t.r">>>>),
   Stmt("npiAssignment", <<<<"npiReg", "T.q">>, <<"text", "t.u.q">>, <<"npiReg", "t.q">>>>),
   Stmt("npiPort", <<<<"npiNet", "">>, <<"npiNet", "t.U.Q">>>>),
   Stmt("npiIf", <<<<"npiNet", "z">>>>)}
Bodies == {<< >>} \cup {<<a>> : a \in Stmts} \cup {<<a, b>> : a \in Stmts, b \in Stmts}
Group(scope, legible, through, stmts) ==
  [scope |-> scope, legible |-> legible, through |-> through, stmts |-> stmts]
MCDumps ==
  {<< >>} \cup {<<Group("t", l, h, b)>> : l \in BOOLEAN, h \in BOOLEAN, b \in Bodies}
  \cup {<<Group("t", TRUE, h, b), Group("t.u", l, ~h, <<c>>)>> :
          l \in BOOLEAN, h \in BOOLEAN, b \in {<< >>} \cup {<<a>> : a \in Stmts}, c \in Stmts}

Line(target, k, top, at, control, limit) ==
  [target |-> target, kdb |-> k, top |-> top, at |-> at, malformed |-> FALSE,
   control |-> control, limit |-> limit]
MCCommands ==
  {Line(g, k, top, {}, FALSE, 0) :
     g \in {"q", "Q"}, k \in Dirs, top \in {"none", "", "t"}}
  \cup {Line("q", "none", "none", at, control, limit) :
          at \in {{}, {1}, {2}}, control \in BOOLEAN, limit \in {0, 1}}
  \cup {[Line("q", "A", "none", {}, FALSE, 0) EXCEPT !.malformed = TRUE]}
  \cup {Line("zz", "A", "none", {}, FALSE, 0)}
==============================================================================
