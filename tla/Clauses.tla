------------------------------ MODULE Clauses ------------------------------
(***************************************************************************)
(* The conditions of `search` (commands/search.rs) over the values of the  *)
(* signals, and what they mean on a recorded stream of changes.            *)
(*                                                                         *)
(* A level term `SIG op VALUE` is the set of values condition_match        *)
(* accepts for it; a signal not yet defined matches no term.               *)
(***************************************************************************)
EXTENDS Integers, Sequences, FiniteSets

CONSTANTS
  Sid,       \* signals of the file
  Value,     \* their recorded values
  Undef,     \* a signal the stream has not defined yet
  None

Change == [tick : Nat, sid : Sid, val : Value]

ByTick(st) == \A i, j \in DOMAIN st : i <= j => st[i].tick <= st[j].tick

States == [Sid -> Value \cup {Undef}]

AllUndef == [s \in Sid |-> Undef]

(* conditions_hold: every term of the clause.                              *)
ClauseHolds(state, changed, clause) ==
  \A term \in clause :
    IF term.changed THEN term.sid \in changed ELSE state[term.sid] \in term.accept

any_clause_holds(state, changed, clauses) ==
  \E clause \in clauses : ClauseHolds(state, changed, clause)

(* The tuple displayed for the --show signals.                             *)
show_values(state, show) == [s \in show |-> state[s]]

Apply(state, e) == [state EXCEPT ![e.sid] = e.val]

-----------------------------------------------------------------------------

(* The meaning the modes are held to: the value of a signal at a tick is   *)
(* the last one recorded at or before it.                                  *)
ValueAt(st, s, t) ==
  LET upto == {i \in DOMAIN st : st[i].sid = s /\ st[i].tick <= t}
  IN  IF upto = {} THEN Undef
      ELSE st[CHOOSE i \in upto : \A j \in upto : j <= i].val

StateAt(st, t) == [s \in Sid |-> ValueAt(st, s, t)]
=============================================================================
