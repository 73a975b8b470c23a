------------------------------- MODULE Values -------------------------------
(***************************************************************************)
(* A recorded value as the commands show it (format.rs), the value a       *)
(* condition asks for and when the two match (condition.rs), and a time    *)
(* argument as ticks (format.rs).                                          *)
(*                                                                         *)
(* A logic value is a sequence of bits as the file writes them, most       *)
(* significant first; besides 0 1 x z a recording may hold h, l and others.*)
(* A real or a string is its text, a sequence of its own letters.          *)
(***************************************************************************)
EXTENDS Integers, Sequences

CONSTANTS
  TickFs,   \* femtoseconds of one tick, 0 when the file's timescale is bad
  MaxTicks, \* i64::MAX
  NoTime    \* --begin, --end or --at not given

ASSUME ValuesAssumption == TickFs \in Nat /\ MaxTicks \in Nat

norm_bit(b) ==
  CASE b \in {"0", "l"} -> "0"
    [] b \in {"1", "h"} -> "1"
    [] b = "z" -> "z"
    [] OTHER -> "x"

normalize_bits(raw) == [i \in DOMAIN raw |-> norm_bit(raw[i])]

(* format.rs and condition.rs each decide for themselves what is unknown.  *)
bits_have_unknown(raw) == \E i \in DOMAIN raw : raw[i] \notin {"0", "1", "h", "l"}
has_unknown(raw) == \E i \in DOMAIN raw : raw[i] \notin {"0", "1", "h", "l"}
is_clean_binary(raw) == raw # << >> /\ ~has_unknown(raw)

(* An x or z in front of a value or of a pattern extends it, else 0 does.  *)
Pad(bits) == IF bits # << >> /\ bits[1] \in {"x", "z"} THEN bits[1] ELSE "0"

(* BigUint::from_binary.                                                   *)
from_binary(bits) ==
  LET upto[n \in 0 .. Len(bits)] ==
        IF n = 0 THEN 0 ELSE 2 * upto[n - 1] + (IF bits[n] = "1" THEN 1 ELSE 0)
  IN  upto[Len(bits)]

(* What a row shows: a bare bit, 0x<hex>, b<bits>, or the text.            *)
Shown(form, bits, num) == [form |-> form, bits |-> bits, num |-> num]

(* What a value with more bits than its signal is taken for.               *)
AllUnknown(width) == [i \in 1 .. width |-> "x"]

(* Mutant of fmt_bits: a short value is extended with 0 whatever it holds.  *)
ZeroExtended(raw, width) ==
  LET bits == normalize_bits(raw)
      fitted == IF Len(bits) > width THEN AllUnknown(width)
                ELSE [i \in 1 .. width - Len(bits) |-> "0"] \o bits
  IN  CASE \E i \in DOMAIN fitted : fitted[i] \in {"x", "z"} -> Shown("bin", fitted, 0)
        [] OTHER -> Shown("hex", << >>, from_binary(fitted))

fmt_bits(raw, width) ==
  LET bits == normalize_bits(raw)
      fitted == IF Len(bits) > width THEN AllUnknown(width)
                ELSE [i \in 1 .. width - Len(bits) |-> Pad(bits)] \o bits
  IN  CASE \E i \in DOMAIN fitted : fitted[i] \in {"x", "z"} -> Shown("bin", fitted, 0)
        [] width = 1 /\ fitted \in {<<"0">>, <<"1">>} -> Shown("dec", << >>, from_binary(fitted))
        [] OTHER -> Shown("hex", << >>, from_binary(fitted))

fmt_val(raw, kind, width) ==
  CASE kind = "Event" -> Shown("triggered", << >>, 0)
    [] kind \in {"Real", "Str"} -> Shown("text", raw, 0)
    [] OTHER -> fmt_bits(raw, width)

-----------------------------------------------------------------------------

Mask == {"0", "1", "x", "z", "?"}
AllIn(bits, S) == \A i \in DOMAIN bits : bits[i] \in S

BadTarget == [int |-> FALSE, raw |-> << >>, value |-> 0, ok |-> FALSE]
IntTarget(n) == [int |-> TRUE, raw |-> << >>, value |-> n, ok |-> TRUE]
RawTarget(bits) == [int |-> FALSE, raw |-> bits, value |-> 0, ok |-> TRUE]

(* parse_target_value: a number in decimal or hex, binary digits after b,  *)
(* or bits without a prefix; ? needs the prefix.                           *)
parse_target_value(text) ==
  CASE text.form \in {"dec", "hex"} -> IntTarget(text.num)
    [] text.form = "bin" /\ text.bits # << >> /\ AllIn(text.bits, {"0", "1"}) ->
         IntTarget(from_binary(text.bits))
    [] text.form = "bin" /\ text.bits # << >> /\ AllIn(text.bits, Mask)
         /\ ~AllIn(text.bits, {"0", "1"}) -> RawTarget(text.bits)
    [] text.form = "bits" /\ AllIn(text.bits, Mask \ {"?"}) -> RawTarget(text.bits)
    [] OTHER -> BadTarget

is_mask(target) == ~target.int /\ \E i \in DOMAIN target.raw : target.raw[i] = "?"

(* The bit of a value at an offset from its right end.                     *)
BitAt(bits, off, pad) == IF off < Len(bits) THEN bits[Len(bits) - off] ELSE pad

(* pattern_compare: the offsets the pattern cares for, and what is there.  *)
pattern_compare(raw, pattern, width) ==
  LET widest == IF width > Len(pattern) THEN width ELSE Len(pattern)
      value(off) ==
        CASE off >= width -> "0"
          [] off < width /\ Len(raw) > width -> "x"
          [] OTHER -> BitAt(normalize_bits(raw), off, Pad(normalize_bits(raw)))
      want(off) == BitAt(pattern, off, Pad(pattern))
      cared == {off \in 0 .. widest - 1 : want(off) # "?"}
  IN  [equal |-> \A off \in cared : value(off) = want(off),
       cared_unknown |-> \E off \in cared : value(off) \in {"x", "z"}]

(* value_matches: a number equals a logic value without unknown bits; a    *)
(* pattern is compared bit by bit, or as text with a value that has none.  *)
value_matches(raw, kind, target, width) ==
  CASE target.int -> /\ kind = "Bits" /\ is_clean_binary(raw)
                     /\ from_binary(normalize_bits(raw)) = target.value
    [] ~target.int /\ kind = "Bits" -> pattern_compare(raw, target.raw, width).equal
    [] OTHER -> raw = target.raw

(* condition_match, for a signal that has a value.                         *)
condition_match(raw, kind, op, target, width) ==
  CASE op \in {"=", "=="} -> value_matches(raw, kind, target, width)
    [] op = "!=" /\ ~target.int /\ kind = "Bits" ->
         LET m == pattern_compare(raw, target.raw, width)
         IN  ~m.cared_unknown /\ ~m.equal
    [] OTHER -> /\ ~(kind = "Bits" /\ has_unknown(raw))
                /\ ~value_matches(raw, kind, target, width)

-----------------------------------------------------------------------------

UnitFs == [fs |-> 1, ps |-> 1000, ns |-> 1000000]

(* round_half_even of the fraction n/d.                                    *)
round_half_even(n, d) ==
  LET q == n \div d
      r == n % d
  IN  CASE 2 * r < d -> q
        [] 2 * r > d -> q + 1
        [] OTHER -> IF q % 2 = 0 THEN q ELSE q + 1

TimeError == [ok |-> FALSE, tick |-> 0]
Tick(n) == IF n > MaxTicks THEN TimeError ELSE [ok |-> TRUE, tick |-> n]

(* A time argument: a sign, a number num/den, written with a point or with *)
(* underscores between its digits, and a unit ("" when it has none).       *)
parse_time(text) ==
  CASE text.minus /\ text.num # 0 -> TimeError
    [] text.unit = "" /\ text.point -> TimeError
    [] text.unit # "" /\ (text.underscores \/ TickFs = 0) -> TimeError
    [] OTHER ->
         IF text.unit = "" THEN Tick(text.num)
         ELSE Tick(round_half_even(text.num * UnitFs[text.unit], text.den * TickFs))

IsArgument(text) ==
  text = NoTime \/ (text.num \in Nat /\ text.den \in Nat \ {0}
                    /\ text.unit \in {""} \cup DOMAIN UnitFs)

(* parse_window: from 0 unless --begin is given, open unless --end is.     *)
parse_window(begin, end) ==
  LET b == IF begin = NoTime THEN [ok |-> TRUE, tick |-> 0] ELSE parse_time(begin)
      e == IF end = NoTime THEN [ok |-> TRUE, tick |-> MaxTicks] ELSE parse_time(end)
  IN  [ok |-> b.ok /\ e.ok /\ b.tick <= e.tick, t0 |-> b.tick, t1 |-> e.tick]
=============================================================================
