-------------------------- MODULE MCPluginRegistry --------------------------
(***************************************************************************)
(* Two threads; a format that is compiled in and may be overridden by two  *)
(* libraries, good and of another version, and FSDB, overridden by one     *)
(* that has no windowed decode.                                            *)
(***************************************************************************)
EXTENDS PluginRegistry

CONSTANTS t1, t2, none, good, old

MCFormat == {"wlf", "fsdb", "xyz"}

Candidate(lib, abi, slots, name) ==
  [lib |-> lib, abi |-> abi, slots |-> slots, name |-> name]

MCExternal ==
  [wlf  |-> {Candidate(good, 2, {"required", "metadata", "windowed"}, "wlf"),
             Candidate(old, 1, {}, none)},
   fsdb |-> {Candidate(good, 2, {"required"}, "fsdb")},
   xyz  |-> {Candidate(good, 2, {"windowed"}, "xyz"),
             Candidate(old, 2, {"required"}, "wlf")}]

=============================================================================
