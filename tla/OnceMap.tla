------------------------------ MODULE OnceMap ------------------------------
(***************************************************************************)
(* What rwave's process-wide tables promise: a key is given a value once   *)
(* and keeps it for the life of the process.  LOADED_PLUGINS promises it   *)
(* of every format (plugin_backend.rs), a OnceLock of the one library it   *)
(* guards (wlf_sys.rs, fsdb_sys.rs).                                       *)
(***************************************************************************)
CONSTANTS Key, Entry, None

VARIABLE cell

Init == cell = [k \in Key |-> None]

(* One key is given its value.                                             *)
Put(k) == /\ cell[k] = None
          /\ cell'[k] \in Entry
          /\ cell' = [cell EXCEPT ![k] = cell'[k]]

Next == \E k \in Key : Put(k)

Spec == Init /\ [][Next]_cell
=============================================================================
