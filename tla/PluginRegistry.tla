--------------------------- MODULE PluginRegistry ---------------------------
(***************************************************************************)
(* How a file reaches its backend: threads of one process open files of    *)
(* formats rwave does not read natively (plugin_backend.rs).  Each open    *)
(* looks the format up in LOADED_PLUGINS, else resolves it without holding *)
(* the lock: an external library named by $RWAVE_PLUGIN_<EXT>, else the    *)
(* table compiled into rwave once its vendor library is loaded.  The table *)
(* found is checked and registered, the file is opened through it, used    *)
(* and closed.                                                             *)
(***************************************************************************)
EXTENDS Integers, FiniteSets

CONSTANTS
  Thread,
  Format,
  Lib,          \* libraries an override may name
  External,     \* what dlopen of a format's override may give
  Compiled,     \* formats with a table in this build ("wlf", "fsdb")
  DesignFormat, \* "fsdb", the one whose session answers design queries
  Version,      \* RWAVE_BACKEND_ABI_VERSION
  MaxOpens,     \* bound on the vendor opens of a behaviour
  Nothing

(* Entry points every open relies on, optional metadata, windowed decode.  *)
Slots == {"required", "metadata", "windowed"}

(* A vtable: the library its memory belongs to (Nothing: compiled in), its *)
(* version, which of its entry points are filled, and its name.            *)
Table == [lib : Lib \cup {Nothing}, abi : Int, slots : SUBSET Slots,
          name : Format \cup {Nothing}]

(* The table compiled into rwave: api_* trampolines in every slot.         *)
Own(f) == [lib |-> Nothing, abi |-> Version, slots |-> Slots, name |-> f]

ASSUME RegistryAssumption ==
  /\ Nothing \notin Thread \cup Format \cup Lib \cup Table
  /\ Nothing \notin Nat
  /\ "process" \notin Thread
  /\ Compiled \subseteq Format
  /\ Version \in Int /\ MaxOpens \in Nat
  /\ \A f \in Format : \A tb \in External[f] : tb \in Table /\ tb.lib \in Lib

VARIABLES
  registry,  \* LOADED_PLUGINS
  oncelock,  \* the OnceLock of a compiled-in format's library
  inits,     \* how often the vendor library was initialised
  mapped,    \* references to external libraries: <<who, lib>>
  at,        \* where each thread is in PluginBackend::open
  fmt,       \* the format it opens
  table,     \* the table it holds
  handle,    \* its session handle
  files,     \* files the vendors have open
  strings,   \* threads whose open left a message to free
  opened,    \* vendor opens so far; OPEN_SEQ names a WLF by it
  touched    \* ghost: the table and the field of it read or called last

registryvars == <<registry, oncelock, inits, mapped, at, fmt, table, handle,
                  files, strings, opened, touched>>

process == <<registry, oncelock, inits>>
session == <<handle, files, strings, opened>>

RegistryInit ==
  /\ registry = [f \in Format |-> Nothing]
  /\ oncelock = [f \in Compiled |-> "unset"]
  /\ inits = [f \in Compiled |-> 0]
  /\ mapped = {}
  /\ at = [t \in Thread |-> "idle"]
  /\ fmt = [t \in Thread |-> Nothing]
  /\ table = [t \in Thread |-> Nothing]
  /\ handle = [t \in Thread |-> Nothing]
  /\ files = {} /\ strings = {} /\ opened = 0 /\ touched = Nothing

Goto(t, label) == at' = [at EXCEPT ![t] = label]
Hold(t, tb) == table' = [table EXCEPT ![t] = tb]
Touch(t, field) == touched' = <<table[t], field>>

-----------------------------------------------------------------------------

(* PluginBackend::open asks for the backend of a format.                   *)
Ask(t) ==
  /\ at[t] = "idle"
  /\ \E f \in Format : fmt' = [fmt EXCEPT ![t] = f]
  /\ Goto(t, "lookup")
  /\ UNCHANGED <<process, session, mapped, table, touched>>

(* load_or_get: the lock is held for the lookup alone.                     *)
Lookup(t) ==
  /\ at[t] = "lookup"
  /\ IF registry[fmt[t]] # Nothing
     THEN Hold(t, registry[fmt[t]]) /\ Goto(t, "open")
     ELSE UNCHANGED table /\ Goto(t, "resolve")
  /\ UNCHANGED <<process, session, mapped, fmt, touched>>

(* An error goes back to the caller; a Library still held is dropped.      *)
Fail(t) ==
  /\ Goto(t, "idle")
  /\ Hold(t, Nothing)
  /\ mapped' = {r \in mapped : r[1] # t}

(* load_external: the library is opened and its init gives a table.        *)
LoadExternal(t) ==
  /\ at[t] = "resolve"
  /\ \E tb \in External[fmt[t]] :
       Hold(t, tb) /\ mapped' = mapped \cup {<<t, tb.lib>>}
  /\ Goto(t, "check_abi")
  /\ UNCHANGED <<process, session, fmt, touched>>

(* It does not open, lacks the symbol, or its init returns NULL.           *)
ExternalFails(t) ==
  /\ at[t] = "resolve" /\ External[fmt[t]] # {}
  /\ Fail(t)
  /\ UNCHANGED <<process, session, fmt, touched>>

(* external_plugin_path: no variable, or not a file at this moment.        *)
NoOverride(t) ==
  /\ at[t] = "resolve"
  /\ Goto(t, "builtin")
  /\ UNCHANGED <<process, session, mapped, fmt, table, touched>>

(* Unavailable and NotBuiltin.                                             *)
NoBuiltin(t) ==
  /\ at[t] = "builtin" /\ fmt[t] \notin Compiled
  /\ Fail(t)
  /\ UNCHANGED <<process, session, fmt, touched>>

(* builtin::vtable, once the OnceLock is set: its answer is final.         *)
Builtin(t) ==
  /\ at[t] = "builtin" /\ fmt[t] \in Compiled
  /\ \/ /\ oncelock[fmt[t]] = "loaded"
        /\ Hold(t, Own(fmt[t])) /\ Goto(t, "check_abi")
        /\ UNCHANGED mapped
     \/ /\ oncelock[fmt[t]] = "failed"
        /\ Fail(t)
  /\ UNCHANGED <<process, session, fmt, touched>>

(* The first caller runs the load; OnceLock keeps the others waiting.      *)
BeginVendor(t) ==
  /\ at[t] = "builtin" /\ fmt[t] \in Compiled
  /\ oncelock[fmt[t]] = "unset"
  /\ oncelock' = [oncelock EXCEPT ![fmt[t]] = "loading"]
  /\ Goto(t, "vendor")
  /\ UNCHANGED <<registry, inits, session, mapped, fmt, table, touched>>

(* How far a vendor load can get: the variable naming the library is unset *)
(* (then a sibling of the binary or the bare name is tried), a file, or    *)
(* names no file; dlopen, each symbol and the init may fail.               *)
VendorLoad == [variable : {"unset", "file", "gone"}, opens : BOOLEAN,
               symbols : BOOLEAN, welcome : BOOLEAN]

locate_libwlf(load) == load.variable # "gone"
locate_npi(load) == load.variable # "gone"

(* wlfInit is reached once everything resolved, and may refuse.            *)
load_libwlf_once(load) ==
  LET called == locate_libwlf(load) /\ load.opens /\ load.symbols
  IN  [inits |-> IF called THEN 1 ELSE 0, ok |-> called /\ load.welcome]

(* What npi_init returns is not looked at: opens fail later.               *)
load_npi_once(load) ==
  LET called == locate_npi(load) /\ load.opens /\ load.symbols
  IN  [inits |-> IF called THEN 1 ELSE 0, ok |-> called]

(* Wrong variant: a failed load leaves the lock as its holder had it.      *)
VendorAfterForgets(result) == IF result.ok THEN "loaded" ELSE "loading"

(* Wrong variant: a failed load may be tried again.                        *)
VendorAfterRetries(result) == IF result.ok THEN "loaded" ELSE "unset"

VendorAfter(result) == IF result.ok THEN "loaded" ELSE "failed"

(* ensure_loaded: get_or_init keeps whatever the load came to.             *)
LoadVendor(t) ==
  /\ at[t] = "vendor"
  /\ \E load \in VendorLoad :
       LET result == IF fmt[t] = DesignFormat THEN load_npi_once(load)
                                              ELSE load_libwlf_once(load)
       IN  /\ inits' = [inits EXCEPT ![fmt[t]] = @ + result.inits]
           /\ oncelock' = [oncelock EXCEPT ![fmt[t]] = VendorAfter(result)]
  /\ Goto(t, "builtin")
  /\ UNCHANGED <<registry, session, mapped, fmt, table, touched>>

-----------------------------------------------------------------------------
(* register: version, required entry points, name; then the insertion.     *)

(* Wrong variant: the entry points are looked at before the version.       *)
CheckAbiLate(t) ==
  /\ at[t] = "check_abi"
  /\ Touch(t, "slots")
  /\ IF table[t].abi = Version
     THEN Goto(t, "check_slots") /\ UNCHANGED <<mapped, table>>
     ELSE Fail(t)
  /\ UNCHANGED <<process, session, fmt>>

CheckAbi(t) ==
  /\ at[t] = "check_abi"
  /\ Touch(t, "abi_version")
  /\ IF table[t].abi = Version
     THEN Goto(t, "check_slots") /\ UNCHANGED <<mapped, table>>
     ELSE Fail(t)
  /\ UNCHANGED <<process, session, fmt>>

CheckSlots(t) ==
  /\ at[t] = "check_slots"
  /\ Touch(t, "slots")
  /\ IF "required" \in table[t].slots
     THEN Goto(t, "check_name") /\ UNCHANGED <<mapped, table>>
     ELSE Fail(t)
  /\ UNCHANGED <<process, session, fmt>>

CheckName(t) ==
  /\ at[t] = "check_name"
  /\ Touch(t, "name")
  /\ IF table[t].name = fmt[t]
     THEN Goto(t, "insert") /\ UNCHANGED <<mapped, table>>
     ELSE Fail(t)
  /\ UNCHANGED <<process, session, fmt>>

(* Wrong variant: the last to resolve wins.                                *)
WinnerIsLast(t) == table[t]

(* Under the lock again: an entry made meanwhile is preferred.             *)
Winner(t) == IF registry[fmt[t]] # Nothing THEN registry[fmt[t]] ELSE table[t]

(* Wrong variant: the library is dropped at the end of register.           *)
LeakedNone(t) == {}

(* Box::leak: the library stays mapped, also the one of the loser.         *)
Leaked(t) ==
  IF table[t].lib = Nothing THEN {} ELSE {<<"process", table[t].lib>>}

Insert(t) ==
  /\ at[t] = "insert"
  /\ registry' = [registry EXCEPT ![fmt[t]] = Winner(t)]
  /\ Hold(t, Winner(t))
  /\ mapped' = {r \in mapped : r[1] # t} \cup Leaked(t)
  /\ Goto(t, "open")
  /\ UNCHANGED <<oncelock, inits, session, fmt, touched>>

-----------------------------------------------------------------------------

(* WlfBackend::open: OPEN_SEQ gives a logical name no other open has had,  *)
(* since libwlf refuses two files of one name.                             *)
NextName == opened

(* FsdbBackend::open likewise leaves one vendor file behind a session.     *)
FilesAfterOpen == files \cup {NextName}

OpenFile(t) ==
  /\ at[t] = "open" /\ opened < MaxOpens
  /\ opened' = opened + 1
  /\ handle' = [handle EXCEPT ![t] = NextName]
  /\ files' = FilesAfterOpen
  /\ Goto(t, "live")
  /\ Touch(t, "required")
  /\ UNCHANGED <<process, mapped, fmt, table, strings>>

(* WlfBackend::open closes the file again when wlfFileInfo fails.          *)
FilesAfterNoInfo == files

(* set_err: a message with a NUL in it is not handed over.                 *)
Messages(t) == {strings, strings \cup {t}}

(* NULL: there is no such file, or its header is not read.                 *)
OpenFails(t) ==
  /\ at[t] = "open" /\ opened < MaxOpens
  /\ opened' = opened + 1
  /\ files' = FilesAfterNoInfo
  /\ strings' \in Messages(t)
  /\ Goto(t, "no_file")
  /\ Touch(t, "required")
  /\ UNCHANGED <<process, mapped, fmt, table, handle>>

(* The message is the plugin's: it is copied, then given back.             *)
FreeErr(t) ==
  /\ at[t] = "no_file"
  /\ strings' = strings \ {t}
  /\ Goto(t, "idle") /\ Hold(t, Nothing)
  /\ UNCHANGED <<process, mapped, fmt, handle, files, opened, touched>>

(* file_format, date, version_str, time_range and time_step_count have a   *)
(* default where the slot is empty.                                        *)
Metadata(t) ==
  /\ at[t] = "live" /\ "metadata" \in table[t].slots
  /\ Touch(t, "metadata")
  /\ UNCHANGED <<process, session, mapped, at, fmt, table>>

(* timescale, var_decls and load_traces go through required slots.         *)
Call(t) ==
  /\ at[t] = "live"
  /\ Touch(t, "required")
  /\ UNCHANGED <<process, session, mapped, at, fmt, table>>

(* load_traces_windowed: with the slot empty, the full decode answers.     *)
CallWindowed(t) ==
  /\ at[t] = "live"
  /\ Touch(t, IF "windowed" \in table[t].slots THEN "windowed" ELSE "required")
  /\ UNCHANGED <<process, session, mapped, at, fmt, table>>

IsDesignSession(t) == table[t].lib = Nothing /\ table[t].name = DesignFormat

(* design_query casts the handle to the FsdbBackend it knows it to be.     *)
CastForDesign(t) ==
  /\ at[t] = "live" /\ IsDesignSession(t)
  /\ Touch(t, "session")
  /\ UNCHANGED <<process, session, mapped, at, fmt, table>>

(* Drop for PluginBackend, WlfBackend and FsdbBackend.                     *)
Close(t) ==
  /\ at[t] = "live"
  /\ files' = files \ {handle[t]}
  /\ handle' = [handle EXCEPT ![t] = Nothing]
  /\ Goto(t, "idle") /\ Hold(t, Nothing)
  /\ UNCHANGED <<process, mapped, fmt, strings, opened, touched>>

Resolving(t) ==
  \/ Lookup(t) \/ LoadExternal(t) \/ ExternalFails(t) \/ NoOverride(t)
  \/ NoBuiltin(t) \/ Builtin(t) \/ BeginVendor(t) \/ LoadVendor(t)
  \/ CheckAbi(t) \/ CheckSlots(t) \/ CheckName(t) \/ Insert(t)

Using(t) ==
  Metadata(t) \/ Call(t) \/ CallWindowed(t) \/ CastForDesign(t) \/ Close(t)

Opening(t) == OpenFile(t) \/ OpenFails(t) \/ FreeErr(t)

RegistryNext == \E t \in Thread : Ask(t) \/ Resolving(t) \/ Opening(t) \/ Using(t)

RegistrySpec == RegistryInit /\ [][RegistryNext]_registryvars

(* A thread inside PluginBackend::open is running code and goes on.        *)
FairSpec == RegistrySpec /\ \A t \in Thread : WF_registryvars(Resolving(t) \/ Opening(t))

-----------------------------------------------------------------------------

Callers == {"open", "no_file", "live"}

(* register's three checks.                                                *)
Sound(tb, f) ==
  tb \in Table /\ tb.abi = Version /\ "required" \in tb.slots /\ tb.name = f

RegistryTypeOK ==
  /\ registry \in [Format -> Table \cup {Nothing}]
  /\ oncelock \in [Compiled -> {"unset", "loading", "loaded", "failed"}]
  /\ mapped \subseteq (Thread \cup {"process"}) \X Lib
  /\ at \in [Thread -> {"idle", "lookup", "resolve", "builtin", "vendor",
                        "check_abi", "check_slots", "check_name", "insert"}
                       \cup Callers]
  /\ fmt \in [Thread -> Format \cup {Nothing}]
  /\ table \in [Thread -> Table \cup {Nothing}]
  /\ handle \in [Thread -> Nat \cup {Nothing}]
  /\ files \subseteq Nat /\ opened \in Nat
  /\ strings \subseteq Thread

(* What a thread knows of the table it is still checking.                  *)
Checked(t) ==
  /\ at[t] # "idle" => fmt[t] \in Format
  /\ at[t] = "vendor" => fmt[t] \in Compiled
  /\ at[t] \in {"check_abi", "check_slots", "check_name", "insert"} =>
       /\ table[t] \in Table
       /\ table[t].lib # Nothing => <<t, table[t].lib>> \in mapped
  /\ at[t] \in {"check_slots", "check_name", "insert"} => table[t].abi = Version
  /\ at[t] \in {"check_name", "insert"} => "required" \in table[t].slots
  /\ at[t] = "insert" => table[t].name = fmt[t]
  /\ at[t] \in Callers => /\ table[t] # Nothing
                          /\ table[t] = registry[fmt[t]]

(* The file a live session holds, and no other thread with it.             *)
Owned(t) ==
  /\ (handle[t] # Nothing) <=> (at[t] = "live")
  /\ handle[t] # Nothing => handle[t] \in files
  /\ \A u \in Thread : t # u /\ handle[t] # Nothing => handle[t] # handle[u]

(* What is registered passed the checks and stays mapped.                  *)
Trusted(f) ==
  registry[f] # Nothing =>
    /\ Sound(registry[f], f)
    /\ registry[f].lib # Nothing => <<"process", registry[f].lib>> \in mapped

(* A vendor has a file open only on behalf of a live session.              *)
FilesHeld == \A n \in files : n < opened /\ \E t \in Thread : handle[t] = n

MessagesPending == \A t \in strings : at[t] = "no_file"

(* The inductive invariant: what is registered passed the checks and stays *)
(* mapped; who calls calls what is registered.                             *)
RegistryInv ==
  /\ RegistryTypeOK
  /\ \A f \in Format : Trusted(f)
  /\ \A t \in Thread : Checked(t) /\ Owned(t)
  /\ FilesHeld
  /\ MessagesPending

(* Every session of a format runs on one table, however their opens raced, *)
(* and the code behind it is mapped whoever lost a race or failed: the     *)
(* entry prefers a racing thread's to keep vtable identity stable, and     *)
(* entries are never removed (plugin_backend.rs:39-53, 229-240).           *)
SessionsShareMappedTable ==
  \A t \in Thread : at[t] \in Callers =>
    /\ \A u \in Thread : at[u] \in Callers /\ fmt[t] = fmt[u]
                         => table[t] = table[u]
    /\ table[t].lib # Nothing => \E r \in mapped : r[2] = table[t].lib

(* Of a table of another version nothing but the version is read; an entry *)
(* point is called only if it is filled; a handle is taken for rwave's own *)
(* FSDB session only if it is one (plugin_backend.rs:181-198, 570-600).    *)
TablesUsedAsDeclared ==
  touched # Nothing =>
    LET tb == touched[1]  field == touched[2]
    IN  /\ tb.abi # Version => field = "abi_version"
        /\ field \in Slots => field \in tb.slots
        /\ field = "session" => tb = Own(DesignFormat)

(* LOADED_PLUGINS and each OnceLock are write-once, a failed vendor load   *)
(* being an outcome like any other, so that no vendor library is ever      *)
(* initialised twice in a process (wlf_sys.rs:228-236).                    *)
Registered == INSTANCE OnceMap WITH Key <- Format, Entry <- Table, None <- Nothing,
                                    cell <- registry
Outcome == [f \in Compiled |->
              IF oncelock[f] \in {"loaded", "failed"} THEN oncelock[f] ELSE Nothing]
Loaded == INSTANCE OnceMap WITH Key <- Compiled, Entry <- {"loaded", "failed"},
                                None <- Nothing, cell <- Outcome

WriteOnce ==
  /\ Registered!Spec /\ Loaded!Spec
  /\ [](\A f \in Compiled : inits[f] <= 1)

(* An open that was asked for ends in a session or an error: nobody waits  *)
(* for a OnceLock that is never set.                                       *)
OpenReturns ==
  \A t \in Thread : at[t] = "lookup" ~>
                      (at[t] \in {"live", "idle"} \/ opened = MaxOpens)
=============================================================================
