\* PluginRegistry: two threads race for three formats and their overrides.
SPECIFICATION FairSpec
CONSTANTS
  t1 = t1
  t2 = t2
  none = none
  good = good
  old = old
  Thread = {t1, t2}
  Format <- MCFormat
  Lib = {good, old}
  External <- MCExternal
  Compiled = {"wlf", "fsdb"}
  DesignFormat = "fsdb"
  Version = 2
  MaxOpens = 2
  Nothing = none
INVARIANTS
  RegistryInv
  TablesUsedAsDeclared
  SessionsShareMappedTable
PROPERTIES
  WriteOnce
  OpenReturns
CHECK_DEADLOCK FALSE
