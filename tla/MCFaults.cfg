SPECIFICATION CSpec
CONSTANTS
  IPs = {a, b}
  Worker = worker
  WebThreads = {web1}
  NoIP = NoIP
  NoRow = NoRow
  Faults = {"raise", "crash"}
  WebOps = {"block"}
  AdminDeletes = TRUE
  Serial = FALSE
  MaxBreaches = 2
  Interfaces = {"cli"}
  Garbage = Garbage
  Slashes = {"one", "many"}
INVARIANTS
  RecordsAreEnforced
  FlagsAreEnforced
  SuccessMeansDenied
PROPERTY CountedBlocksAreEnforced
