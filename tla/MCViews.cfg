SPECIFICATION VFairSpec
CONSTANTS
  IPs = {a}
  Worker = worker
  WebThreads = {web1, web2}
  NoIP = NoIP
  NoRow = NoRow
  Faults = {}
  WebOps = {"block"}
  AdminDeletes = FALSE
  Serial = FALSE
  MaxBreaches = 3
  ListLimit = 1
  BlockedLimit = 2
INVARIANTS
  TypeOK
  QuiescentAgreement
  AttemptsAccounted
PROPERTIES
  BreachIsEnforced
  StatusMissesOnlyBreaches
