SPECIFICATION Spec
CONSTANTS
  IPs = {a}
  Worker = worker
  WebThreads = {web1}
  NoIP = NoIP
  NoRow = NoRow
  Faults = {}
  WebOps = {"block", "unblock"}
  AdminDeletes = FALSE
  Serial = TRUE
  MaxBreaches = 2
INVARIANT HandledBreachIsDenied
