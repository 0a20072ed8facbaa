SPECIFICATION Spec
CONSTANTS
  IPs = {a}
  Worker = worker
  WebThreads = {web1}
  NoIP = NoIP
  NoRow = NoRow
  Faults = {}
  WebOps = {"block"}
  AdminDeletes = FALSE
  Serial = FALSE
  MaxBreaches = 1
INVARIANT OneAlertPerAddress
