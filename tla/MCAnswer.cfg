SPECIFICATION Spec
CONSTANTS
  IPs = {a}
  Worker = worker
  WebThreads = {web1}
  NoIP = NoIP
  NoRow = NoRow
  Faults = {"refuse"}
  WebOps = {"block", "unblock"}
  AdminDeletes = FALSE
  Serial = TRUE
  MaxBreaches = 0
INVARIANT AnswerMatchesFirewall
