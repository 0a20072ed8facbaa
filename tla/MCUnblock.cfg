SPECIFICATION CSpec
CONSTANTS
  IPs = {a}
  Worker = worker
  WebThreads = {web1, web2}
  NoIP = NoIP
  NoRow = NoRow
  Faults = {"refuse"}
  WebOps = {"block", "unblock"}
  AdminDeletes = FALSE
  Serial = FALSE
  MaxBreaches = 1
  Interfaces = {"bot"}
  Garbage = Garbage
  Slashes = {"none", "one"}
SYMMETRY WebThreadSymmetry
INVARIANTS
  DenialsAreUndoable
  FailureMeansNoEffect
PROPERTY RecordsCreatedUnderRule
