SPECIFICATION Spec
CONSTANTS
  VMs = {v1}
  Disks = {d1, d2}
  Nets = {n1, n2}
  Files = {"settings", "records"}
  Procs = {p1, p2}
  None = None
  Disciplined = TRUE
  Faulty = FALSE
  Foretold = FALSE
  MaxKills = 2
CHECK_DEADLOCK FALSE
INVARIANTS FilesKept NothingFails
