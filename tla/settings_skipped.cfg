SPECIFICATION Spec
CONSTANTS
  VMs = {v1}
  Disks = {d1}
  Nets = {n1}
  Files = {"settings"}
  Procs = {p1}
  None = None
  Disciplined = TRUE
  Faulty = TRUE
  Foretold = FALSE
  MaxKills = 1
CHECK_DEADLOCK FALSE
INVARIANT FilesKept
