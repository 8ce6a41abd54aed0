SPECIFICATION Spec
CONSTANTS
  VMs = {v1, v2}
  Disks = {d1}
  Nets = {n1}
  Files = {}
  Procs = {p1, p2}
  None = None
  Disciplined = TRUE
  Faulty = TRUE
  Foretold = FALSE
  MaxKills = 2
CHECK_DEADLOCK FALSE
INVARIANT DiskInOneVM
