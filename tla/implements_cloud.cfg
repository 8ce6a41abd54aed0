SPECIFICATION Spec
CONSTANTS
  VMs = {v1}
  Disks = {d1, d2}
  Nets = {n1}
  Files = {"settings", "records"}
  Procs = {p1}
  None = None
  Disciplined = TRUE
  Faulty = TRUE
  Foretold = FALSE
  MaxKills = 2
CHECK_DEADLOCK FALSE
PROPERTY ImplementsCloud
