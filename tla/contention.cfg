SPECIFICATION FairSpec
CONSTANTS
  VMs = {v1}
  Disks = {d1}
  Nets = {n1}
  Files = {}
  Procs = {p1, p2}
  None = None
  Disciplined = FALSE
  Faulty = FALSE
  Foretold = FALSE
  MaxKills = 2
CHECK_DEADLOCK FALSE
PROPERTY CallsReturn
