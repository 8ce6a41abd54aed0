SPECIFICATION Spec
CONSTANTS
  VMs = {v1}
  Disks = {d1, d2}
  Nets = {n1, n2, n3}
  Files = {}
  Procs = {p1, p2}
  None = None
  Disciplined = TRUE
  Faulty = TRUE
  Foretold = TRUE
  MaxKills = 2
CHECK_DEADLOCK FALSE
SYMMETRY Symmetry
INVARIANTS TypeOK EnvListsMounts NoBlankDisk DeletedStaysGone OnAllNetworks SuccessIsReal CallsRecover AnswersAgree
