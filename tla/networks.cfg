SPECIFICATION Spec
CONSTANTS
  front = front
  back = back
  old = old
  None = None
  Names <- MCNames
  Subnets <- MCSubnets
  V6Subnets <- MCV6Subnets
  Requests <- MCRequests
  Made <- MCMade
  Procs = {p1, p2}
  Faulty = TRUE
INVARIANTS OwnNetworks NoneRefused AddressesLeft
