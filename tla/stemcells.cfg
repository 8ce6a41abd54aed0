SPECIFICATION Spec
CONSTANTS
  local = local
  remote = remote
  c1 = c1
  c2 = c2
  Hosts <- MCHosts
  UnixHosts <- MCUnixHosts
  Contents <- MCContents
  Submissions <- MCSubmissions
  Defaults <- MCDefaults
  Uuids = {u1, u2}
  Stems = {s1, s2}
  Procs = {p1, p2}
  None = None
  Garbage = Garbage
  RequireImageVerification = TRUE
  Serial <- MCSerial
  Faulty = TRUE
  Late <- MCLate
SYMMETRY Symmetry
INVARIANTS OrderlyVerified HeldPresent RoutedByManifest
PROPERTY OnlyIntendedEngine
