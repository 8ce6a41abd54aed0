------------------------------- MODULE Options -------------------------------
(***************************************************************************)
(* main/main.go, config/config.go and cpi/factory.go: the options of the   *)
(* Docker client of a call.  The CPI has default options in its            *)
(* configuration; the Director can send others in the context of a call.   *)
(***************************************************************************)
CONSTANTS
  Hosts,     \* the engines
  UnixHosts, \* those reached through a socket of the machine
  None,      \* an option that is empty
  Garbage    \* a certificate or key that does not parse

ASSUME HostAssumption == UnixHosts \subseteq Hosts /\ {None, Garbage} \cap Hosts = {}

\* A certificate, or a key, is named for the engine whose operator made it.
Pems == Hosts \cup {None, Garbage}
\* Options that do not parse have the host Garbage.
DockerOpts == [host : Pems, version : BOOLEAN,
               ca : Pems, certificate : Pems, privateKey : Pems]

RequiresTLS(o) == o.host \notin UnixHosts

Validate(o) ==
  /\ o.host \notin {None, Garbage}
  /\ o.version
  /\ RequiresTLS(o) => None \notin {o.ca, o.certificate, o.privateKey}

\* The context replaces the defaults as a whole, or not at all.
LenientOptsFor(ctx, defaults) == IF Validate(ctx) THEN {ctx} ELSE {defaults}
OptsFor(ctx, defaults) ==
  IF ctx.host = None THEN {defaults} ELSE {o \in {ctx} : Validate(o)}

\* httpClient, whose certificates have to parse and to fit each other.
HasClient(o) ==
  RequiresTLS(o) => Garbage \notin {o.ca, o.certificate} /\ o.certificate = o.privateKey

\* What a call can use: nothing, if the process ends or the call is refused.
ClientOpts(ctx, defaults) ==
  {o \in OptsFor(ctx, defaults) : Validate(defaults) /\ HasClient(o)}

\* The engine and the client check each other's certificates.
Accepts(o) == RequiresTLS(o) => {o.ca, o.certificate} = {o.host}
=============================================================================
