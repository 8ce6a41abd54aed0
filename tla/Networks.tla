------------------------------ MODULE Networks ------------------------------
(***************************************************************************)
(* vm/networks.go: Enable, with which create_vm makes the engine's networks *)
(* for the networks the Director names, while other calls do the same.     *)
(*                                                                         *)
(* The engine is outside the repository: it makes a network at once, and   *)
(* refuses a name that it has and a subnet that overlaps.                  *)
(***************************************************************************)
CONSTANTS
  Names,    \* names of engine networks in cloud properties
  Subnets,  \* sets of addresses; a subnet is also the name made of its CIDR
  V6Subnets, \* those of IPv6 addresses
  Requests, \* the networks of a VM: sets of [name, subnet, enableIPv6]
  Made,     \* engine networks an operator may have made: sets of [name, subnet]
  Procs,    \* slots for create_vm
  None,     \* no name; no subnet: the network is dynamic; no engine network
  Faulty    \* NetworkCreate fails, or its reply is lost

ASSUME RequestAssumption ==
  /\ V6Subnets \subseteq Subnets
  /\ \A R \in Requests : R # {} /\ \A n \in R : n.name \in Names \cup {None}
                                             /\ n.subnet \in Subnets \cup {None}
                                             /\ n.enableIPv6 \in BOOLEAN
  /\ \A M \in Made : \A n \in M : n.name \in Names /\ n.subnet \in Subnets

Keys == Names \cup Subnets
\* The addresses the engine picks for a dynamic network overlap with no other.
AutoSubnet == {}

VARIABLES
  docker,  \* docker[k]: the engine's network k as [subnet, v6], or None
  call     \* the Enables that run
vars == <<docker, call>>

\* todo: networks not yet enabled; ends: EndpointsConfig, by name or ID; only6:
\* onlyHasIPv6Networks, for which the VM is started with a command that removes
\* its IPv4 addresses.
Idle == [st |-> "idle", why |-> "", asked |-> {}, todo |-> {}, ends |-> <<>>, only6 |-> TRUE]

Network(s, v6) == [subnet |-> s, v6 |-> v6]
Init ==
  /\ \E M \in Made :
       docker = [k \in Keys |->
         IF \A n \in M : n.name # k THEN None
         ELSE LET s == (CHOOSE n \in M : n.name = k).subnet IN Network(s, s \in V6Subnets)]
  /\ call = [p \in Procs |-> Idle]

Conflicts(s) == {k \in Keys : docker[k] # None /\ docker[k].subnet \cap s # {}}

-----------------------------------------------------------------------------
Begin(p) ==
  /\ call[p].st = "idle"
  /\ \E R \in Requests :
       call' = [call EXCEPT ![p] = [Idle EXCEPT !.st = "enable", !.asked = R, !.todo = R]]
  /\ UNCHANGED docker

\* The address of a manual network is in its subnet; a dynamic one has none.
IsV6(n) == n.subnet \in V6Subnets
EnableIPv6AsGiven(n) == n.enableIPv6
EnableIPv6(n) == n.enableIPv6 \/ IsV6(n)

\* The name of the network and, made of it, its endpoint.
NameOf(n) == IF n.name # None THEN n.name ELSE n.subnet
WithEnd(E, key, n) == [j \in DOMAIN E \cup {key} |-> IF j = key THEN n ELSE E[j]]
Enabled(p, n, key) ==
  call' = [call EXCEPT ![p].todo = @ \ {n}, ![p].ends = WithEnd(@, key, n),
                       ![p].only6 = @ /\ IsV6(n)]
\* why: the request is wrong, the engine failed, or another has the network.
Fails(p, why) == call' = [call EXCEPT ![p].st = "err", ![p].why = why]

\* createManualNetwork on "conflicts with network <id>".
OwnNameOnConflict(p, n, k) == Enabled(p, n, <<"name", NameOf(n)>>)
OnConflict(p, n, k) == IF n.name # None THEN Fails(p, "taken") ELSE Enabled(p, n, <<"id", k>>)

\* createDynamic- and createManualNetwork on "already exists".
FailOnExists(p, n) == Fails(p, "taken")
OnExists(p, n) == Enabled(p, n, <<"name", NameOf(n)>>)

\* enableSingleNetwork, for the networks in the order of Go's map.
EnableOne(p) ==
  /\ call[p].st = "enable"
  /\ \E n \in call[p].todo :
       LET s == IF n.subnet = None THEN AutoSubnet ELSE n.subnet
           k == NameOf(n)
           create == docker' = [docker EXCEPT ![k] = Network(s, EnableIPv6(n))] IN
       \/ n.subnet = None /\ n.name = None /\ Fails(p, "wrong") /\ UNCHANGED docker
       \/ /\ k # None
          /\ \/ docker[k] # None /\ OnExists(p, n) /\ UNCHANGED docker
             \/ /\ docker[k] = None /\ Conflicts(s) = {}
                /\ create /\ Enabled(p, n, <<"name", k>>)
             \/ /\ docker[k] = None /\ UNCHANGED docker
                /\ \E other \in Conflicts(s) : OnConflict(p, n, other)
             \/ /\ Faulty /\ Fails(p, "engine")
                /\ \/ UNCHANGED docker
                   \/ docker[k] = None /\ Conflicts(s) = {} /\ create

Finish(p) ==
  /\ call[p].st = "enable" /\ call[p].todo = {}
  /\ call' = [call EXCEPT ![p].st = "ok"]
  /\ UNCHANGED docker

\* The networks stay; the call goes on, or ends with an error.
Leave(p) ==
  /\ call[p].st \in {"ok", "err"}
  /\ call' = [call EXCEPT ![p] = Idle]
  /\ UNCHANGED docker

Next == \E p \in Procs : Begin(p) \/ EnableOne(p) \/ Finish(p) \/ Leave(p)

Spec == Init /\ [][Next]_vars

-----------------------------------------------------------------------------
(* Properties, for requests that are Consistent: subnets are equal or      *)
(* disjoint, the networks of a VM are told apart by name or subnet, and in *)
(* all requests one name is one subnet, and a subnet that is asked for by  *)
(* name is never asked for, or made, under another.                        *)

Wanted == UNION Requests
Consistent ==
  /\ None \notin Keys /\ Names \cap Subnets = {}
  /\ \A s \in Subnets \cup {AutoSubnet}, v6 \in BOOLEAN : Network(s, v6) # None
  /\ \A s, t \in Subnets : s # {} /\ (s # t => s \cap t = {})
  /\ \A R \in Requests : \A m, n \in R : m # n => NameOf(m) # NameOf(n)
  /\ \A M \in Made \cup {{}} : \A m, n \in Wanted \cup M :
       m.name = n.name /\ m.name # None => m.subnet = n.subnet
  /\ \A M \in Made \cup {{}} : \A m \in Wanted \cup M, n \in Wanted :
       m.subnet = n.subnet /\ m.subnet # None /\ n.name # None => m.name = n.name

Enablings == {p \in Procs : call[p].st = "ok"}
NetworkOf(key) == docker[key[2]]

\* Every network of the VM has an endpoint of its own, on an engine network of
\* its own, that has the subnet it asked for: also when the network was there
\* under another name, or another create_vm made it first.
OwnNetworks ==
  \A p \in Enablings :
    LET ends == call[p].ends IN
    /\ \A n \in call[p].asked : \E key \in DOMAIN ends : ends[key] = n
    /\ \A j, k \in DOMAIN ends : j # k => j[2] # k[2]
    /\ \A k \in DOMAIN ends : /\ NetworkOf(k) # None
                              /\ ends[k].subnet # None => NetworkOf(k).subnet = ends[k].subnet

\* A VM that is started without its IPv4 addresses has been given none, and can
\* have its IPv6 addresses: each of its networks has IPv6, whoever made it. Any
\* other VM has a network of IPv4.
AddressesLeft ==
  \A p \in Enablings :
    LET keys == DOMAIN call[p].ends IN
    IF call[p].only6
    THEN \A k \in keys : NetworkOf(k).v6 /\ call[p].ends[k].subnet \in V6Subnets
    ELSE \E k \in keys : call[p].ends[k].subnet \notin V6Subnets

\* No create_vm fails because a network is there already: not when two make one
\* at once, nor when one that failed had made it.
NoneRefused == \A p \in Procs : call[p].why # "taken"
=============================================================================
