----------------------------- MODULE MCNetworks -----------------------------
(***************************************************************************)
(* Networks on small instances: three subnets; one network of a deployment *)
(* is named, two are not, one is dynamic; an operator may have made a      *)
(* network with the subnet of one that is not named.  Two subnets are IPv6. *)
(***************************************************************************)
EXTENDS Networks

CONSTANTS front, back, old

MCNames == {front, back, old}
MCSubnets == {{1, 2}, {3, 4}, {5, 6}}
MCV6Subnets == {{3, 4}, {5, 6}}
Asked(name, subnet) == [name |-> name, subnet |-> subnet, enableIPv6 |-> FALSE]
Named == Asked(front, {1, 2})
Unnamed == Asked(None, {3, 4})
Other == Asked(None, {5, 6})
Dynamic == [Asked(back, None) EXCEPT !.enableIPv6 = TRUE]
Nameless == Asked(None, None)
MCRequests == (SUBSET {Named, Unnamed, Other, Dynamic} \ {{}}) \cup {{Nameless, Other}}
MCMade == {{}, {[name |-> old, subnet |-> {3, 4}]}}

ASSUME RequestsConsistent == Consistent
=============================================================================
