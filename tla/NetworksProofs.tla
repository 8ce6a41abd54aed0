--------------------------- MODULE NetworksProofs ---------------------------
(***************************************************************************)
(* A VM is on the networks it asked for, and no create_vm fails because    *)
(* they are there, for any requests that are Consistent and any calls.     *)
(***************************************************************************)
EXTENDS Networks, TLAPS

SubnetOf(n) == IF n.subnet = None THEN AutoSubnet ELSE n.subnet
Bridges == [subnet : Subnets \cup {AutoSubnet}, v6 : BOOLEAN]
Docker == [Keys -> Bridges \cup {None}]
EndKeys == {"name", "id"} \X Keys
Endpoints == UNION {[D -> Wanted] : D \in SUBSET EndKeys}
Calls == [st : {"idle", "enable", "ok", "err"}, why : {"", "wrong", "engine", "taken"},
          asked : SUBSET Wanted, todo : SUBSET Wanted, ends : Endpoints, only6 : BOOLEAN]

Types == docker \in Docker /\ call \in [Procs -> Calls]

\* A network of the engine is what its name stands for in every request.
Meant(k) ==
  docker[k] # None =>
    /\ k \in Subnets => docker[k].subnet = k
    /\ docker[k].subnet \in V6Subnets => docker[k].v6
    /\ \A n \in Wanted : n.name = k => docker[k].subnet = SubnetOf(n)
    /\ \A n \in Wanted :
         n.name # None /\ n.subnet # None /\ n.subnet = docker[k].subnet => n.name = k

\* The endpoint is on one of the networks D that has the subnet of n.
Serves(D, key, n) ==
  /\ key[2] \in Keys /\ D[key[2]] # None /\ D[key[2]].subnet = SubnetOf(n)
  /\ n.subnet = None => key[2] = NameOf(n)

\* What is enabled has one endpoint, and what has one is enabled.
Enabling(p) ==
  LET c == call[p]
      done == c.asked \ c.todo IN
  /\ c.asked \in Requests \cup {{}} /\ c.todo \subseteq c.asked
  /\ c.st = "ok" => c.todo = {} /\ c.asked \in Requests
  /\ c.st = "enable" => c.asked \in Requests
  /\ \A n \in done : \E key \in DOMAIN c.ends : c.ends[key] = n
  /\ \A key \in DOMAIN c.ends : c.ends[key] \in done /\ Serves(docker, key, c.ends[key])
  /\ \A j, k \in DOMAIN c.ends : c.ends[j] = c.ends[k] => j = k
  /\ c.only6 <=> \A n \in done : IsV6(n)
  /\ c.why # "taken"

NetInv ==
  Types /\ (\A k \in Keys : Meant(k)) /\ \A p \in Procs : Enabling(p)

-----------------------------------------------------------------------------
(* Requests, endpoints and records.                                        *)

LEMMA Parts ==
  ASSUME Consistent, NEW n \in Wanted
  PROVE  /\ n.name \in Names \cup {None} /\ n.subnet \in Subnets \cup {None}
         /\ n.enableIPv6 \in BOOLEAN
         /\ SubnetOf(n) \in Subnets \cup {AutoSubnet}
         /\ n.subnet # None => SubnetOf(n) = n.subnet /\ n.subnet # AutoSubnet
         /\ SubnetOf(n) \in V6Subnets <=> IsV6(n)
         /\ NameOf(n) # None => NameOf(n) \in Keys
BY RequestAssumption DEF Wanted, Consistent, SubnetOf, IsV6, NameOf, Keys, AutoSubnet

\* Two networks of a request cannot be served by one engine network.
LEMMA Apart ==
  ASSUME Consistent, NEW R \in Requests, NEW n \in R, NEW m \in R, n # m, NEW j, NEW k,
         n.subnet = None => j = NameOf(n), m.subnet = None => k = NameOf(m),
         SubnetOf(n) = SubnetOf(m)
  PROVE  j # k
<1>1. n \in Wanted /\ m \in Wanted
  BY DEF Wanted
<1>2. NameOf(n) # NameOf(m)
  BY DEF Consistent
<1>3. SUFFICES ASSUME j = k PROVE FALSE
  OBVIOUS
<1>5. CASE n.subnet = None
  <2>1. m.subnet = None
    BY <1>1, <1>5, Parts DEF SubnetOf
  <2> QED
    BY <1>2, <1>3, <1>5, <2>1
<1>6. CASE n.subnet # None
  <2>1. m.subnet = n.subnet
    BY <1>1, <1>6, Parts DEF SubnetOf
  <2>2. n.name # None \/ m.name # None => n.name = m.name
    BY <1>1, <1>6, <2>1 DEF Consistent, Wanted
  <2> QED
    BY <1>2, <2>1, <2>2 DEF NameOf
<1> QED
  BY <1>5, <1>6

LEMMA OneMore ==
  ASSUME NEW E \in Endpoints, NEW key \in EndKeys, NEW n \in Wanted
  PROVE  LET F == WithEnd(E, key, n) IN
         /\ F \in Endpoints /\ DOMAIN F = DOMAIN E \cup {key}
         /\ F[key] = n
         /\ \A j \in DOMAIN E : j # key => F[j] = E[j]
<1>1. PICK D \in SUBSET EndKeys : E \in [D -> Wanted]
  BY DEF Endpoints
<1> DEFINE F == WithEnd(E, key, n)
<1>2. F \in [D \cup {key} -> Wanted] /\ D \cup {key} \in SUBSET EndKeys
  BY <1>1 DEF WithEnd
<1> QED
  BY <1>1, <1>2 DEF Endpoints, WithEnd

-----------------------------------------------------------------------------
(* The steps.                                                              *)

LEMMA Nothing == <<>> \in Endpoints /\ DOMAIN <<>> = {}
<1>1. <<>> \in [{} -> Wanted]
  OBVIOUS
<1> QED
  BY <1>1 DEF Endpoints

LEMMA InitInv == ASSUME Consistent, Init PROVE NetInv
<1>1. PICK M \in Made :
        docker = [k \in Keys |->
          IF \A n \in M : n.name # k THEN None
          ELSE LET s == (CHOOSE n \in M : n.name = k).subnet IN Network(s, s \in V6Subnets)]
  BY DEF Init
<1>2. ASSUME NEW k \in Keys, docker[k] # None
      PROVE  \E n \in M : /\ n.name = k /\ n \in Wanted \cup M
                          /\ docker[k] = Network(n.subnet, n.subnet \in V6Subnets)
  <2> DEFINE m == CHOOSE n \in M : n.name = k
  <2>1. \E n \in M : n.name = k
    BY <1>1, <1>2
  <2>2. m \in M /\ m.name = k
    BY <2>1
  <2> QED
    BY <1>1, <2>1, <2>2
<1>3. \A n \in M : n.name \in Names /\ n.subnet \in Subnets
  BY RequestAssumption
<1>4. docker \in Docker
  <2>1. ASSUME NEW k \in Keys PROVE docker[k] \in Bridges \cup {None}
    <3>1. CASE docker[k] = None
      BY <3>1
    <3>2. CASE docker[k] # None
      <4>1. PICK n \in M : docker[k] = Network(n.subnet, n.subnet \in V6Subnets)
        BY <1>2, <3>2
      <4>2. CASE n.subnet \in V6Subnets
        BY <1>3, <4>1, <4>2 DEF Network, Bridges
      <4>3. CASE n.subnet \notin V6Subnets
        BY <1>3, <4>1, <4>3 DEF Network, Bridges
      <4> QED
        BY <4>2, <4>3
    <3> QED
      BY <3>1, <3>2
  <2> QED
    BY <1>1, <2>1 DEF Docker
<1>5. ASSUME NEW k \in Keys PROVE Meant(k)
  <2> SUFFICES ASSUME docker[k] # None PROVE Meant(k)
    BY DEF Meant
  <2>1. PICK m \in M : /\ m.name = k
                       /\ docker[k] = Network(m.subnet, m.subnet \in V6Subnets)
    BY <1>2
  <2>2. docker[k].subnet = m.subnet /\ docker[k].v6 = (m.subnet \in V6Subnets)
    BY <2>1 DEF Network
  <2>3. k \in Names /\ k # None /\ m.subnet \in Subnets /\ m.subnet # None
    BY <1>3, <2>1 DEF Consistent, Keys
  <2>4. \A n \in Wanted : n.name = k => n.subnet = m.subnet
    BY <2>1, <2>3 DEF Consistent
  <2>5. \A n \in Wanted : n.name # None /\ n.subnet = m.subnet => n.name = k
    BY <2>1, <2>3 DEF Consistent
  <2> QED
    BY <2>2, <2>3, <2>4, <2>5 DEF Meant, SubnetOf, Consistent
<1>6. <<>> \in Endpoints /\ DOMAIN <<>> = {}
  BY Nothing
<1>7. call \in [Procs -> Calls]
  BY <1>6 DEF Init, Idle, Calls
<1>8. ASSUME NEW p \in Procs PROVE Enabling(p)
  BY <1>6 DEF Init, Idle, Enabling
<1> QED
  BY <1>4, <1>5, <1>7, <1>8 DEF NetInv, Types

\* A network that is there stays, and serves whom it served.
LEMMA Grows ==
  ASSUME Consistent, NetInv, NEW p \in Procs, Enabling(p)', call' \in [Procs -> Calls],
         \A q \in Procs : q # p => call'[q] = call[q],
         docker' \in Docker, \A k \in Keys : Meant(k)',
         \A k \in Keys : docker[k] # None => docker'[k] = docker[k]
  PROVE  NetInv'
<1>1. ASSUME NEW q \in Procs, q # p PROVE Enabling(q)'
  <2>1. Enabling(q) /\ call'[q] = call[q]
    BY <1>1 DEF NetInv
  <2>2. \A key, n : Serves(docker, key, n) => Serves(docker', key, n)
    BY DEF Serves
  <2> QED
    BY <2>1, <2>2 DEF Enabling
<1> QED
  BY <1>1 DEF NetInv, Types

LEMMA FailsInv ==
  ASSUME NetInv, NEW p \in Procs, NEW why \in {"wrong", "engine"}, Fails(p, why)
  PROVE  /\ call' \in [Procs -> Calls] /\ \A q \in Procs : q # p => call'[q] = call[q]
         /\ (\A k \in Keys : docker[k] # None => docker'[k] = docker[k]) => Enabling(p)'
<1>1. call[p] \in Calls
  BY DEF NetInv, Types
<1>2. call'[p] = [call[p] EXCEPT !.st = "err", !.why = why]
  BY DEF Fails, NetInv, Types
<1>3. call'[p] \in Calls
  BY <1>1, <1>2 DEF Calls
<1>4. call' \in [Procs -> Calls] /\ \A q \in Procs : q # p => call'[q] = call[q]
  BY <1>3 DEF Fails, NetInv, Types
<1>5. ASSUME \A k \in Keys : docker[k] # None => docker'[k] = docker[k] PROVE Enabling(p)'
  <2>1. /\ call'[p].st = "err" /\ call'[p].why = why
        /\ call'[p].asked = call[p].asked /\ call'[p].todo = call[p].todo
        /\ call'[p].ends = call[p].ends /\ call'[p].only6 = call[p].only6
    BY <1>1, <1>2 DEF Calls
  <2>2. \A key, n : Serves(docker, key, n) => Serves(docker', key, n)
    BY <1>5 DEF Serves
  <2>3. Enabling(p)
    BY DEF NetInv
  <2> QED
    BY <2>1, <2>2, <2>3 DEF Enabling
<1> QED
  BY <1>4, <1>5

\* A network that is enabled gets an endpoint of its own.
LEMMA EnabledInv ==
  ASSUME Consistent, NetInv, NEW p \in Procs, call[p].st = "enable",
         NEW n \in call[p].todo, NEW key \in EndKeys, Enabled(p, n, key),
         Serves(docker', key, n), docker' \in Docker,
         \A k \in Keys : docker[k] # None => docker'[k] = docker[k]
  PROVE  /\ call' \in [Procs -> Calls] /\ \A q \in Procs : q # p => call'[q] = call[q]
         /\ Enabling(p)'
<1> DEFINE c == call[p]
<1> DEFINE d == call'[p]
<1> DEFINE F == WithEnd(c.ends, key, n)
<1>1. c \in Calls /\ Enabling(p)
  BY DEF NetInv, Types
<1>2. n \in Wanted /\ n \in c.asked /\ c.asked \in Requests
  <2>1. c.todo \subseteq c.asked /\ c.asked \in Requests
    BY <1>1 DEF Enabling
  <2> QED
    BY <2>1 DEF Wanted
<1>3. d = [c EXCEPT !.todo = @ \ {n}, !.ends = F, !.only6 = @ /\ IsV6(n)]
  BY DEF Enabled, NetInv, Types
<1>4. /\ F \in Endpoints /\ DOMAIN F = DOMAIN c.ends \cup {key} /\ F[key] = n
      /\ \A j \in DOMAIN c.ends : j # key => F[j] = c.ends[j]
  <2>1. c.ends \in Endpoints
    BY <1>1 DEF Calls
  <2> QED
    BY <1>2, <2>1, OneMore, ZenonT(40)
<1> HIDE DEF F
<1>5. /\ d.st = "enable" /\ d.why = c.why /\ d.asked = c.asked /\ d.todo = c.todo \ {n}
      /\ d.ends = F /\ d.only6 = (c.only6 /\ IsV6(n))
  BY <1>1, <1>3 DEF Calls
<1>6. d \in Calls
  <2>1. c.todo \ {n} \in SUBSET Wanted /\ (c.only6 /\ IsV6(n)) \in BOOLEAN /\ F \in Endpoints
    BY <1>1, <1>4 DEF Calls
  <2> QED
    BY <1>1, <1>3, <2>1 DEF Calls
<1>7. call' \in [Procs -> Calls] /\ \A q \in Procs : q # p => call'[q] = call[q]
  BY <1>6 DEF Enabled, NetInv, Types
<1>8. d.asked \ d.todo = (c.asked \ c.todo) \cup {n}
  BY <1>1, <1>2, <1>5 DEF Enabling
<1>9. \A j \in DOMAIN c.ends : /\ c.ends[j] \in c.asked \ c.todo /\ c.ends[j] # n
                               /\ Serves(docker', j, c.ends[j])
  BY <1>1 DEF Enabling, Serves
<1>11. \A j \in DOMAIN c.ends : j[2] # key[2] /\ j # key
  <2> SUFFICES ASSUME NEW j \in DOMAIN c.ends PROVE j[2] # key[2]
    OBVIOUS
  <2> DEFINE m == c.ends[j]
  <2>1. m \in c.asked /\ m # n /\ Serves(docker', j, m)
    BY <1>9
  <2> HIDE DEF m
  <2>2. SubnetOf(m) = docker'[j[2]].subnet /\ SubnetOf(n) = docker'[key[2]].subnet
        /\ (m.subnet = None => j[2] = NameOf(m)) /\ (n.subnet = None => key[2] = NameOf(n))
    BY <2>1 DEF Serves
  <2> QED
    BY <1>2, <2>1, <2>2, Apart
<1>12. Enabling(p)'
  <2>1. \A m \in d.asked \ d.todo : \E k \in DOMAIN d.ends : d.ends[k] = m
    <3> SUFFICES ASSUME NEW m \in d.asked \ d.todo, m # n
                 PROVE  \E k \in DOMAIN F : F[k] = m
      BY <1>4, <1>5
    <3>1. PICK k \in DOMAIN c.ends : c.ends[k] = m
      BY <1>1, <1>8 DEF Enabling
    <3> QED
      BY <1>4, <1>11, <3>1
  <2>2. \A k \in DOMAIN d.ends : d.ends[k] \in d.asked \ d.todo /\ Serves(docker', k, d.ends[k])
    BY <1>4, <1>5, <1>8, <1>9
  <2>3. \A j, k \in DOMAIN d.ends : d.ends[j] = d.ends[k] => j = k
    BY <1>1, <1>4, <1>5, <1>9 DEF Enabling
  <2>4. d.only6 <=> \A m \in d.asked \ d.todo : IsV6(m)
    BY <1>1, <1>5, <1>8 DEF Enabling
  <2> QED
    BY <1>1, <1>5, <2>1, <2>2, <2>3, <2>4 DEF Enabling, Serves
<1> QED
  BY <1>7, <1>12

\* A network that is made is one its name may stand for.
LEMMA Creates ==
  ASSUME Consistent, NetInv, NEW n \in Wanted, NameOf(n) # None, docker[NameOf(n)] = None,
         docker' = [docker EXCEPT ![NameOf(n)] = Network(SubnetOf(n), EnableIPv6(n))]
  PROVE  /\ docker' \in Docker /\ \A k \in Keys : Meant(k)'
         /\ \A k \in Keys : docker[k] # None => docker'[k] = docker[k]
         /\ Serves(docker', <<"name", NameOf(n)>>, n)
<1> DEFINE i == NameOf(n)
<1> DEFINE b == Network(SubnetOf(n), EnableIPv6(n))
<1>1. /\ i \in Keys /\ SubnetOf(n) \in Subnets \cup {AutoSubnet}
      /\ n.subnet # None => SubnetOf(n) = n.subnet /\ n.subnet # AutoSubnet
      /\ SubnetOf(n) \in V6Subnets <=> IsV6(n)
  BY Parts
<1>2. b \in Bridges /\ b.subnet = SubnetOf(n) /\ (b.v6 <=> EnableIPv6(n))
  BY <1>1 DEF Network, Bridges, EnableIPv6
<1>3. b # None
  BY <1>1 DEF Consistent, EnableIPv6
<1>4. docker \in Docker /\ docker' = [docker EXCEPT ![i] = b]
  BY DEF NetInv, Types
<1> HIDE DEF b, i
<1>5. docker' \in Docker /\ docker'[i] = b /\ \A k \in Keys : k # i => docker'[k] = docker[k]
  BY <1>1, <1>2, <1>4 DEF Docker
<1>6. ASSUME NEW k \in Keys, k # i PROVE Meant(k)'
  BY <1>5, <1>6 DEF NetInv, Meant
<1>7. Meant(i)'
  <2>1. i \in Subnets => n.name = None /\ n.subnet = i /\ SubnetOf(n) = i
    BY <1>1, Parts DEF i, NameOf, Consistent
  <2>2. b.subnet \in V6Subnets => b.v6
    BY <1>1, <1>2 DEF EnableIPv6
  <2>3. ASSUME NEW m \in Wanted, m.name = i PROVE SubnetOf(m) = SubnetOf(n)
    <3>1. m.name # None /\ m.name \in Names
      BY <1>1, <2>3, Parts DEF Consistent
    <3>2. n.name = i
      <4>1. n.name = None => n.subnet = i /\ n.subnet \in Subnets
        BY <2>3, <3>1, Parts DEF i, NameOf
      <4> QED
        BY <2>3, <3>1, <4>1 DEF i, NameOf, Consistent
    <3> QED
      BY <2>3, <3>1, <3>2 DEF Consistent, SubnetOf
  <2>4. ASSUME NEW m \in Wanted, m.name # None, m.subnet # None, m.subnet = SubnetOf(n)
        PROVE  m.name = i
    <3>1. n.subnet = m.subnet
      BY <1>1, <2>4, Parts DEF SubnetOf
    <3>2. n.name = m.name
      BY <2>4, <3>1 DEF Consistent
    <3> QED
      BY <2>4, <3>2 DEF i, NameOf
  <2> QED
    BY <1>2, <1>5, <2>1, <2>2, <2>3, <2>4 DEF Meant
<1>8. Serves(docker', <<"name", i>>, n)
  BY <1>1, <1>2, <1>3, <1>5 DEF Serves, i
<1> QED
  BY <1>5, <1>6, <1>7, <1>8 DEF i

LEMMA EnableInv ==
  ASSUME Consistent, NetInv, NEW p \in Procs, EnableOne(p)
  PROVE  NetInv'
<1> DEFINE c == call[p]
<1>1. /\ Types /\ c \in Calls /\ Enabling(p) /\ c.st = "enable"
      /\ docker \in Docker /\ \A k \in Keys : Meant(k)
  BY DEF NetInv, Types, EnableOne
<1> DEFINE Makes(n) ==
  docker' = [docker EXCEPT ![NameOf(n)] = Network(SubnetOf(n), EnableIPv6(n))]
<1>2. PICK n \in c.todo :
       \/ Fails(p, "wrong") /\ UNCHANGED docker
       \/ /\ NameOf(n) # None
          /\ \/ docker[NameOf(n)] # None /\ OnExists(p, n) /\ UNCHANGED docker
             \/ /\ docker[NameOf(n)] = None /\ Makes(n)
                /\ Enabled(p, n, <<"name", NameOf(n)>>)
             \/ /\ docker[NameOf(n)] = None /\ UNCHANGED docker
                /\ \E other \in Conflicts(SubnetOf(n)) : OnConflict(p, n, other)
             \/ /\ Fails(p, "engine")
                /\ UNCHANGED docker \/ (docker[NameOf(n)] = None /\ Makes(n))
  BY DEF EnableOne, SubnetOf
<1>3. n \in Wanted
  BY <1>1 DEF Calls
<1>4. UNCHANGED docker => /\ docker' \in Docker /\ \A k \in Keys : Meant(k)'
                          /\ \A k \in Keys : docker[k] # None => docker'[k] = docker[k]
  BY <1>1 DEF Meant
<1>5. NameOf(n) # None => NameOf(n) \in Keys /\ <<"name", NameOf(n)>> \in EndKeys
  BY <1>3, Parts DEF EndKeys
<1>6. CASE Fails(p, "wrong") /\ UNCHANGED docker
  BY <1>4, <1>6, FailsInv, Grows
<1>7. CASE NameOf(n) # None /\ docker[NameOf(n)] # None /\ OnExists(p, n) /\ UNCHANGED docker
  <2>1. docker[NameOf(n)].subnet = SubnetOf(n)
    BY <1>1, <1>3, <1>5, <1>7, Parts DEF Meant, NameOf, SubnetOf
  <2>2. Serves(docker', <<"name", NameOf(n)>>, n)
    BY <1>5, <1>7, <2>1 DEF Serves
  <2>3. Enabled(p, n, <<"name", NameOf(n)>>)
    BY <1>7 DEF OnExists
  <2> QED
    BY <1>1, <1>4, <1>5, <1>7, <2>2, <2>3, EnabledInv, Grows
<1>8. CASE /\ NameOf(n) # None /\ docker[NameOf(n)] = None /\ Makes(n)
           /\ Enabled(p, n, <<"name", NameOf(n)>>)
  BY <1>1, <1>3, <1>5, <1>8, Creates, EnabledInv, Grows
<1>9. CASE /\ NameOf(n) # None /\ docker[NameOf(n)] = None /\ UNCHANGED docker
           /\ \E other \in Conflicts(SubnetOf(n)) : OnConflict(p, n, other)
  <2>1. PICK k \in Conflicts(SubnetOf(n)) : OnConflict(p, n, k)
    BY <1>9
  <2>2. k \in Keys /\ docker[k] # None /\ docker[k].subnet \cap SubnetOf(n) # {}
    BY <2>1 DEF Conflicts
  <2>3. docker[k].subnet \in Subnets \cup {AutoSubnet}
    BY <1>1, <2>2 DEF Docker, Bridges
  <2>4. SubnetOf(n) \in Subnets /\ docker[k].subnet \in Subnets
    BY <1>3, <2>2, <2>3, Parts DEF AutoSubnet
  <2>5. docker[k].subnet = SubnetOf(n)
    BY <2>2, <2>4 DEF Consistent
  <2>6. n.subnet # None /\ n.subnet = SubnetOf(n)
    BY <1>3, <2>4, Parts DEF SubnetOf, Consistent, AutoSubnet
  <2>7. n.name = None
    <3>1. n.name # None => n.name = k
      BY <1>1, <1>3, <2>2, <2>5, <2>6 DEF Meant
    <3> QED
      BY <1>9, <2>2, <3>1 DEF NameOf
  <2>8. Enabled(p, n, <<"id", k>>) /\ <<"id", k>> \in EndKeys
    BY <2>1, <2>2, <2>7 DEF OnConflict, EndKeys
  <2>9. Serves(docker', <<"id", k>>, n)
    BY <1>9, <2>2, <2>5, <2>6 DEF Serves
  <2> QED
    BY <1>1, <1>4, <1>9, <2>8, <2>9, EnabledInv, Grows
<1>10. CASE /\ NameOf(n) # None /\ Fails(p, "engine")
            /\ UNCHANGED docker \/ (docker[NameOf(n)] = None /\ Makes(n))
  <2>1. CASE UNCHANGED docker
    BY <1>4, <1>10, <2>1, FailsInv, Grows
  <2>2. CASE docker[NameOf(n)] = None /\ Makes(n)
    BY <1>3, <1>10, <2>2, Creates, FailsInv, Grows
  <2> QED
    BY <1>10, <2>1, <2>2
<1> QED
  BY <1>2, <1>6, <1>7, <1>8, <1>9, <1>10

\* A call that begins, ends or stays is as it should be.
LEMMA OtherInv ==
  ASSUME Consistent, NetInv, NEW p \in Procs, Begin(p) \/ Finish(p) \/ Leave(p)
  PROVE  NetInv'
<1>1. /\ call \in [Procs -> Calls] /\ call[p] \in Calls /\ Enabling(p) /\ UNCHANGED docker
      /\ docker \in Docker /\ \A k \in Keys : Meant(k)
  BY DEF NetInv, Types, Begin, Finish, Leave
<1>2. docker' \in Docker /\ \A k \in Keys : Meant(k)'
  BY <1>1 DEF Meant
<1>3. <<>> \in Endpoints /\ DOMAIN <<>> = {}
  BY Nothing
<1>4. ASSUME call'[p] \in Calls, call' = [call EXCEPT ![p] = call'[p]], Enabling(p)' PROVE NetInv'
  BY <1>1, <1>2, <1>4, Grows
<1>5. CASE Begin(p)
  <2>1. PICK R \in Requests :
          call' = [call EXCEPT ![p] = [Idle EXCEPT !.st = "enable", !.asked = R, !.todo = R]]
    BY <1>5 DEF Begin
  <2>2. call'[p] = [Idle EXCEPT !.st = "enable", !.asked = R, !.todo = R]
    BY <1>1, <2>1
  <2>3. call'[p] \in Calls
    BY <1>3, <2>2 DEF Idle, Calls, Wanted
  <2>4. Enabling(p)'
    BY <1>3, <2>2 DEF Idle, Enabling
  <2> QED
    BY <1>4, <2>1, <2>2, <2>3, <2>4
<1>6. CASE Finish(p)
  <2>1. call'[p] = [call[p] EXCEPT !.st = "ok"] /\ call' = [call EXCEPT ![p] = call'[p]]
    BY <1>1, <1>6 DEF Finish
  <2>2. call'[p] \in Calls
    BY <1>1, <2>1 DEF Calls
  <2>3. /\ call'[p].st = "ok" /\ call'[p].why = call[p].why
        /\ call'[p].asked = call[p].asked /\ call'[p].todo = call[p].todo
        /\ call'[p].ends = call[p].ends /\ call'[p].only6 = call[p].only6
    BY <1>1, <2>1 DEF Calls
  <2>4. Enabling(p)'
    BY <1>1, <1>6, <2>3 DEF Enabling, Finish
  <2> QED
    BY <1>4, <2>1, <2>2, <2>4
<1>7. CASE Leave(p)
  <2>1. call'[p] = Idle /\ call' = [call EXCEPT ![p] = Idle]
    BY <1>1, <1>7 DEF Leave
  <2>2. Idle \in Calls
    BY <1>3 DEF Idle, Calls
  <2>3. /\ Idle.st = "idle" /\ Idle.why = "" /\ Idle.asked = {}
        /\ Idle.todo = {} /\ Idle.ends = <<>> /\ Idle.only6
    BY DEF Idle
  <2>4. Enabling(p)'
    BY <1>3, <2>1, <2>3 DEF Enabling
  <2> QED
    BY <1>4, <2>1, <2>2, <2>4
<1> QED
  BY <1>5, <1>6, <1>7

LEMMA Inductive == ASSUME Consistent PROVE Spec => []NetInv
<1>1. NetInv /\ [Next]_vars => NetInv'
  <2> SUFFICES ASSUME NetInv, [Next]_vars PROVE NetInv'
    OBVIOUS
  <2>1. CASE UNCHANGED vars
    BY <2>1 DEF vars, NetInv, Types, Meant, Enabling, Serves
  <2> QED
    BY <2>1, EnableInv, OtherInv DEF Next
<1> QED
  BY <1>1, InitInv, PTL DEF Spec

-----------------------------------------------------------------------------
(* The theorems.                                                           *)

\* Every network of a VM has its own endpoint, on its own engine network, with the
\* subnet it asked for, whichever create_vm or operator made that network.
THEOREM NetworksAreOwn == ASSUME Consistent PROVE Spec => []OwnNetworks
<1>1. ASSUME NetInv, NEW p \in Enablings PROVE
        LET ends == call[p].ends IN
        /\ \A n \in call[p].asked : \E key \in DOMAIN ends : ends[key] = n
        /\ \A j, k \in DOMAIN ends : j # k => j[2] # k[2]
        /\ \A k \in DOMAIN ends : /\ NetworkOf(k) # None
                                  /\ ends[k].subnet # None => NetworkOf(k).subnet = ends[k].subnet
  <2> DEFINE c == call[p]
  <2>1. p \in Procs /\ Enabling(p) /\ c.todo = {} /\ c.asked \in Requests
    BY <1>1 DEF NetInv, Enablings, Enabling
  <2>2. ASSUME NEW j \in DOMAIN c.ends, NEW k \in DOMAIN c.ends, j # k PROVE j[2] # k[2]
    <3>1. /\ c.ends[j] \in c.asked /\ c.ends[k] \in c.asked /\ c.ends[j] # c.ends[k]
          /\ Serves(docker, j, c.ends[j]) /\ Serves(docker, k, c.ends[k])
      BY <2>1, <2>2 DEF Enabling
    <3> DEFINE n == c.ends[j]
    <3> DEFINE m == c.ends[k]
    <3>2. /\ n \in c.asked /\ m \in c.asked /\ n # m
          /\ SubnetOf(n) = docker[j[2]].subnet /\ SubnetOf(m) = docker[k[2]].subnet
          /\ (n.subnet = None => j[2] = NameOf(n)) /\ (m.subnet = None => k[2] = NameOf(m))
      BY <3>1 DEF Serves
    <3> HIDE DEF n, m
    <3> QED
      BY <2>1, <3>2, Apart
  <2> QED
    BY <2>1, <2>2 DEF Enabling, Serves, NetworkOf, SubnetOf
<1>2. NetInv => OwnNetworks
  BY <1>1 DEF OwnNetworks
<1> QED
  BY <1>2, Inductive, PTL

\* A VM started without its IPv4 addresses has IPv6 on all its networks, whoever made
\* them, and any other VM has a network of IPv4.
THEOREM AddressesAreLeft == ASSUME Consistent PROVE Spec => []AddressesLeft
<1>1. ASSUME NetInv, NEW p \in Enablings PROVE
        LET keys == DOMAIN call[p].ends IN
        IF call[p].only6
        THEN \A k \in keys : NetworkOf(k).v6 /\ call[p].ends[k].subnet \in V6Subnets
        ELSE \E k \in keys : call[p].ends[k].subnet \notin V6Subnets
  <2> DEFINE c == call[p]
  <2>1. /\ p \in Procs /\ Enabling(p) /\ c.todo = {} /\ c.asked \in Requests
        /\ \A k \in Keys : Meant(k)
    BY <1>1 DEF NetInv, Enablings, Enabling
  <2>2. CASE c.only6
    <3> SUFFICES ASSUME NEW k \in DOMAIN c.ends
                 PROVE  NetworkOf(k).v6 /\ c.ends[k].subnet \in V6Subnets
      BY <2>2
    <3> DEFINE n == c.ends[k]
    <3>1. n \in c.asked /\ n \in Wanted /\ Serves(docker, k, n) /\ IsV6(n)
      BY <2>1, <2>2 DEF Enabling, Wanted
    <3> HIDE DEF n
    <3>2. SubnetOf(n) \in V6Subnets
      BY <3>1, Parts
    <3>3. NetworkOf(k).v6
      BY <2>1, <3>1, <3>2 DEF Meant, Serves, NetworkOf
    <3> QED
      BY <3>1, <3>3 DEF IsV6, n
  <2>3. CASE ~c.only6
    BY <2>1, <2>3 DEF Enabling, IsV6
  <2> QED
    BY <2>2, <2>3
<1>2. NetInv => AddressesLeft
  BY <1>1 DEF AddressesLeft
<1> QED
  BY <1>2, Inductive, PTL

\* No create_vm fails because one of its networks is there already.
THEOREM NobodyRefused == ASSUME Consistent PROVE Spec => []NoneRefused
<1>1. NetInv => NoneRefused
  BY DEF NetInv, Enabling, NoneRefused
<1> QED
  BY <1>1, Inductive, PTL

=============================================================================
