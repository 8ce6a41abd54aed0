----------------------------- MODULE CpiBookProofs -----------------------------
(***************************************************************************)
(* What a disciplined Director may take for granted of its VMs and disks,  *)
(* whatever fails: the theorems that rest on Books, for every number of    *)
(* VMs, disks, networks and calls.                                         *)
(***************************************************************************)
EXTENDS CpiProofs

-----------------------------------------------------------------------------
(* What each step of a call does, field by field.                          *)

\* The call's locals after a step, but for tries.
Takes(p, pc, E, B, N, G, L, F) ==
  /\ Moves1(p) /\ call'[p].pc = pc
  /\ call'[p].env = E /\ call'[p].binds = B /\ call'[p].nets = N
  /\ call'[p].got = G /\ call'[p].left = L /\ call'[p].failed = F
  /\ call'[p].had = call[p].had /\ call'[p].sure = call[p].sure
Goes(p, pc) ==
  Takes(p, pc, call[p].env, call[p].binds, call[p].nets, call[p].got, call[p].left,
        call[p].failed)
Ends(p, pc) ==
  /\ Moves1(p) /\ call'[p].pc = pc
  /\ call'[p].env = {} /\ call'[p].binds = {} /\ call'[p].nets = {}
  /\ call'[p].got = {} /\ call'[p].left = {} /\ ~call'[p].failed
  /\ call'[p].had = call[p].had /\ call'[p].sure = (pc = "err" /\ call[p].sure)

\* The container after a step that changes nothing else.
Alters(v, st, B, N, E, L, F) ==
  /\ Touches(v) /\ UNCHANGED <<scratch, volume>>
  /\ ctr'[v].st = st /\ ctr'[v].binds = B /\ ctr'[v].nets = N
  /\ ctr'[v].env = E /\ ctr'[v].late = L /\ ctr'[v].files = F
Idle == UNCHANGED <<ctr, scratch, volume>>
Stops(v) ==
  Alters(v, "exited", ctr[v].binds, ctr[v].nets, ctr[v].env, {}, ctr[v].files)
Starts(v) ==
  Alters(v, "running", ctr[v].binds, ctr[v].nets, ctr[v].env, ctr[v].late, ctr[v].files)
Joins(v, n) ==
  Alters(v, ctr[v].st, ctr[v].binds, ctr[v].nets \cup {n}, ctr[v].env, ctr[v].late,
         ctr[v].files)
Gets(v, E, L) ==
  Alters(v, ctr[v].st, ctr[v].binds, ctr[v].nets, E, L, ctr[v].files)
Stores(v, f, g) ==
  Alters(v, ctr[v].st, ctr[v].binds, ctr[v].nets, ctr[v].env, ctr[v].late,
         [ctr[v].files EXCEPT ![f] = g])
Goner(v) == Touches(v) /\ UNCHANGED <<scratch, volume>> /\ ctr'[v] = NoContainer
Arises(v, B, N) ==
  /\ Touches(v) /\ scratch' = scratch \cup {v}
  /\ ctr'[v] = [NoContainer EXCEPT !.st = "created", !.binds = B, !.nets = N]
  /\ volume' = [d \in Disks |-> IF d \in B /\ volume[d] = "none" THEN "blank" ELSE volume[d]]

-----------------------------------------------------------------------------
LEMMA Effects ==
  ASSUME EngineTypeOK, NEW v \in VMs
  PROVE  /\ CtrStop(v) => Stops(v)
         /\ CtrStart(v) => Starts(v)
         /\ CtrRemove(v) => Goner(v)
         /\ \A n : NetConnect(v, n) => Joins(v, n)
         /\ \A e : PutEnv(v, e) => Gets(v, e, ctr[v].late)
         /\ \A S : PutLate(v, S) => Gets(v, ctr[v].env, {S})
         /\ \A f, g : PutFile(v, f, g) => Stores(v, f, g)
         /\ \A B, N : CtrCreate(v, B, N) => Arises(v, B, N)
         /\ UNCHANGED engine => Idle
<1>1. ctr[v] \in Containers
  BY DEF EngineTypeOK
<1>2. \A c : SetCtr(v, c) => Touches(v) /\ ctr'[v] = c /\ UNCHANGED <<scratch, volume>>
  BY EffectsTouch DEF SetCtr
<1>3. CtrStop(v) => Stops(v)
  <2> DEFINE e == [ctr[v] EXCEPT !.st = "exited", !.late = {}]
  <2>1. /\ e.st = "exited" /\ e.binds = ctr[v].binds /\ e.nets = ctr[v].nets
        /\ e.env = ctr[v].env /\ e.late = {} /\ e.files = ctr[v].files
    BY <1>1 DEF Containers
  <2>2. CtrStop(v) => SetCtr(v, e)
    BY DEF CtrStop
  <2> HIDE DEF e
  <2> QED
    BY <1>2, <2>1, <2>2 DEF Stops, Alters
<1>4. CtrStart(v) => Starts(v)
  BY <1>1, <1>2 DEF CtrStart, Starts, Alters, Containers
<1>5. CtrRemove(v) => Goner(v)
  BY <1>2 DEF CtrRemove, Goner
<1>6. \A n : NetConnect(v, n) => Joins(v, n)
  BY <1>1, <1>2 DEF NetConnect, Joins, Alters, Containers
<1>7. \A e : PutEnv(v, e) => Gets(v, e, ctr[v].late)
  BY <1>1, <1>2 DEF PutEnv, Gets, Alters, Containers
<1>8. \A S : PutLate(v, S) => Gets(v, ctr[v].env, {S})
  BY <1>1, <1>2 DEF PutLate, Gets, Alters, Containers
<1>9. \A f, g : PutFile(v, f, g) => Stores(v, f, g)
  BY <1>1, <1>2 DEF PutFile, Stores, Alters, Containers
<1>10. \A B, N : CtrCreate(v, B, N) => Arises(v, B, N)
  BY DEF CtrCreate, Arises, Touches, EngineTypeOK
<1>11. UNCHANGED engine => Idle
  BY DEF engine, Idle
<1> QED
  BY <1>3, <1>4, <1>5, <1>6, <1>7, <1>8, <1>9, <1>10, <1>11

LEMMA Locals ==
  ASSUME TypeInv, NEW p \in Procs
  PROVE  /\ \A pc : Goto(p, pc) => Goes(p, pc)
         /\ \A pc : Finish(p, pc) => Ends(p, pc)
<1>1. call[p] \in Calls
  BY Moves
<1>2. ASSUME NEW pc, Goto(p, pc) PROVE Goes(p, pc)
  <2> DEFINE d == [call[p] EXCEPT !.pc = pc]
  <2>1. /\ d.op = call[p].op /\ d.vm = call[p].vm /\ d.disk = call[p].disk /\ d.pc = pc
        /\ d.env = call[p].env /\ d.binds = call[p].binds /\ d.nets = call[p].nets
        /\ d.got = call[p].got /\ d.left = call[p].left /\ d.failed = call[p].failed
        /\ d.had = call[p].had /\ d.sure = call[p].sure
    BY <1>1 DEF Calls
  <2>2. Become(p, d)
    BY <1>2 DEF Goto
  <2> HIDE DEF d
  <2> QED
    BY <2>1, <2>2, BecomeMoves DEF Goes, Takes
<1>3. ASSUME NEW pc, Finish(p, pc) PROVE Ends(p, pc)
  <2> DEFINE d == [NoCall EXCEPT !.op = call[p].op, !.pc = pc, !.vm = call[p].vm,
                                 !.disk = call[p].disk, !.had = call[p].had,
                                 !.sure = pc = "err" /\ call[p].sure]
  <2>1. /\ d.op = call[p].op /\ d.vm = call[p].vm /\ d.disk = call[p].disk /\ d.pc = pc
        /\ d.env = {} /\ d.binds = {} /\ d.nets = {} /\ d.got = {} /\ d.left = {}
        /\ d.failed = FALSE /\ d.had = call[p].had /\ d.sure = (pc = "err" /\ call[p].sure)
    BY DEF NoCall
  <2>2. Become(p, d)
    BY <1>3 DEF Finish
  <2> HIDE DEF d
  <2> QED
    BY <2>1, <2>2, BecomeMoves DEF Ends
<1> QED
  BY <1>2, <1>3

-----------------------------------------------------------------------------
(* vm/container.go                                                         *)

\* What the steps of a call have in common.
LEMMA Basics ==
  ASSUME TypeInv, NEW p \in Procs
  PROVE  /\ call[p] \in Calls /\ EngineTypeOK
         /\ Shape(call[p].op, call[p].pc, call[p].vm, call[p].disk)
         /\ Faults(p) <=> ~Smooth(call[p])
         /\ \A v \in VMs : ctr[v] \in Containers
BY Moves DEF TypeInv, TypeOK, EngineTypeOK, Shaped, Faults, Smooth, Calls

LEMMA CheckExistsDoes ==
  ASSUME TypeInv, NEW p \in Procs, CheckExists(p)
  PROVE  LET c == call[p] IN
         /\ c.pc = "exists" /\ c.op \in RestartOps /\ c.vm \in VMs /\ c.disk \in Disks /\ Idle
         /\ \/ Goes(p, "fetch") /\ Exists(c.vm)
            \/ Ends(p, "err") /\ (~Exists(c.vm) \/ ~Smooth(c))
BY Basics, Locals DEF CheckExists, At, VM, Fail, Shape, RestartOps, VmOps, Idle, engine

LEMMA FetchDoes ==
  ASSUME TypeInv, NEW p \in Procs, Fetch(p)
  PROVE  LET c == call[p] IN
         /\ c.pc = "fetch" /\ c.op \in RestartOps /\ c.vm \in VMs /\ c.disk \in Disks /\ Idle
         /\ \/ /\ Takes(p, "settings", ChangeDisks(c.op, ctr[c.vm].env.disks, c.disk), c.binds,
                        c.nets, c.got, c.left, c.failed)
               /\ Up(c.vm)
            \/ Ends(p, "err") /\ (~Up(c.vm) \/ ~Smooth(c))
<1> DEFINE c == call[p]
           E == ChangeDisks(c.op, ctr[c.vm].env.disks, c.disk)
           d == [c EXCEPT !.pc = "settings", !.env = E]
<1>1. Become(p, d) => Takes(p, "settings", E, c.binds, c.nets, c.got, c.left, c.failed)
  <2>1. /\ d.op = c.op /\ d.vm = c.vm /\ d.disk = c.disk /\ d.pc = "settings" /\ d.env = E
        /\ d.binds = c.binds /\ d.nets = c.nets /\ d.got = c.got /\ d.left = c.left
        /\ d.failed = c.failed /\ d.had = c.had /\ d.sure = c.sure
    BY Basics DEF Calls
  <2> HIDE DEF d, E
  <2> QED
    BY <2>1, BecomeMoves DEF Takes
<1> HIDE DEF d
<1> QED
  BY <1>1, Basics, Locals
  DEF Fetch, At, Fail, Shape, RestartOps, VmOps, Idle, engine, Up, Running, d

\* Both downloads, with the step that follows.
LEMMA DownloadDoes ==
  ASSUME TypeInv, NEW p \in Procs, NEW f \in {"settings", "records"},
         NEW next, Download(p, f, next), At(p, f)
  PROVE  LET c == call[p] IN
         /\ c.op \in RestartOps /\ c.vm \in VMs /\ c.disk \in Disks /\ Idle
         /\ \/ /\ Takes(p, next, c.env, c.binds, c.nets, c.got \cup {f}, c.left, c.failed)
               /\ f \in Present(c.vm)
            \/ Goes(p, next) /\ (~Running(c.vm) \/ f \notin Present(c.vm) \/ ~Smooth(c))
<1> DEFINE c == call[p]
           d == [c EXCEPT !.pc = next, !.got = c.got \cup {f}]
<1>1. Become(p, d) =>
        Takes(p, next, c.env, c.binds, c.nets, c.got \cup {f}, c.left, c.failed)
  <2>1. /\ d.op = c.op /\ d.vm = c.vm /\ d.disk = c.disk /\ d.pc = next /\ d.env = c.env
        /\ d.binds = c.binds /\ d.nets = c.nets /\ d.got = c.got \cup {f} /\ d.left = c.left
        /\ d.failed = c.failed /\ d.had = c.had /\ d.sure = c.sure
    BY Basics DEF Calls
  <2> HIDE DEF d
  <2> QED
    BY <2>1, BecomeMoves DEF Takes
<1>2. \/ Become(p, d) /\ f \in Present(c.vm)
      \/ Goto(p, next) /\ (~Running(c.vm) \/ f \notin Present(c.vm) \/ Faults(p))
  BY DEF Download
<1> HIDE DEF d
<1> QED
  BY <1>1, <1>2, Basics, Locals
  DEF Download, At, Shape, RestartOps, VmOps, Idle, engine

LEMMA InspectDoes ==
  ASSUME TypeInv, NEW p \in Procs, Inspect(p)
  PROVE  LET c == call[p] IN
         /\ c.pc = "inspect" /\ c.op \in RestartOps /\ c.vm \in VMs /\ c.disk \in Disks /\ Idle
         /\ \/ /\ Takes(p, "delExists", c.env, ctr[c.vm].binds, ctr[c.vm].nets, c.got, c.left,
                        c.failed)
               /\ Exists(c.vm)
            \/ Ends(p, "err") /\ (~Exists(c.vm) \/ ~Smooth(c))
<1> DEFINE c == call[p]
           d == [c EXCEPT !.pc = "delExists", !.binds = ctr[c.vm].binds,
                          !.nets = ctr[c.vm].nets]
<1>1. Become(p, d) => Takes(p, "delExists", c.env, ctr[c.vm].binds, ctr[c.vm].nets, c.got,
                            c.left, c.failed)
  <2>1. /\ d.op = c.op /\ d.vm = c.vm /\ d.disk = c.disk /\ d.pc = "delExists"
        /\ d.env = c.env /\ d.binds = ctr[c.vm].binds /\ d.nets = ctr[c.vm].nets
        /\ d.got = c.got /\ d.left = c.left
        /\ d.failed = c.failed /\ d.had = c.had /\ d.sure = c.sure
    BY Basics DEF Calls
  <2> HIDE DEF d
  <2> QED
    BY <2>1, BecomeMoves DEF Takes
<1>2. \/ Become(p, d) /\ Exists(c.vm)
      \/ Fail(p) /\ (~Exists(c.vm) \/ Faults(p))
  BY DEF Inspect
<1> HIDE DEF d
<1> QED
  BY <1>1, <1>2, Basics, Locals
  DEF Inspect, At, Fail, Shape, RestartOps, VmOps, Idle, engine

LEMMA DeleteExistsDoes ==
  ASSUME TypeInv, NEW p \in Procs, DeleteExists(p)
  PROVE  LET c == call[p] IN
         /\ c.pc = "delExists" /\ c.op \in RestartOps \cup {"delete_vm"} /\ c.vm \in VMs /\ Idle
         /\ \/ Goes(p, "kill") /\ Exists(c.vm)
            \/ Goes(p, "scratch") /\ ~Exists(c.vm)
            \/ Ends(p, "err") /\ ~Smooth(c)
BY Basics, Locals DEF DeleteExists, At, VM, Fail, Shape, RestartOps, VmOps, Idle, engine

LEMMA KillDoes ==
  ASSUME TypeInv, NEW p \in Procs, Kill(p)
  PROVE  LET c == call[p] IN
         /\ c.pc = "kill" /\ c.op \in RestartOps \cup {"delete_vm"} /\ c.vm \in VMs
         /\ Idle \/ (Running(c.vm) /\ Stops(c.vm))
         /\ \/ Goes(p, "remove") /\ Exists(c.vm) /\ (Idle => ~Running(c.vm))
            \/ (Goes(p, "kill") \/ Ends(p, "err")) /\ (~Exists(c.vm) \/ ~Smooth(c))
<1> DEFINE c == call[p]
           d == [c EXCEPT !.pc = "remove", !.tries = 0]
           e == [c EXCEPT !.tries = c.tries + 1]
<1>1. c.pc = "kill" /\ c.op \in RestartOps \cup {"delete_vm"} /\ c.vm \in VMs
  BY Basics DEF Kill, At, Shape, RestartOps, VmOps
<1>2. Become(p, d) => Goes(p, "remove")
  <2>1. /\ d.op = c.op /\ d.vm = c.vm /\ d.disk = c.disk /\ d.pc = "remove" /\ d.env = c.env
        /\ d.binds = c.binds /\ d.nets = c.nets /\ d.got = c.got /\ d.left = c.left
        /\ d.failed = c.failed /\ d.had = c.had /\ d.sure = c.sure
    BY Basics DEF Calls
  <2> HIDE DEF d
  <2> QED
    BY <2>1, BecomeMoves DEF Goes, Takes
<1>3. KillFailed(p) => Goes(p, "kill") \/ Ends(p, "err")
  <2>1. /\ e.op = c.op /\ e.vm = c.vm /\ e.disk = c.disk /\ e.pc = "kill" /\ e.env = c.env
        /\ e.binds = c.binds /\ e.nets = c.nets /\ e.got = c.got /\ e.left = c.left
        /\ e.failed = c.failed /\ e.had = c.had /\ e.sure = c.sure
    BY <1>1, Basics DEF Calls
  <2>2. KillFailed(p) => Become(p, e) \/ Fail(p)
    BY DEF KillFailed
  <2> HIDE DEF e
  <2> QED
    BY <2>1, <2>2, BecomeMoves, Locals DEF Goes, Takes, Fail
<1>4. \/ Running(c.vm) /\ CtrStop(c.vm) /\ Become(p, d)
      \/ Exists(c.vm) /\ ~Running(c.vm) /\ UNCHANGED engine /\ Become(p, d)
      \/ ~Exists(c.vm) /\ UNCHANGED engine /\ KillFailed(p)
      \/ /\ Faults(p) /\ KillFailed(p)
         /\ (Running(c.vm) /\ CtrStop(c.vm)) \/ UNCHANGED engine
  BY DEF Kill, Fault, VM
<1>5. Running(c.vm) => Exists(c.vm)
  BY DEF Running, Exists
<1>6. Stops(c.vm) /\ Running(c.vm) => ~Idle
  BY DEF Stops, Alters, Idle, Running
<1> HIDE DEF d
<1> QED
  BY <1>1, <1>2, <1>3, <1>4, <1>5, <1>6, Basics, Effects

LEMMA RemoveDoes ==
  ASSUME TypeInv, NEW p \in Procs, Remove(p)
  PROVE  LET c == call[p] IN
         /\ c.pc = "remove" /\ c.op \in RestartOps \cup {"delete_vm"} /\ c.vm \in VMs
         /\ \/ Goes(p, "scratch") /\ Exists(c.vm) /\ Goner(c.vm)
            \/ Goes(p, "scratch") /\ Exists(c.vm) /\ Stops(c.vm) /\ ~Smooth(c)
            \/ Ends(p, "err") /\ (Idle \/ Goner(c.vm)) /\ (~Exists(c.vm) \/ ~Smooth(c))
<1>1. call[p].pc = "remove" /\ call[p].op \in RestartOps \cup {"delete_vm"} /\ call[p].vm \in VMs
  BY Basics DEF Remove, At, Shape, RestartOps, VmOps
<1> QED
  BY <1>1, Basics, Locals, Effects DEF Remove, Fault, VM, Fail

LEMMA RemoveScratchDoes ==
  ASSUME TypeInv, NEW p \in Procs, RemoveScratch(p)
  PROVE  LET c == call[p] IN
         /\ c.pc = "scratch" /\ c.op \in RestartOps \cup {"delete_vm"} /\ c.vm \in VMs
         /\ UNCHANGED <<ctr, volume>>
         /\ \/ /\ ~Exists(c.vm) /\ scratch' = scratch \ {c.vm}
               /\ \/ c.op = "delete_vm" /\ Ends(p, "ok")
                  \/ c.op \in RestartOps /\ c.failed /\ Ends(p, "err")
                  \/ c.op \in RestartOps /\ ~c.failed /\ Goes(p, "findNode")
            \/ /\ Ends(p, "err") /\ scratch' \in {scratch, scratch \ {c.vm}}
               /\ Exists(c.vm) \/ ~Smooth(c)
<1>1. call[p].pc = "scratch" /\ call[p].op \in RestartOps \cup {"delete_vm"} /\ call[p].vm \in VMs
  BY Basics DEF RemoveScratch, At, Shape, RestartOps, VmOps
<1> QED
  BY <1>1, Basics, Locals
  DEF RemoveScratch, DeleteDone, ScratchRemove, Fault, VM, Fail, Done, engine, RestartOps

LEMMA FindNodeDoes ==
  ASSUME TypeInv, NEW p \in Procs, FindNode(p)
  PROVE  LET c == call[p] IN
         /\ c.pc = "findNode" /\ c.op \in RestartOps /\ c.vm \in VMs /\ c.disk \in Disks /\ Idle
         /\ \/ Goes(p, "create") /\ volume[c.disk] # "none"
            \/ Ends(p, "err") /\ (volume[c.disk] = "none" \/ ~Smooth(c))
BY Basics, Locals DEF FindNode, At, Fail, Shape, RestartOps, VmOps, Idle, engine

LEMMA CreateDoes ==
  ASSUME TypeInv, NEW p \in Procs, NEW B, NEW clash \in BOOLEAN, CreateStep(p, B, clash)
  PROVE  LET c == call[p] IN
         /\ c.pc = "create" /\ c.op \in RestartOps \cup {"create_vm"} /\ c.vm \in VMs
         /\ \E first \in SplitNetworks(c.nets) :
              \/ /\ Takes(p, IF c.nets = first THEN "start" ELSE "connect", c.env, {}, {}, c.got,
                          c.nets \ first, c.failed)
                 /\ Arises(c.vm, B, first) /\ ~Exists(c.vm)
              \/ /\ Ends(p, "err") /\ (Exists(c.vm) \/ clash \/ ~Smooth(c))
                 /\ Idle \/ (Arises(c.vm, B, first) /\ ~Exists(c.vm))
<1> DEFINE c == call[p]
           next(first) == IF c.nets = first THEN "start" ELSE "connect"
           d(first) == [c EXCEPT !.pc = next(first), !.left = c.nets \ first, !.binds = {},
                                 !.nets = {}]
<1>1. c.pc = "create" /\ c.op \in RestartOps \cup {"create_vm"} /\ c.vm \in VMs
  BY Basics DEF CreateStep, At, Shape, RestartOps, VmOps
<1>2. ASSUME NEW first, Become(p, d(first))
      PROVE  Takes(p, next(first), c.env, {}, {}, c.got, c.nets \ first, c.failed)
  <2> DEFINE e == d(first)
  <2>1. /\ e.op = c.op /\ e.vm = c.vm /\ e.disk = c.disk /\ e.pc = next(first) /\ e.env = c.env
        /\ e.binds = {} /\ e.nets = {} /\ e.got = c.got /\ e.left = c.nets \ first
        /\ e.failed = c.failed /\ e.had = c.had /\ e.sure = c.sure
    BY Basics DEF Calls
  <2>2. Become(p, e)
    BY <1>2
  <2> HIDE DEF d, e, next
  <2> QED
    BY <2>1, <2>2, BecomeMoves DEF Takes
<1>3. PICK first \in SplitNetworks(c.nets) :
       \/ ~Exists(c.vm) /\ CtrCreate(c.vm, B, first) /\ Become(p, d(first))
       \/ (Exists(c.vm) \/ clash) /\ UNCHANGED engine /\ Fail(p)
       \/ /\ Faults(p) /\ Fail(p)
          /\ (~Exists(c.vm) /\ CtrCreate(c.vm, B, first)) \/ UNCHANGED engine
  BY DEF CreateStep, Fault
<1>4. (CtrCreate(c.vm, B, first) => Arises(c.vm, B, first)) /\ (UNCHANGED engine => Idle)
  BY <1>1, Basics, Effects
<1>5. Fail(p) => Ends(p, "err")
  BY Locals DEF Fail
<1>6. Faults(p) => ~Smooth(c)
  BY Basics
<1>7. \/ /\ Takes(p, next(first), c.env, {}, {}, c.got, c.nets \ first, c.failed)
         /\ Arises(c.vm, B, first) /\ ~Exists(c.vm)
      \/ /\ Ends(p, "err") /\ (Exists(c.vm) \/ clash \/ ~Smooth(c))
         /\ Idle \/ (Arises(c.vm, B, first) /\ ~Exists(c.vm))
  <2>1. Become(p, d(first)) =>
          Takes(p, next(first), c.env, {}, {}, c.got, c.nets \ first, c.failed)
    BY <1>2
  <2> HIDE DEF d, next
  <2> QED
    BY <1>3, <1>4, <1>5, <1>6, <2>1
<1> QED
  BY <1>1, <1>7

LEMMA ConnectDoes ==
  ASSUME TypeInv, NEW p \in Procs, ConnectStep(p)
  PROVE  LET c == call[p] IN
         /\ c.pc = "connect" /\ c.op \in RestartOps \cup {"create_vm"} /\ c.vm \in VMs
         /\ \E n \in c.left :
              \/ /\ Takes(p, IF c.left = {n} THEN "start" ELSE "connect", c.env, c.binds, c.nets,
                          c.got, c.left \ {n}, c.failed)
                 /\ Joins(c.vm, n) /\ Exists(c.vm)
              \/ /\ Ends(p, "err") /\ (~Exists(c.vm) \/ ~Smooth(c))
                 /\ Idle \/ (Joins(c.vm, n) /\ Exists(c.vm))
<1> DEFINE c == call[p]
           next(n) == IF c.left = {n} THEN "start" ELSE "connect"
           d(n) == [c EXCEPT !.pc = next(n), !.left = c.left \ {n}]
<1>1. c.pc = "connect" /\ c.op \in RestartOps \cup {"create_vm"} /\ c.vm \in VMs
  BY Basics DEF ConnectStep, At, Shape, RestartOps, VmOps
<1>2. ASSUME NEW n, Become(p, d(n))
      PROVE  Takes(p, next(n), c.env, c.binds, c.nets, c.got, c.left \ {n}, c.failed)
  <2> DEFINE e == d(n)
  <2>1. /\ e.op = c.op /\ e.vm = c.vm /\ e.disk = c.disk /\ e.pc = next(n) /\ e.env = c.env
        /\ e.binds = c.binds /\ e.nets = c.nets /\ e.got = c.got /\ e.left = c.left \ {n}
        /\ e.failed = c.failed /\ e.had = c.had /\ e.sure = c.sure
    BY Basics DEF Calls
  <2>2. Become(p, e)
    BY <1>2
  <2> HIDE DEF d, e, next
  <2> QED
    BY <2>1, <2>2, BecomeMoves DEF Takes
<1>3. PICK n \in c.left :
       \/ Exists(c.vm) /\ NetConnect(c.vm, n) /\ Become(p, d(n))
       \/ ~Exists(c.vm) /\ UNCHANGED engine /\ Fail(p)
       \/ /\ Faults(p) /\ Fail(p)
          /\ (Exists(c.vm) /\ NetConnect(c.vm, n)) \/ UNCHANGED engine
  BY DEF ConnectStep, Fault
<1>4. (NetConnect(c.vm, n) => Joins(c.vm, n)) /\ (UNCHANGED engine => Idle)
  BY <1>1, Basics, Effects
<1>5. (Fail(p) => Ends(p, "err")) /\ (Faults(p) => ~Smooth(c))
  BY Basics, Locals DEF Fail
<1>6. \/ /\ Takes(p, next(n), c.env, c.binds, c.nets, c.got, c.left \ {n}, c.failed)
         /\ Joins(c.vm, n) /\ Exists(c.vm)
      \/ /\ Ends(p, "err") /\ (~Exists(c.vm) \/ ~Smooth(c))
         /\ Idle \/ (Joins(c.vm, n) /\ Exists(c.vm))
  <2>1. Become(p, d(n)) =>
          Takes(p, next(n), c.env, c.binds, c.nets, c.got, c.left \ {n}, c.failed)
    BY <1>2
  <2> HIDE DEF d, next
  <2> QED
    BY <1>3, <1>4, <1>5, <2>1
<1> QED
  BY <1>1, <1>6

LEMMA RestartDoes ==
  ASSUME TypeInv, NEW p \in Procs, Restart(p)
  PROVE  LET c == call[p] IN
         /\ c.pc = "start" /\ c.op \in RestartOps /\ c.vm \in VMs
         /\ \/ Goes(p, "update") /\ Exists(c.vm) /\ Starts(c.vm)
            \/ /\ Takes(p, "delExists", c.env, c.binds, c.nets, c.got, c.left, TRUE)
               /\ ~Exists(c.vm) \/ ~Smooth(c)
               /\ Idle \/ (Exists(c.vm) /\ Starts(c.vm))
<1> DEFINE c == call[p]
           d == [c EXCEPT !.pc = "delExists", !.failed = TRUE]
<1>1. c.pc = "start" /\ c.op \in RestartOps /\ c.vm \in VMs
  BY Basics DEF Restart, Restarts, StartStep, At, Shape, RestartOps, VmOps
<1>2. Become(p, d) => Takes(p, "delExists", c.env, c.binds, c.nets, c.got, c.left, TRUE)
  <2>1. /\ d.op = c.op /\ d.vm = c.vm /\ d.disk = c.disk /\ d.pc = "delExists" /\ d.env = c.env
        /\ d.binds = c.binds /\ d.nets = c.nets /\ d.got = c.got /\ d.left = c.left
        /\ d.failed = TRUE /\ d.had = c.had /\ d.sure = c.sure
    BY Basics DEF Calls
  <2> HIDE DEF d
  <2> QED
    BY <2>1, BecomeMoves DEF Takes
<1>3. \/ Exists(c.vm) /\ CtrStart(c.vm) /\ Goto(p, "update")
      \/ ~Exists(c.vm) /\ UNCHANGED engine /\ Become(p, d)
      \/ /\ Faults(p) /\ Become(p, d)
         /\ (Exists(c.vm) /\ CtrStart(c.vm)) \/ UNCHANGED engine
  BY DEF Restart, StartStep, Fault, VM
<1> HIDE DEF d
<1> QED
  BY <1>1, <1>2, <1>3, Basics, Locals, Effects

LEMMA UploadOrDoes ==
  ASSUME TypeInv, NEW p \in Procs, NEW rest, UploadOr(p, rest)
  PROVE  LET c == call[p] IN
         \/ rest = {} /\ Ends(p, "ok")
         \/ /\ rest # {}
            /\ Takes(p, "upload", c.env, c.binds, c.nets, rest, c.left, c.failed)
<1> DEFINE c == call[p]
           d == [c EXCEPT !.pc = "upload", !.got = rest]
<1>1. /\ d.op = c.op /\ d.vm = c.vm /\ d.disk = c.disk /\ d.pc = "upload" /\ d.env = c.env
      /\ d.binds = c.binds /\ d.nets = c.nets /\ d.got = rest /\ d.left = c.left
      /\ d.failed = c.failed /\ d.had = c.had /\ d.sure = c.sure
  BY Basics DEF Calls
<1>2. (rest = {} /\ Done(p)) \/ (rest # {} /\ Become(p, d))
  BY DEF UploadOr
<1> HIDE DEF d
<1> QED
  BY <1>1, <1>2, BecomeMoves, Locals DEF Takes, Done

\* What an upload of the agent env that fails leaves in the container.
Spoils(v, S) ==
  Running(v) /\ (Gets(v, EnvOf(S), ctr[v].late) \/ Gets(v, NoEnv, ctr[v].late)
                 \/ Gets(v, ctr[v].env, {S}))

LEMMA UpdateDoes ==
  ASSUME TypeInv, NEW p \in Procs, UpdateEnv(p)
  PROVE  LET c == call[p] IN
         /\ c.pc = "update" /\ c.op \in RestartOps /\ c.vm \in VMs
         /\ \/ /\ Running(c.vm) /\ Gets(c.vm, EnvOf(c.env), ctr[c.vm].late)
               /\ UploadOr(p, c.got)
            \/ /\ Ends(p, "err") /\ (~Running(c.vm) \/ ~Smooth(c))
               /\ Idle \/ Spoils(c.vm, c.env)
<1> DEFINE c == call[p]
<1>1. c.pc = "update" /\ c.op \in RestartOps /\ c.vm \in VMs
  BY Basics DEF UpdateEnv, Restarts, UpdateStep, At, Shape, RestartOps, VmOps
<1>2. \/ Running(c.vm) /\ PutEnv(c.vm, EnvOf(c.env)) /\ UploadOr(p, c.got)
      \/ ~Running(c.vm) /\ UNCHANGED engine /\ Fail(p)
      \/ /\ Faults(p) /\ Fail(p)
         /\ \/ UNCHANGED engine
            \/ Running(c.vm) /\ (PutEnv(c.vm, EnvOf(c.env)) \/ PutEnv(c.vm, NoEnv)
                                 \/ PutLate(c.vm, c.env))
  BY DEF UpdateEnv, UpdateStep, Fault, VM
<1> QED
  BY <1>1, <1>2, Basics, Locals, Effects DEF Fail, Spoils

LEMMA UploadDoes ==
  ASSUME TypeInv, NEW p \in Procs, Upload(p)
  PROVE  LET c == call[p]
             f == IF "settings" \in c.got THEN "settings" ELSE "records" IN
         /\ c.pc = "upload" /\ c.op \in RestartOps /\ c.vm \in VMs
         /\ \/ /\ Running(c.vm) /\ Stores(c.vm, f, "root")
               /\ \/ /\ f = "records" /\ c.op = "attach_disk"
                     /\ Takes(p, "chgrp", c.env, c.binds, c.nets, {}, c.left, c.failed)
                  \/ UploadOr(p, c.got \ {f})
            \/ /\ Ends(p, "err") /\ (~Running(c.vm) \/ ~Smooth(c))
               /\ Idle \/ (Running(c.vm) /\ Stores(c.vm, f, "root"))
<1> DEFINE c == call[p]
           f == IF "settings" \in c.got THEN "settings" ELSE "records"
           d == [c EXCEPT !.pc = "chgrp", !.got = {}]
<1>1. c.pc = "upload" /\ c.op \in RestartOps /\ c.vm \in VMs
  BY Basics DEF Upload, At, Shape, RestartOps, VmOps
<1>2. Become(p, d) => Takes(p, "chgrp", c.env, c.binds, c.nets, {}, c.left, c.failed)
  <2>1. /\ d.op = c.op /\ d.vm = c.vm /\ d.disk = c.disk /\ d.pc = "chgrp" /\ d.env = c.env
        /\ d.binds = c.binds /\ d.nets = c.nets /\ d.got = {} /\ d.left = c.left
        /\ d.failed = c.failed /\ d.had = c.had /\ d.sure = c.sure
    BY Basics DEF Calls
  <2> HIDE DEF d
  <2> QED
    BY <2>1, BecomeMoves DEF Takes
<1>3. \/ /\ Running(c.vm) /\ PutFile(c.vm, f, "root")
         /\ \/ f = "records" /\ c.op = "attach_disk" /\ Become(p, d)
            \/ UploadOr(p, c.got \ {f})
      \/ ~Running(c.vm) /\ UNCHANGED engine /\ Fail(p)
      \/ /\ Faults(p) /\ Fail(p)
         /\ (Running(c.vm) /\ PutFile(c.vm, f, "root")) \/ UNCHANGED engine
  BY DEF Upload, Fault
<1> HIDE DEF d, f
<1>4. /\ PutFile(c.vm, f, "root") => Stores(c.vm, f, "root")
      /\ UNCHANGED engine => Idle
      /\ Fail(p) => Ends(p, "err")
      /\ Faults(p) => ~Smooth(c)
  BY <1>1, Basics, Effects, Locals DEF Fail
<1>5. \/ /\ Running(c.vm) /\ Stores(c.vm, f, "root")
         /\ \/ /\ f = "records" /\ c.op = "attach_disk"
               /\ Takes(p, "chgrp", c.env, c.binds, c.nets, {}, c.left, c.failed)
            \/ UploadOr(p, c.got \ {f})
      \/ /\ Ends(p, "err") /\ (~Running(c.vm) \/ ~Smooth(c))
         /\ Idle \/ (Running(c.vm) /\ Stores(c.vm, f, "root"))
  BY <1>2, <1>3, <1>4
<1> QED
  BY <1>1, <1>5 DEF f

LEMMA ChgrpDoes ==
  ASSUME TypeInv, NEW p \in Procs, Chgrp(p)
  PROVE  LET c == call[p] IN
         /\ c.pc = "chgrp" /\ c.op \in RestartOps /\ c.vm \in VMs
         /\ Idle \/ (Running(c.vm) /\ Stores(c.vm, "records", "vcap"))
         /\ \/ Ends(p, "ok") /\ Running(c.vm)
            \/ Ends(p, "err") /\ (~Running(c.vm) \/ ~Smooth(c))
<1>1. call[p].pc = "chgrp" /\ call[p].op \in RestartOps /\ call[p].vm \in VMs
  BY Basics DEF Chgrp, At, Shape, RestartOps, VmOps
<1> QED
  BY <1>1, Basics, Locals, Effects DEF Chgrp, Fault, VM, Fail, Done

LEMMA HasVMDoes ==
  ASSUME TypeInv, NEW p \in Procs, HasVM(p)
  PROVE  LET c == call[p] IN
         /\ c.pc = "hasVM" /\ c.op = "has_vm" /\ c.vm \in VMs /\ Idle
         /\ \/ Exists(c.vm) /\ Ends(p, "yes")
            \/ ~Exists(c.vm) /\ Ends(p, "no")
            \/ Ends(p, "err") /\ ~Smooth(c)
BY Basics, Locals DEF HasVM, VM, At, Fail, Shape, VmOps, Idle, engine

-----------------------------------------------------------------------------
(* vm/factory.go, disk/factory.go and disk/volume.go                       *)

LEMMA PrepareDoes ==
  ASSUME TypeInv, NEW p \in Procs, Prepare(p)
  PROVE  LET c == call[p] IN
         /\ c.pc = "prepare" /\ c.op = "create_vm" /\ c.vm \in VMs /\ Idle
         /\ \/ Takes(p, "create", c.env, c.binds, asked[c.vm], c.got, c.left, c.failed)
            \/ Ends(p, "err") /\ ~Smooth(c)
<1> DEFINE c == call[p]
           d == [c EXCEPT !.pc = "create", !.nets = asked[c.vm]]
<1>1. c.pc = "prepare" /\ c.op = "create_vm" /\ c.vm \in VMs
  BY Basics DEF Prepare, At, Shape, VmOps
<1>2. Become(p, d) => Takes(p, "create", c.env, c.binds, asked[c.vm], c.got, c.left, c.failed)
  <2>1. /\ d.op = c.op /\ d.vm = c.vm /\ d.disk = c.disk /\ d.pc = "create" /\ d.env = c.env
        /\ d.binds = c.binds /\ d.nets = asked[c.vm] /\ d.got = c.got /\ d.left = c.left
        /\ d.failed = c.failed /\ d.had = c.had /\ d.sure = c.sure
    BY Basics DEF Calls
  <2> HIDE DEF d
  <2> QED
    BY <2>1, BecomeMoves DEF Takes
<1>3. Become(p, d) \/ (Faults(p) /\ Fail(p))
  BY DEF Prepare, VM
<1> HIDE DEF d
<1> QED
  BY <1>1, <1>2, <1>3, Basics, Locals DEF Prepare, Fail, Idle, engine

LEMMA StartContainerDoes ==
  ASSUME TypeInv, NEW p \in Procs, StartContainer(p)
  PROVE  LET c == call[p] IN
         /\ c.pc = "start" /\ c.op = "create_vm" /\ c.vm \in VMs
         /\ \/ Goes(p, "update") /\ Exists(c.vm) /\ Starts(c.vm)
            \/ /\ Goes(p, "abandon") /\ (~Exists(c.vm) \/ ~Smooth(c))
               /\ Idle \/ (Exists(c.vm) /\ Starts(c.vm))
<1>1. call[p].pc = "start" /\ call[p].op = "create_vm" /\ call[p].vm \in VMs
  BY Basics DEF StartContainer, Creates, StartStep, At, Shape, VmOps
<1> QED
  BY <1>1, Basics, Locals, Effects DEF StartContainer, StartStep, Fault, VM

LEMMA WriteAgentEnvDoes ==
  ASSUME TypeInv, NEW p \in Procs, WriteAgentEnv(p)
  PROVE  LET c == call[p] IN
         /\ c.pc = "update" /\ c.op = "create_vm" /\ c.vm \in VMs
         /\ \/ /\ Running(c.vm) /\ Gets(c.vm, EnvOf(c.env), ctr[c.vm].late)
               /\ Ends(p, "ok")
            \/ /\ Goes(p, "abandon") /\ (~Running(c.vm) \/ ~Smooth(c))
               /\ Idle \/ Spoils(c.vm, c.env)
<1> DEFINE c == call[p]
<1>1. c.pc = "update" /\ c.op = "create_vm" /\ c.vm \in VMs
  BY Basics DEF WriteAgentEnv, Creates, UpdateStep, At, Shape, VmOps
<1>2. \/ Running(c.vm) /\ PutEnv(c.vm, EnvOf(c.env)) /\ Done(p)
      \/ ~Running(c.vm) /\ UNCHANGED engine /\ Goto(p, "abandon")
      \/ /\ Faults(p) /\ Goto(p, "abandon")
         /\ \/ UNCHANGED engine
            \/ Running(c.vm) /\ (PutEnv(c.vm, EnvOf(c.env)) \/ PutEnv(c.vm, NoEnv)
                                 \/ PutLate(c.vm, c.env))
  BY DEF WriteAgentEnv, UpdateStep, Fault, VM
<1> QED
  BY <1>1, <1>2, Basics, Locals, Effects DEF Done, Spoils

LEMMA AbandonDoes ==
  ASSUME TypeInv, NEW p \in Procs, Abandon(p)
  PROVE  LET c == call[p] IN
         /\ c.pc = "abandon" /\ c.op = "create_vm" /\ c.vm \in VMs
         /\ Ends(p, "err")
         /\ Idle \/ (Exists(c.vm) /\ Goner(c.vm))
<1>1. call[p].pc = "abandon" /\ call[p].op = "create_vm" /\ call[p].vm \in VMs
  BY Basics DEF Abandon, At, Shape, VmOps
<1> QED
  BY <1>1, Basics, Locals, Effects DEF Abandon, VM, Fail

LEMMA LocateDoes ==
  ASSUME TypeInv, NEW p \in Procs, Locate(p)
  PROVE  LET c == call[p] IN
         /\ c.pc = "locate" /\ c.op = "create_disk" /\ c.vm \in VMs /\ c.disk \in Disks /\ Idle
         /\ \/ Goes(p, "volCreate") /\ Exists(c.vm)
            \/ Ends(p, "err") /\ (~Exists(c.vm) \/ ~Smooth(c))
BY Basics, Locals DEF Locate, VM, At, Fail, Shape, DiskOps, RestartOps, Idle, engine

Volume(d, s) == UNCHANGED <<ctr, scratch>> /\ volume' = [volume EXCEPT ![d] = s]

LEMMA VolumeCreateDoes ==
  ASSUME TypeInv, NEW p \in Procs, VolumeCreate(p)
  PROVE  LET c == call[p] IN
         /\ c.pc = "volCreate" /\ c.op = "create_disk" /\ c.disk \in Disks
         /\ \/ Volume(c.disk, "made") /\ Ends(p, "ok")
            \/ Ends(p, "err") /\ ~Smooth(c) /\ (Idle \/ Volume(c.disk, "made"))
BY Basics, Locals
DEF VolumeCreate, Fault, SetVolume, Volume, At, Done, Fail, Shape, DiskOps, RestartOps, Idle, engine

LEMMA VolumeRemoveDoes ==
  ASSUME TypeInv, NEW p \in Procs, VolumeRemove(p)
  PROVE  LET c == call[p] IN
         /\ c.pc = "volRemove" /\ c.op = "delete_disk" /\ c.disk \in Disks
         /\ \/ Volume(c.disk, "none") /\ ~InUse(c.disk) /\ Ends(p, "ok")
            \/ /\ Ends(p, "err") /\ (InUse(c.disk) \/ volume[c.disk] = "none" \/ ~Smooth(c))
               /\ Idle \/ (Volume(c.disk, "none") /\ ~InUse(c.disk))
BY Basics, Locals
DEF VolumeRemove, Fault, SetVolume, Volume, At, Done, Fail, Shape, DiskOps, RestartOps, Idle, engine

LEMMA HasDiskDoes ==
  ASSUME TypeInv, NEW p \in Procs, HasDisk(p)
  PROVE  LET c == call[p] IN
         /\ c.pc = "hasDisk" /\ c.op = "has_disk" /\ c.disk \in Disks /\ Idle
         /\ \/ volume[c.disk] # "none" /\ Ends(p, "yes")
            \/ volume[c.disk] = "none" /\ Ends(p, "no")
            \/ Ends(p, "err") /\ ~Smooth(c)
BY Basics, Locals DEF HasDisk, At, Fail, Shape, Idle, engine

\* Which operation an action belongs to.
LEMMA WhoseStep ==
  ASSUME TypeInv, NEW p \in Procs
  PROVE  LET c == call[p] IN
         /\ ContainerStep(p) => HasVM(p) \/ c.op \in RestartOps \cup {"delete_vm"}
         /\ HasVM(p) => c.op = "has_vm"
         /\ FactoryStep(p) => c.op = "create_vm"
         /\ Locate(p) \/ VolumeCreate(p) => c.op = "create_disk"
         /\ VolumeRemove(p) => c.op = "delete_disk"
         /\ HasDisk(p) => c.op = "has_disk"
<1> DEFINE c == call[p]
<1>1. CheckExists(p) \/ Fetch(p) \/ Inspect(p) \/ FindNode(p) => c.op \in RestartOps
  BY CheckExistsDoes, FetchDoes, InspectDoes, FindNodeDoes
<1>2. DownloadSettings(p) \/ DownloadRecords(p) => c.op \in RestartOps
  BY DownloadDoes DEF DownloadSettings, DownloadRecords, At
<1>3. DeleteExists(p) \/ Kill(p) \/ Remove(p) \/ RemoveScratch(p)
      => c.op \in RestartOps \cup {"delete_vm"}
  BY DeleteExistsDoes, KillDoes, RemoveDoes, RemoveScratchDoes
<1>4. Recreate(p) \/ Reconnect(p) \/ Restart(p) \/ UpdateEnv(p) => c.op \in RestartOps
  BY DEF Recreate, Reconnect, Restart, UpdateEnv, Restarts, RestartOps
<1>5. Upload(p) \/ Chgrp(p) => c.op \in RestartOps
  BY UploadDoes, ChgrpDoes
<1>6. ContainerStep(p) => HasVM(p) \/ c.op \in RestartOps \cup {"delete_vm"}
  BY <1>1, <1>2, <1>3, <1>4, <1>5 DEF ContainerStep
<1>7. FactoryStep(p) => c.op = "create_vm"
  BY PrepareDoes, AbandonDoes
  DEF FactoryStep, CreateContainer, ConnectNetwork, StartContainer, WriteAgentEnv, Creates
<1> QED
  BY <1>6, <1>7, HasVMDoes, LocateDoes, VolumeCreateDoes, VolumeRemoveDoes, HasDiskDoes

-----------------------------------------------------------------------------
(* A step of a call is local: it changes that call, its VM and its disk.   *)

Local(p) ==
  /\ Moves1(p) /\ Touches(call[p].vm)
  /\ \A v \in VMs : v # call[p].vm => (v \in scratch' <=> v \in scratch)
  /\ \A d \in Disks : d # call[p].disk => volume'[d] = volume[d]
  /\ call[p].op # "delete_disk" => \A d \in Disks : volume[d] # "none" => volume'[d] # "none"

LEMMA Others ==
  ASSUME EnvInv, NEW p \in Procs, Moves1(p)
  PROVE  /\ UNCHANGED <<cid, held, doubt, asked>>
         /\ \A q \in Procs : q # p => call'[q] = call[q]
         /\ \A q \in Procs : /\ call'[q].op = call[q].op
                             /\ call'[q].vm = call[q].vm /\ call'[q].disk = call[q].disk
         /\ \A q \in Procs : q # p /\ call[q].vm \in VMs => call[q].vm # call[p].vm
BY DEF Moves1, director, EnvInv, TypeInv, TypeOK, DirectorTypeOK, OneCallPerVM

\* The volumes that a VM or a call counts on are not what the step deletes.
LEMMA Lives ==
  ASSUME EnvInv, Books, NEW p \in Procs, Local(p), NEW d \in Disks, volume[d] # "none"
  PROVE  /\ \A v \in VMs : d \in held[v] => volume'[d] # "none"
         /\ \A q \in Procs : q # p /\ call[q].disk = d => volume'[d] # "none"
BY DEF Local, Books, CallBook, DisksHeld, OneCallPerDisk

LEMMA BookFrame ==
  ASSUME EnvInv, Books, NEW p \in Procs, Local(p), CallBook(call[p])',
         \A v \in VMs : v = call[p].vm => VMBook(v)',
         \A d \in Disks : d = call[p].disk => DiskBook(d)'
  PROVE  Books'
<1>1. Moves1(p)
  BY DEF Local
<1>2. OneCallPerDisk' /\ HeldOnce'
  BY <1>1, Others DEF Books, OneCallPerDisk, HeldOnce
<1>3. ASSUME NEW q \in Procs, q # p PROVE CallBook(call[q])'
  <2> DEFINE c == call[q]
  <2>1. CallBook(c) /\ Shape(c.op, c.pc, c.vm, c.disk)
    BY Basics DEF Books, EnvInv
  <2>2. call'[q] = c
    BY <1>1, <1>3, Others
  <2>3. c.vm \in VMs => /\ ctr'[c.vm] = ctr[c.vm] /\ c.vm # call[p].vm
                        /\ c.vm \in scratch' <=> c.vm \in scratch
    BY <1>1, <1>3, Others DEF Local, Touches
  <2>4. KnowsCids(call[q])'
    BY <1>1, <2>1, <2>2, Others DEF CallBook, KnowsCids
  <2>5. Stands(call[q])'
    BY <2>1, <2>2, <2>3 DEF CallBook, Stands, Exists, Shape, RestartOps, VmOps
  <2>6. NetsFollow(call[q])'
    BY <1>1, <2>1, <2>2, <2>3, Others DEF CallBook, NetsFollow, Shape, RestartOps, VmOps, Reads
  <2>7. DisksHeld(call[q])'
    BY <1>1, <2>1, <2>2, <2>3, Others DEF CallBook, DisksHeld, Shape, RestartOps, VmOps
  <2>8. VolumesKept(call[q])'
    <3>1. \A d \in c.binds : volume'[d] # "none"
      BY <1>3, <2>1, Lives DEF CallBook, DisksHeld, VolumesKept, Shape, RestartOps, VmOps, EnvInv, TypeInv, TypeOK, DirectorTypeOK
    <3>2. c.disk \in Disks /\ c.op # "none" => c.disk # call[p].disk
      BY <1>3 DEF Books, OneCallPerDisk
    <3> QED
      BY <1>3, <2>1, <2>2, <3>1, <3>2, Lives
      DEF CallBook, VolumesKept, Shape, RestartOps, DiskOps, Local
  <2> QED
    BY <2>4, <2>5, <2>6, <2>7, <2>8 DEF CallBook
<1>4. ASSUME NEW v \in VMs, v # call[p].vm PROVE VMBook(v)'
  <2>1. VMBook(v) /\ ctr'[v] = ctr[v] /\ (v \in scratch' <=> v \in scratch)
    BY <1>4 DEF Local, Touches, Books
  <2>2. held[v] \subseteq Disks
    BY DEF EnvInv, TypeInv, TypeOK, DirectorTypeOK
  <2>3. \A d \in ctr[v].binds : volume'[d] # "none"
    BY <2>1, <2>2, Lives DEF VMBook
  <2> QED
    BY <1>1, <2>1, <2>3, Others DEF VMBook, Exists, Running
<1>5. ASSUME NEW d \in Disks, d # call[p].disk PROVE DiskBook(d)'
  BY <1>1, <1>5, Others DEF Books, DiskBook, Local
<1> QED
  BY <1>2, <1>3, <1>4, <1>5 DEF Books

\* What a step starts from.
LEMMA BookFacts ==
  ASSUME EnvInv, Books, NEW p \in Procs
  PROVE  /\ CallBook(call[p]) /\ EnvFollows(call[p]) /\ TypeInv
         /\ \A v \in VMs : VMBook(v) /\ ctr[v] \in Containers /\ held[v] \subseteq Disks
         /\ \A d \in Disks : DiskBook(d)
BY EnvFacts DEF Books, EnvInv, TypeInv, TypeOK, DirectorTypeOK, EngineTypeOK

\* A call that ends without success has nothing to show.
LEMMA EndsBook ==
  ASSUME EnvInv, Books, NEW p \in Procs, Ends(p, "err")
  PROVE  CallBook(call[p])'
<1> CallBook(call[p]) /\ Moves1(p)
  BY DEF Books, Ends
<1> QED
  BY Others
  DEF Ends, CallBook, KnowsCids, Stands, NetsFollow, DisksHeld, VolumesKept, Reads, Remakes,
      Builds, Restores

\* Steps that only read, and those that change the VM.
LEMMA IdleBook ==
  ASSUME EnvInv, Books, NEW p \in Procs, Idle, Moves1(p), CallBook(call[p])'
  PROVE  Books'
<1>1. Local(p)
  BY DEF Local, Touches, Idle
<1>2. \A v \in VMs : VMBook(v)'
  BY Others DEF Books, VMBook, Idle, Exists, Running
<1>3. \A d \in Disks : DiskBook(d)'
  BY Others DEF Books, DiskBook, Idle
<1> QED
  BY <1>1, <1>2, <1>3, BookFrame

LEMMA VMStepBook ==
  ASSUME EnvInv, Books, NEW p \in Procs, call[p].vm \in VMs, Moves1(p), Touches(call[p].vm),
         UNCHANGED volume, \A v \in VMs : v # call[p].vm => (v \in scratch' <=> v \in scratch),
         CallBook(call[p])', \A v \in VMs : v = call[p].vm => VMBook(v)'
  PROVE  Books'
<1>1. Local(p)
  BY DEF Local
<1>2. \A d \in Disks : DiskBook(d)'
  BY Others DEF Books, DiskBook
<1> QED
  BY <1>1, <1>2, BookFrame

-----------------------------------------------------------------------------
(* Every step of a call keeps the books.                                   *)

\* What the container has after a step, for the books.
LEMMA CreateBook ==
  ASSUME EnvInv, Books, NEW p \in Procs, NEW B \in SUBSET Disks, NEW clash \in BOOLEAN,
         CreateStep(p, B, clash),
         B \subseteq held[call[p].vm], \A d \in B : volume[d] # "none",
         call[p].op = "detach_disk" => call[p].disk \notin B,
         call[p].nets = asked[call[p].vm]
  PROVE  Books'
<1> DEFINE c == call[p]
           pc(first) == IF c.nets = first THEN "start" ELSE "connect"
<1>1. PICK first \in SplitNetworks(c.nets) :
       \/ /\ Takes(p, pc(first), c.env, {}, {}, c.got, c.nets \ first, c.failed)
          /\ Arises(c.vm, B, first) /\ ~Exists(c.vm)
       \/ Ends(p, "err") /\ (Idle \/ (Arises(c.vm, B, first) /\ ~Exists(c.vm)))
  BY CreateDoes, BookFacts
<1>2. c.vm \in VMs /\ c.op \in RestartOps \cup {"create_vm"}
  BY CreateDoes, BookFacts
<1>3. first \subseteq c.nets /\ (c.nets = first \/ c.nets # first)
  BY DEF SplitNetworks
<1>4. Moves1(p)
  BY <1>1 DEF Takes, Ends
<1>5. CASE Idle
  <2>1. ~Takes(p, pc(first), c.env, {}, {}, c.got, c.nets \ first, c.failed) => Ends(p, "err")
    BY <1>1
  <2>2. Arises(c.vm, B, first) /\ ~Exists(c.vm) => FALSE
    BY <1>2, <1>5 DEF Arises, Idle, Exists, NoContainer
  <2> QED
    BY <1>1, <1>4, <1>5, <2>2, EndsBook, IdleBook
<1>6. CASE Arises(c.vm, B, first)
  <2>1. /\ ctr'[c.vm].st = "created" /\ ctr'[c.vm].binds = B /\ ctr'[c.vm].nets = first
        /\ UNCHANGED volume
    <3>1. UNCHANGED volume
      BY <1>6, BookFacts DEF Arises, EnvInv, TypeInv, TypeOK, EngineTypeOK
    <3> QED
      BY <1>6, <3>1 DEF Arises, NoContainer
  <2>2. CallBook(c)
    BY BookFacts
  <2>3. CallBook(call[p])'
    <3>1. CASE Ends(p, "err")
      BY <3>1, EndsBook
    <3>2. CASE Takes(p, pc(first), c.env, {}, {}, c.got, c.nets \ first, c.failed)
      <4>1. /\ call'[p].op = c.op /\ call'[p].vm = c.vm /\ call'[p].disk = c.disk
            /\ call'[p].pc \in {"start", "connect"} /\ call'[p].binds = {}
            /\ call'[p].left = c.nets \ first
            /\ call'[p].pc = "start" => c.nets = first
        BY <3>2 DEF Takes, Moves1
      <4> HIDE DEF pc
      <4> QED
        BY <1>2, <1>3, <1>4, <2>1, <2>2, <4>1, Others
        DEF CallBook, KnowsCids, Stands, NetsFollow, DisksHeld, VolumesKept, Reads, Remakes,
            Builds, Restores, RestartOps, Exists
    <3> QED
      BY <1>1, <3>1, <3>2
  <2>4. VMBook(c.vm) /\ cid[c.vm] # "deleted"
    BY <1>2, <2>2, BookFacts DEF CallBook, KnowsCids, RestartOps
  <2>5. \A v \in VMs : v = c.vm => VMBook(v)'
    BY <1>4, <2>1, <2>4, Others DEF VMBook, Exists, Running
  <2> QED
    BY <1>2, <1>4, <1>6, <2>1, <2>3, <2>5, VMStepBook DEF Arises
<1> QED
  BY <1>1, <1>5, <1>6

LEMMA ConnectBook ==
  ASSUME EnvInv, Books, NEW p \in Procs, ConnectStep(p)
  PROVE  Books'
<1> DEFINE c == call[p]
           pc(n) == IF c.left = {n} THEN "start" ELSE "connect"
<1>1. PICK n \in c.left :
       \/ /\ Takes(p, pc(n), c.env, c.binds, c.nets, c.got, c.left \ {n}, c.failed)
          /\ Joins(c.vm, n) /\ Exists(c.vm)
       \/ Ends(p, "err") /\ (Idle \/ (Joins(c.vm, n) /\ Exists(c.vm)))
  BY ConnectDoes, BookFacts
<1>2. c.vm \in VMs /\ c.op \in RestartOps \cup {"create_vm"} /\ c.pc = "connect"
  BY ConnectDoes, BookFacts
<1>3. CallBook(c) /\ VMBook(c.vm) /\ ctr[c.vm].nets \cup c.left = asked[c.vm]
  BY <1>2, BookFacts DEF CallBook, NetsFollow
<1>4. CASE Ends(p, "err") /\ Idle
  BY <1>4, EndsBook, IdleBook DEF Ends
<1>5. CASE Joins(c.vm, n) /\ Exists(c.vm)
  <2> DEFINE N == ctr[c.vm].nets \cup {n}
  <2>1. /\ ctr'[c.vm].st = ctr[c.vm].st /\ ctr'[c.vm].binds = ctr[c.vm].binds
        /\ ctr'[c.vm].nets = N
        /\ Touches(c.vm) /\ UNCHANGED <<scratch, volume>>
    BY <1>5 DEF Joins, Alters
  <2>4. N \cup (c.left \ {n}) = asked[c.vm] /\ (c.left = {n} => N = asked[c.vm])
        /\ (ctr[c.vm].nets = asked[c.vm] => N = asked[c.vm])
    BY <1>1, <1>3
  <2> HIDE DEF N
  <2>2. CallBook(call[p])' /\ Moves1(p)
    <3>1. CASE Ends(p, "err")
      BY <3>1, EndsBook DEF Ends
    <3>2. CASE Takes(p, pc(n), c.env, c.binds, c.nets, c.got, c.left \ {n}, c.failed)
      <4>1. /\ call'[p].op = c.op /\ call'[p].vm = c.vm /\ call'[p].disk = c.disk
            /\ call'[p].pc \in {"start", "connect"} /\ call'[p].binds = c.binds
            /\ call'[p].left = c.left \ {n} /\ Moves1(p)
            /\ call'[p].pc = "start" => c.left = {n}
        BY <3>2 DEF Takes, Moves1
      <4> HIDE DEF pc
      <4> QED
        BY <1>2, <1>3, <1>5, <2>1, <2>4, <4>1, Others
        DEF CallBook, KnowsCids, Stands, NetsFollow, DisksHeld, VolumesKept, Reads, Remakes,
            Builds, Restores, RestartOps, Exists
    <3> QED
      BY <1>1, <3>1, <3>2
  <2>3. \A v \in VMs : v = c.vm => VMBook(v)'
    BY <1>2, <1>3, <1>5, <2>1, <2>2, <2>4, Others DEF VMBook, Exists, Running
  <2> QED
    BY <1>2, <2>1, <2>2, <2>3, VMStepBook
<1> QED
  BY <1>1, <1>4, <1>5

\* The actions of vm/container.go.
LEMMA ContainerBook ==
  ASSUME EnvInv, Books, NEW p \in Procs, ContainerStep(p)
  PROVE  Books'
<1> DEFINE c == call[p]
           Own == CallBook(call[p])' /\ \A v \in VMs : v = c.vm => VMBook(v)'
<1>1. /\ CallBook(c) /\ EnvFollows(c) /\ TypeInv
      /\ \A v \in VMs : VMBook(v) /\ ctr[v] \in Containers
  BY BookFacts
<1>2. Idle /\ Ends(p, "err") => Books'
  BY EndsBook, IdleBook DEF Ends
<1>3. Idle /\ Moves1(p) /\ CallBook(call[p])' => Books'
  BY IdleBook
<1>4. c.vm \in VMs /\ Moves1(p) /\ Touches(c.vm) /\ UNCHANGED <<scratch, volume>> /\ Own => Books'
  BY VMStepBook
<1> USE DEF Reads, Remakes, Builds, Restores, RestartOps
<1>5. CASE CheckExists(p)
  <2>1. Idle /\ (Ends(p, "err") \/ Goes(p, "fetch"))
    BY <1>1, <1>5, CheckExistsDoes
  <2>2. Goes(p, "fetch") => Moves1(p) /\ CallBook(call[p])'
    BY <1>1, <1>5, <2>1, CheckExistsDoes, Others
    DEF Goes, Takes, Moves1, Idle, CallBook, KnowsCids, Stands, NetsFollow, DisksHeld, VolumesKept
  <2> QED
    BY <1>2, <1>3, <2>1, <2>2
<1>6. CASE Fetch(p)
  <2>1. \/ Idle /\ Ends(p, "err")
        \/ /\ Idle /\ c.op \in RestartOps /\ c.vm \in VMs /\ Running(c.vm)
           /\ Moves1(p) /\ call'[p].pc = "settings" /\ call'[p].binds = c.binds
    BY <1>1, <1>6, FetchDoes DEF Takes, Up
  <2>2. ~Ends(p, "err") => CallBook(call[p])'
    BY <1>1, <2>1, Others
    DEF VMBook, Moves1, Idle, CallBook, KnowsCids, Stands, NetsFollow, DisksHeld, VolumesKept
  <2> QED
    BY <1>2, <1>3, <2>1, <2>2
<1>7. CASE DownloadSettings(p) \/ DownloadRecords(p)
  <2>1. /\ Idle /\ Moves1(p) /\ c.pc \in Reads
        /\ call'[p].pc \in {"records", "inspect"} /\ call'[p].binds = c.binds
    BY <1>1, <1>7, DownloadDoes DEF DownloadSettings, DownloadRecords, At, Goes, Takes
  <2>2. CallBook(call[p])'
    BY <1>1, <2>1, Others
    DEF Moves1, Idle, CallBook, KnowsCids, Stands, NetsFollow, DisksHeld, VolumesKept
  <2> QED
    BY <1>3, <2>1, <2>2
<1>8. CASE Inspect(p)
  <2>1. /\ Idle /\ c.pc \in Reads /\ c.op \in RestartOps /\ c.vm \in VMs
        /\ \/ Ends(p, "err")
           \/ /\ Moves1(p) /\ call'[p].pc = "delExists"
              /\ call'[p].binds = ctr[c.vm].binds /\ call'[p].nets = ctr[c.vm].nets
    BY <1>1, <1>8, InspectDoes DEF Takes
  <2>2. ~Ends(p, "err") => CallBook(call[p])'
    BY <1>1, <2>1, Others
    DEF Moves1, Idle, VMBook, CallBook, KnowsCids, Stands, NetsFollow, DisksHeld, VolumesKept
  <2> QED
    BY <1>2, <1>3, <2>1, <2>2
<1>9. CASE DeleteExists(p)
  <2>1. /\ Idle /\ c.pc = "delExists" /\ c.op \in RestartOps \cup {"delete_vm"} /\ c.vm \in VMs
        /\ Ends(p, "err") \/ (Goes(p, "kill") /\ Exists(c.vm)) \/ Goes(p, "scratch")
    BY <1>1, <1>9, DeleteExistsDoes
  <2>2. ~Ends(p, "err") => Moves1(p) /\ CallBook(call[p])'
    BY <1>1, <2>1, Others
    DEF Goes, Takes, Moves1, Idle, CallBook, KnowsCids, Stands, NetsFollow, DisksHeld, VolumesKept,
        Exists
  <2> QED
    BY <1>2, <1>3, <2>1, <2>2
<1>10. CASE Kill(p)
  <2>1. /\ c.pc = "kill" /\ c.op \in RestartOps \cup {"delete_vm"} /\ c.vm \in VMs
        /\ Idle \/ Stops(c.vm)
        /\ Goes(p, "remove") \/ Goes(p, "kill") \/ Ends(p, "err")
    BY <1>1, <1>10, KillDoes
  <2>2. Moves1(p) /\ Exists(c.vm) /\ Exists(c.vm)'
    BY <1>1, <2>1 DEF CallBook, Stands, Goes, Takes, Ends, Moves1, Idle, Stops, Alters, Exists
  <2>3. ASSUME ~Ends(p, "err") PROVE CallBook(call[p])'
    <3>1. KnowsCids(call[p])'
      BY <1>1, <2>1, <2>2, <2>3, Others
      DEF Goes, Takes, Moves1, Idle, Stops, Alters, CallBook, KnowsCids
    <3>2. Stands(call[p])'
      BY <1>1, <2>1, <2>2, <2>3, Others
      DEF Goes, Takes, Moves1, Idle, Stops, Alters, CallBook, Stands, Exists
    <3>3. NetsFollow(call[p])'
      BY <1>1, <2>1, <2>2, <2>3, Others
      DEF Goes, Takes, Moves1, Idle, Stops, Alters, CallBook, NetsFollow
    <3>4. DisksHeld(call[p])'
      BY <1>1, <2>1, <2>2, <2>3, Others
      DEF Goes, Takes, Moves1, Idle, Stops, Alters, CallBook, DisksHeld
    <3>5. VolumesKept(call[p])'
      BY <1>1, <2>1, <2>2, <2>3, Others
      DEF Goes, Takes, Moves1, Idle, Stops, Alters, CallBook, VolumesKept
    <3> QED
      BY <3>1, <3>2, <3>3, <3>4, <3>5 DEF CallBook
  <2>4. Stops(c.vm) => \A v \in VMs : v = c.vm => VMBook(v)'
    BY <1>1, <2>1, <2>2, Others DEF Stops, Alters, VMBook, Exists, Running
  <2> QED
    BY <1>2, <1>3, <1>4, <2>1, <2>2, <2>3, <2>4, EndsBook DEF Stops, Alters
<1>11. CASE Remove(p)
  <2> DEFINE Off == Goner(c.vm) \/ (Exists(c.vm) /\ Stops(c.vm))
  <2>1. /\ c.pc = "remove" /\ c.op \in RestartOps \cup {"delete_vm"} /\ c.vm \in VMs
        /\ (Goes(p, "scratch") /\ Off) \/ (Ends(p, "err") /\ (Idle \/ Off))
    BY <1>1, <1>11, RemoveDoes
  <2>2. Moves1(p)
    BY <2>1 DEF Goes, Takes, Ends
  <2>3. Off => /\ Touches(c.vm) /\ UNCHANGED <<scratch, volume>>
               /\ \/ ctr'[c.vm] = NoContainer
                  \/ /\ Exists(c.vm) /\ ctr'[c.vm].st = "exited"
                     /\ ctr'[c.vm].binds = ctr[c.vm].binds
    BY DEF Goner, Stops, Alters
  <2> HIDE DEF Off
  <2>4. Goes(p, "scratch") /\ Off => CallBook(call[p])'
    BY <1>1, <2>1, <2>2, <2>3, Others
    DEF Goes, Takes, Moves1, CallBook, KnowsCids, Stands, NetsFollow, DisksHeld, VolumesKept
  <2>5. Off => \A v \in VMs : v = c.vm => VMBook(v)'
    <3>1. NoContainer.st = "none" /\ NoContainer.binds = {}
      BY DEF NoContainer
    <3>2. cid[c.vm] = "known"
      BY <1>1, <2>1 DEF CallBook, KnowsCids
    <3> QED
      BY <1>1, <2>1, <2>2, <2>3, <3>1, <3>2, Others DEF VMBook, Exists, Running
  <2> QED
    BY <1>2, <1>4, <2>1, <2>2, <2>3, <2>4, <2>5, EndsBook
<1>12. CASE RemoveScratch(p)
  <2>1. /\ c.pc = "scratch" /\ c.op \in RestartOps \cup {"delete_vm"} /\ c.vm \in VMs
        /\ UNCHANGED <<ctr, volume>> /\ scratch' \in {scratch, scratch \ {c.vm}}
        /\ \/ Ends(p, "err")
           \/ /\ ~Exists(c.vm) /\ c.vm \notin scratch'
              /\ \/ c.op = "delete_vm" /\ Ends(p, "ok")
                 \/ c.op \in RestartOps /\ Goes(p, "findNode")
    BY <1>1, <1>12, RemoveScratchDoes
  <2>2. Moves1(p)
    BY <2>1 DEF Goes, Takes, Ends
  <2>3. ~Ends(p, "err") => CallBook(call[p])'
    BY <1>1, <2>1, <2>2, Others
    DEF Goes, Takes, Ends, Moves1, CallBook, KnowsCids, Stands, NetsFollow,
        DisksHeld, VolumesKept, Exists
  <2>4. \A v \in VMs : v = c.vm => VMBook(v)'
    BY <1>1, <2>1, <2>2, Others DEF VMBook, Exists, Running
  <2>5. Touches(c.vm) /\ \A v \in VMs : v # c.vm => (v \in scratch' <=> v \in scratch)
    BY <2>1 DEF Touches
  <2> QED
    BY <2>1, <2>2, <2>3, <2>4, <2>5, EndsBook, VMStepBook
<1>13. CASE FindNode(p)
  <2>1. /\ Idle /\ c.pc = "findNode" /\ c.op \in RestartOps /\ c.vm \in VMs
        /\ Ends(p, "err") \/ (Goes(p, "create") /\ volume[c.disk] # "none")
    BY <1>1, <1>13, FindNodeDoes
  <2>2. ~Ends(p, "err") => Moves1(p) /\ CallBook(call[p])'
    BY <1>1, <2>1, Others
    DEF Goes, Takes, Moves1, Idle, CallBook, KnowsCids, Stands, NetsFollow, DisksHeld, VolumesKept,
        Exists
  <2> QED
    BY <1>2, <1>3, <2>1, <2>2
<1>14. CASE Recreate(p)
  <2> DEFINE B == UpdateBinds(c.op, c.binds, c.disk)
             clash == DuplicateBind(c.op, c.binds, c.disk)
  <2>1. c.op \in RestartOps /\ c.pc = "create" /\ CreateStep(p, B, clash)
        /\ c.vm \in VMs /\ c.disk \in Disks
    BY <1>1, <1>14, Basics DEF Recreate, CreateStep, Restarts, At, Shape, VmOps
  <2>2. B \in SUBSET held[c.vm] /\ (\A d \in B : volume[d] # "none")
        /\ (c.op = "detach_disk" => c.disk \notin B)
    BY <1>1, <2>1 DEF CallBook, DisksHeld, VolumesKept, UpdateBinds
  <2>3. c.nets = asked[c.vm]
    BY <1>1, <2>1 DEF CallBook, NetsFollow, EnvFollows
  <2>4. B \in SUBSET Disks /\ clash \in BOOLEAN
    BY <2>1, <2>2, BookFacts DEF DuplicateBind
  <2> HIDE DEF B, clash
  <2> QED
    BY <2>1, <2>2, <2>3, <2>4, CreateBook
<1>15. CASE Reconnect(p)
  BY <1>15, ConnectBook DEF Reconnect
<1>16. CASE Restart(p)
  <2>1. /\ c.pc = "start" /\ c.op \in RestartOps /\ c.vm \in VMs
        /\ Idle \/ (Exists(c.vm) /\ Starts(c.vm))
        /\ Moves1(p) /\ call'[p].binds = c.binds
        /\ \/ call'[p].pc = "update"
           \/ call'[p].pc = "delExists" /\ call'[p].failed
    BY <1>1, <1>16, RestartDoes DEF Goes, Takes
  <2>2. CallBook(call[p])'
    <3>1. KnowsCids(call[p])'
      BY <1>1, <2>1, Others
      DEF Moves1, Idle, Starts, Alters, CallBook, KnowsCids
    <3>2. Stands(call[p])'
      BY <1>1, <2>1, Others
      DEF Moves1, Idle, Starts, Alters, CallBook, Stands, Exists
    <3>3. NetsFollow(call[p])'
      BY <1>1, <2>1, Others
      DEF Moves1, Idle, Starts, Alters, CallBook, NetsFollow
    <3>4. DisksHeld(call[p])'
      BY <1>1, <2>1, Others
      DEF Moves1, Idle, Starts, Alters, CallBook, DisksHeld
    <3>5. VolumesKept(call[p])'
      BY <1>1, <2>1, Others
      DEF Moves1, Idle, Starts, Alters, CallBook, VolumesKept
    <3> QED
      BY <3>1, <3>2, <3>3, <3>4, <3>5 DEF CallBook
  <2>3. Exists(c.vm) /\ Starts(c.vm) => \A v \in VMs : v = c.vm => VMBook(v)'
    BY <1>1, <2>1, Others DEF Starts, Alters, CallBook, NetsFollow, VMBook, Exists, Running
  <2> QED
    BY <1>3, <1>4, <2>1, <2>2, <2>3 DEF Starts, Alters
<1>17. CASE UpdateEnv(p) \/ Upload(p) \/ Chgrp(p)
  <2> DEFINE Same == /\ Touches(c.vm) /\ UNCHANGED <<scratch, volume>>
                     /\ ctr'[c.vm].st = ctr[c.vm].st /\ ctr'[c.vm].binds = ctr[c.vm].binds
                     /\ ctr'[c.vm].nets = ctr[c.vm].nets
  <2>1. /\ \A E, L : Gets(c.vm, E, L) => Same
        /\ \A f, g : Stores(c.vm, f, g) => Same
        /\ Spoils(c.vm, c.env) => Same /\ Running(c.vm)
    BY DEF Gets, Stores, Spoils, Alters
  <2> HIDE DEF Same
  <2>2. /\ c.pc \in Builds \cup Restores /\ c.op \in RestartOps /\ c.vm \in VMs /\ Moves1(p)
        /\ Idle \/ (Running(c.vm) /\ Same)
        /\ \/ Ends(p, "ok") \/ Ends(p, "err")
           \/ call'[p].pc \in Restores /\ call'[p].binds = c.binds
    <3>1. CASE UpdateEnv(p)
      BY <1>1, <2>1, <3>1, UpdateDoes, UploadOrDoes DEF Ends, Takes
    <3>2. CASE Upload(p)
      BY <1>1, <2>1, <3>2, UploadDoes, UploadOrDoes DEF Ends, Takes
    <3>3. CASE Chgrp(p)
      BY <1>1, <2>1, <3>3, ChgrpDoes DEF Ends, Takes
    <3> QED
      BY <1>17, <3>1, <3>2, <3>3
  <2>3. ASSUME Idle, ~Ends(p, "err") PROVE CallBook(call[p])'
    <3>1. KnowsCids(call[p])'
      BY <1>1, <2>2, <2>3, Others
      DEF Moves1, Ends, Idle, CallBook, KnowsCids
    <3>2. Stands(call[p])'
      BY <1>1, <2>2, <2>3, Others
      DEF Moves1, Ends, Idle, CallBook, Stands, Exists
    <3>3. NetsFollow(call[p])'
      BY <1>1, <2>2, <2>3, Others
      DEF Moves1, Ends, Idle, CallBook, NetsFollow
    <3>4. DisksHeld(call[p])'
      BY <1>1, <2>2, <2>3, Others
      DEF Moves1, Ends, Idle, CallBook, DisksHeld
    <3>5. VolumesKept(call[p])'
      BY <1>1, <2>2, <2>3, Others
      DEF Moves1, Ends, Idle, CallBook, VolumesKept
    <3> QED
      BY <3>1, <3>2, <3>3, <3>4, <3>5 DEF CallBook
  <2>4. ASSUME Same, ~Ends(p, "err") PROVE CallBook(call[p])'
    <3>1. KnowsCids(call[p])'
      BY <1>1, <2>2, <2>4, Others
      DEF Moves1, Ends, Same, CallBook, KnowsCids
    <3>2. Stands(call[p])'
      BY <1>1, <2>2, <2>4, Others
      DEF Moves1, Ends, Same, CallBook, Stands, Exists
    <3>3. NetsFollow(call[p])'
      BY <1>1, <2>2, <2>4, Others
      DEF Moves1, Ends, Same, CallBook, NetsFollow
    <3>4. DisksHeld(call[p])'
      BY <1>1, <2>2, <2>4, Others
      DEF Moves1, Ends, Same, CallBook, DisksHeld
    <3>5. VolumesKept(call[p])'
      BY <1>1, <2>2, <2>4, Others
      DEF Moves1, Ends, Same, CallBook, VolumesKept
    <3> QED
      BY <3>1, <3>2, <3>3, <3>4, <3>5 DEF CallBook
  <2>5. Same /\ Running(c.vm) => \A v \in VMs : v = c.vm => VMBook(v)'
    BY <1>1, <2>2, Others DEF Same, VMBook, Exists, Running
  <2> QED
    BY <1>2, <1>3, <1>4, <2>2, <2>3, <2>4, <2>5, EndsBook DEF Same
<1>18. CASE HasVM(p)
  <2>1. /\ Idle /\ c.op = "has_vm" /\ Moves1(p)
        /\ call'[p].pc \in {"yes", "no", "err"} /\ call'[p].binds = {}
    BY <1>1, <1>18, HasVMDoes DEF Ends
  <2>2. CallBook(call[p])'
    BY <1>1, <2>1, Others
    DEF Moves1, CallBook, KnowsCids, Stands, NetsFollow, DisksHeld, VolumesKept
  <2> QED
    BY <1>3, <2>1, <2>2
<1> QED
  BY <1>5, <1>6, <1>7, <1>8, <1>9, <1>10, <1>11, <1>12, <1>13, <1>14, <1>15, <1>16, <1>17, <1>18 DEF ContainerStep

\* Those of vm/factory.go.
LEMMA FactoryBook ==
  ASSUME EnvInv, Books, NEW p \in Procs, FactoryStep(p)
  PROVE  Books'
<1> DEFINE c == call[p]
           Own == CallBook(call[p])' /\ \A v \in VMs : v = c.vm => VMBook(v)'
<1>1. /\ CallBook(c) /\ EnvFollows(c) /\ TypeInv
      /\ \A v \in VMs : VMBook(v) /\ ctr[v] \in Containers
  BY BookFacts
<1>2. Idle /\ Ends(p, "err") => Books'
  BY EndsBook, IdleBook DEF Ends
<1>3. Idle /\ Moves1(p) /\ CallBook(call[p])' => Books'
  BY IdleBook
<1>4. c.vm \in VMs /\ Moves1(p) /\ Touches(c.vm) /\ UNCHANGED <<scratch, volume>> /\ Own => Books'
  BY VMStepBook
<1> USE DEF Reads, Remakes, Builds, Restores, RestartOps
<1>5. CASE Prepare(p)
  <2>1. /\ Idle /\ c.pc = "prepare" /\ c.op = "create_vm" /\ c.vm \in VMs
        /\ \/ Ends(p, "err")
           \/ /\ Moves1(p) /\ call'[p].pc = "create" /\ call'[p].binds = c.binds
              /\ call'[p].nets = asked[c.vm]
    BY <1>1, <1>5, PrepareDoes DEF Takes
  <2>2. ~Ends(p, "err") => CallBook(call[p])'
    BY <1>1, <2>1, Others
    DEF Moves1, Idle, CallBook, KnowsCids, Stands, NetsFollow, DisksHeld, VolumesKept, Exists
  <2> QED
    BY <1>2, <1>3, <2>1, <2>2
<1>6. CASE CreateContainer(p)
  <2>1. c.op = "create_vm" /\ c.pc = "create" /\ CreateStep(p, {}, FALSE)
    BY <1>6 DEF CreateContainer, Creates, CreateStep, At
  <2>2. c.nets = asked[c.vm]
    BY <1>1, <2>1 DEF CallBook, NetsFollow
  <2>3. {} \in SUBSET Disks /\ FALSE \in BOOLEAN /\ {} \subseteq held[c.vm]
    OBVIOUS
  <2>4. (\A d \in {} : volume[d] # "none") /\ c.op # "detach_disk"
    BY <2>1
  <2> QED
    BY <2>1, <2>2, <2>3, <2>4, CreateBook
<1>7. CASE ConnectNetwork(p)
  BY <1>7, ConnectBook DEF ConnectNetwork
<1>8. CASE StartContainer(p)
  <2>1. /\ c.pc = "start" /\ c.op = "create_vm" /\ c.vm \in VMs
        /\ Idle \/ (Exists(c.vm) /\ Starts(c.vm))
        /\ Moves1(p) /\ call'[p].binds = c.binds /\ call'[p].pc \in {"update", "abandon"}
    BY <1>1, <1>8, StartContainerDoes DEF Goes, Takes
  <2>2. CallBook(call[p])'
    BY <1>1, <2>1, Others
    DEF Moves1, Idle, Starts, Alters, CallBook, KnowsCids, Stands, NetsFollow,
        DisksHeld, VolumesKept
  <2>3. Exists(c.vm) /\ Starts(c.vm) => \A v \in VMs : v = c.vm => VMBook(v)'
    BY <1>1, <2>1, Others DEF Starts, Alters, CallBook, NetsFollow, VMBook, Exists, Running
  <2> QED
    BY <1>3, <1>4, <2>1, <2>2, <2>3 DEF Starts, Alters
<1>9. CASE WriteAgentEnv(p)
  <2>1. /\ c.pc = "update" /\ c.op = "create_vm" /\ c.vm \in VMs
        /\ Idle \/ (Running(c.vm) /\ \E E, L : Gets(c.vm, E, L))
        /\ Moves1(p) /\ call'[p].binds \in {{}, c.binds} /\ call'[p].pc \in {"ok", "abandon"}
    BY <1>1, <1>9, WriteAgentEnvDoes DEF Goes, Takes, Ends, Spoils
  <2>2. UNCHANGED volume => CallBook(call[p])'
    BY <1>1, <2>1, Others
    DEF Moves1, CallBook, KnowsCids, Stands, NetsFollow, DisksHeld, VolumesKept
  <2>3. \A E, L : Gets(c.vm, E, L) /\ Running(c.vm) => \A v \in VMs : v = c.vm => VMBook(v)'
    BY <1>1, <2>1, Others DEF Gets, Alters, VMBook, Exists, Running
  <2> QED
    BY <1>3, <1>4, <2>1, <2>2, <2>3 DEF Gets, Alters, Idle
<1>10. CASE Abandon(p)
  <2>1. /\ c.op = "create_vm" /\ c.vm \in VMs /\ Ends(p, "err") /\ Moves1(p)
        /\ Idle \/ Goner(c.vm)
    BY <1>1, <1>10, AbandonDoes DEF Ends
  <2>2. Goner(c.vm) => \A v \in VMs : v = c.vm => VMBook(v)'
    <3>1. NoContainer.st = "none" /\ NoContainer.binds = {}
      BY DEF NoContainer
    <3>2. cid[c.vm] = "drawn"
      BY <1>1, <2>1 DEF CallBook, KnowsCids
    <3> QED
      BY <1>1, <2>1, <3>1, <3>2, Others DEF Goner, VMBook, Exists, Running
  <2> QED
    BY <1>2, <1>4, <2>1, <2>2, EndsBook DEF Goner
<1> QED
  BY <1>5, <1>6, <1>7, <1>8, <1>9, <1>10 DEF FactoryStep

\* Those of the disks.
LEMMA DiskStepBook ==
  ASSUME EnvInv, Books, NEW p \in Procs, DiskStep(p)
  PROVE  Books'
<1> DEFINE c == call[p]
<1>1. /\ CallBook(c) /\ TypeInv /\ \A d \in Disks : DiskBook(d)
  BY BookFacts
<1>2. CASE Locate(p)
  <2>1. /\ Idle /\ c.op = "create_disk" /\ (Ends(p, "err") \/ Goes(p, "volCreate"))
    BY <1>1, <1>2, LocateDoes
  <2>2. ~Ends(p, "err") => Moves1(p) /\ CallBook(call[p])'
    BY <1>1, <2>1, Others
    DEF Goes, Takes, Moves1, CallBook, KnowsCids, Stands, NetsFollow, DisksHeld, VolumesKept,
        Reads, Remakes, Builds, Restores, RestartOps, Idle
  <2> QED
    BY <2>1, <2>2, EndsBook, IdleBook DEF Ends
<1>3. CASE HasDisk(p)
  <2>1. /\ Idle /\ c.op = "has_disk" /\ Moves1(p)
        /\ call'[p].pc \in {"yes", "no", "err"} /\ call'[p].binds = {}
    BY <1>1, <1>3, HasDiskDoes DEF Ends
  <2>2. CallBook(call[p])'
    BY <1>1, <2>1, Others
    DEF Moves1, CallBook, KnowsCids, Stands, NetsFollow, DisksHeld, VolumesKept,
        Reads, Remakes, Builds, Restores, RestartOps
  <2> QED
    BY <2>1, <2>2, IdleBook
<1>4. CASE VolumeCreate(p) \/ VolumeRemove(p)
  <2> DEFINE s == IF c.op = "create_disk" THEN "made" ELSE "none"
  <2>1. /\ c.op \in {"create_disk", "delete_disk"} /\ c.disk \in Disks
        /\ \/ Volume(c.disk, s) /\ (Ends(p, "ok") \/ Ends(p, "err"))
           \/ Idle /\ Ends(p, "err")
    BY <1>1, <1>4, VolumeCreateDoes, VolumeRemoveDoes
  <2>2. Moves1(p)
    BY <2>1 DEF Ends
  <2>3. volume \in [Disks -> {"none", "made", "blank"}]
    BY <1>1 DEF TypeInv, TypeOK, EngineTypeOK
  <2>4. CASE Volume(c.disk, s)
    <3>1. volume'[c.disk] = s /\ (\A d \in Disks : d # c.disk => volume'[d] = volume[d])
          /\ UNCHANGED <<ctr, scratch>>
      BY <2>1, <2>3, <2>4 DEF Volume
    <3>2. Local(p)
      BY <2>1, <2>2, <3>1 DEF Local, Touches
    <3>3. cid[c.disk] # "deleted"
      BY <1>1, <2>1 DEF CallBook, KnowsCids
    <3>4. \A d \in Disks : d = c.disk => DiskBook(d)'
      BY <2>1, <2>2, <3>1, <3>3, Others DEF DiskBook
    <3>5. \A v \in VMs : VMBook(v)'
      <4> SUFFICES ASSUME NEW v \in VMs PROVE VMBook(v)'
        OBVIOUS
      <4>1. VMBook(v) /\ held[v] \subseteq Disks
        BY BookFacts
      <4>2. \A d \in ctr[v].binds : volume'[d] # "none"
        BY <3>2, <4>1, Lives DEF VMBook
      <4> QED
        BY <2>2, <3>1, <4>1, <4>2, Others DEF VMBook, Exists, Running
    <3>6. CallBook(call[p])'
      BY <1>1, <2>1, <2>2, <3>1, Others
      DEF Ends, CallBook, KnowsCids, Stands, NetsFollow, DisksHeld, VolumesKept,
          Reads, Remakes, Builds, Restores, RestartOps
    <3> QED
      BY <3>2, <3>4, <3>5, <3>6, BookFrame
  <2>5. CASE Idle
    BY <2>1, <2>4, <2>5, EndsBook, IdleBook DEF Ends
  <2> QED
    BY <2>1, <2>4, <2>5
<1> QED
  BY <1>2, <1>3, <1>4 DEF DiskStep

-----------------------------------------------------------------------------
(* The Director's actions, and the world's.                                *)

\* The call that begins.
Begun(p, op, pc, v, d) ==
  /\ call[p].pc = "idle" /\ \A q \in Procs : q # p => call'[q] = call[q]
  /\ call'[p].op = op /\ call'[p].pc = pc /\ call'[p].vm = v /\ call'[p].disk = d
  /\ call'[p].binds = {} /\ call'[p].got = {} /\ ~call'[p].failed
  /\ call'[p].had = (IF v = None THEN {} ELSE Present(v))
  /\ call'[p].sure => Foretold /\ Able(op, v, d)

LEMMA BeginDoes ==
  ASSUME TypeInv, NEW p \in Procs, NEW op, NEW pc, NEW v, NEW d, Begin(p, op, pc, v, d)
  PROVE  Begun(p, op, pc, v, d)
<1>1. PICK s \in BOOLEAN :
        /\ s => Foretold /\ Able(op, v, d)
        /\ call' = [call EXCEPT ![p] =
                      [NoCall EXCEPT !.op = op, !.pc = pc, !.vm = v, !.disk = d,
                                     !.had = IF v = None THEN {} ELSE Present(v), !.sure = s]]
  BY DEF Begin
<1> DEFINE H == IF v = None THEN {} ELSE Present(v)
           c == [NoCall EXCEPT !.op = op, !.pc = pc, !.vm = v, !.disk = d, !.had = H, !.sure = s]
<1>2. /\ c.op = op /\ c.pc = pc /\ c.vm = v /\ c.disk = d
      /\ c.binds = {} /\ c.got = {} /\ ~c.failed /\ c.had = H /\ c.sure = s
  BY DEF NoCall
<1>3. call' = [call EXCEPT ![p] = c] /\ call \in [Procs -> Calls]
  BY <1>1 DEF TypeInv, TypeOK, DirectorTypeOK
<1> HIDE DEF c
<1>4. call'[p] = c /\ \A q \in Procs : q # p => call'[q] = call[q]
  BY <1>3
<1> QED
  BY <1>1, <1>2, <1>4 DEF Begun, Begin, At

\* A CID is drawn, a disk is given to a VM, the networks of a VM are settled.
LEMMA BeginFrame ==
  ASSUME EnvInv, Books, NEW p \in Procs, NEW op, NEW pc, NEW v, NEW d,
         Begun(p, op, pc, v, d), UNCHANGED engine,
         v \in VMs => cid[v] = "fresh" \/ ~Busy(v),
         d \in Disks => cid[d] = "fresh" \/ ~Busy(d),
         \A x \in VMs \cup Disks : \/ cid'[x] = cid[x]
                                   \/ cid[x] = "fresh" /\ cid'[x] = "drawn",
         \A w \in VMs : \/ held'[w] = held[w]
                        \/ /\ w = v /\ cid[w] = "known" /\ d \in Disks
                           /\ held'[w] = held[w] \cup {d}
                           /\ \A u \in VMs \ {w} : d \notin held[u] /\ held'[u] = held[u],
         \A w \in VMs : asked'[w] = asked[w] \/ cid[w] = "fresh",
         CallBook(call[p])'
  PROVE  Books'
<1>1. Idle
  BY DEF engine, Idle
<1>2. \A q \in Procs : q # p => call'[q] = call[q]
  BY DEF Begun
<1>3. ASSUME NEW q \in Procs
      PROVE  /\ call[q].vm \in VMs => cid[call[q].vm] # "fresh"
             /\ call[q].disk \in Disks => cid[call[q].disk] # "fresh"
             /\ call[q].disk \in Disks => call[q].disk # d
  BY <1>3 DEF Books, CallBook, KnowsCids, Busy
<1>4. OneCallPerDisk'
  BY <1>2, <1>3 DEF Books, OneCallPerDisk, Begun
<1>5. HeldOnce'
  <2> SUFFICES ASSUME NEW w \in VMs, NEW u \in VMs, w # u PROVE held'[w] \cap held'[u] = {}
    BY DEF HeldOnce
  <2>1. held[w] \cap held[u] = {}
    BY DEF Books, HeldOnce
  <2> QED
    BY <2>1
<1>6. ASSUME NEW q \in Procs, q # p PROVE CallBook(call[q])'
  <2> DEFINE c == call[q]
  <2>1. CallBook(c) /\ Shape(c.op, c.pc, c.vm, c.disk) /\ call'[q] = c
    BY <1>2, <1>6, Basics DEF Books, EnvInv
  <2>2. KnowsCids(call[q])'
    BY <1>3, <2>1 DEF CallBook, KnowsCids
  <2>3. Stands(call[q])'
    BY <1>1, <2>1 DEF CallBook, Stands, Idle, Exists
  <2>4. NetsFollow(call[q])'
    BY <1>1, <1>3, <2>1 DEF CallBook, NetsFollow, Idle, Shape, RestartOps, VmOps, Reads
  <2>5. DisksHeld(call[q])'
    BY <1>1, <1>3, <2>1 DEF CallBook, DisksHeld, Idle, Shape, RestartOps, VmOps, DiskOps
  <2>6. VolumesKept(call[q])'
    BY <1>1, <2>1 DEF CallBook, VolumesKept, Idle
  <2> QED
    BY <2>2, <2>3, <2>4, <2>5, <2>6 DEF CallBook
<1>7. ASSUME NEW w \in VMs PROVE VMBook(w)'
  <2>1. VMBook(w) /\ (cid[w] = "fresh" => ~Running(w)) /\ held[w] \subseteq held'[w]
    BY DEF Books, EnvInv, FreshUnused, Running, NoContainer
  <2>2. cid'[w] = cid[w] \/ (cid[w] = "fresh" /\ cid'[w] = "drawn")
    OBVIOUS
  <2>3. held'[w] = held[w] \/ cid[w] = "known"
    OBVIOUS
  <2> QED
    BY <1>1, <2>1, <2>2, <2>3 DEF VMBook, Idle, Exists, Running
<1>8. \A x \in Disks : DiskBook(x)'
  BY <1>1 DEF Books, DiskBook, Idle
<1> QED
  BY <1>4, <1>5, <1>6, <1>7, <1>8 DEF Books

\* What a disciplined Director sees to when it begins a call, and writes.
Opens(p, op, pc, v, d) ==
  /\ Begun(p, op, pc, v, d) /\ UNCHANGED <<engine, doubt>>
  /\ op \in VmOps \cup {"has_vm"} => v \in VMs
  /\ op \in RestartOps \cup DiskOps \cup {"has_disk"} => d \in Disks
  /\ op \in {"delete_disk", "has_disk"} => v = None
  /\ v \in VMs => IF op = "create_vm" THEN cid[v] = "fresh"
                  ELSE ~Busy(v) /\ (cid[v] = "known" \/ (op = "has_vm" /\ cid[v] = "deleted"))
  /\ d \in Disks => IF op = "create_disk" THEN cid[d] = "fresh"
                    ELSE ~Busy(d) /\ (cid[d] = "known" \/ (op = "has_disk" /\ cid[d] = "deleted"))
  /\ op = "attach_disk" => /\ \A w \in VMs \ {v} : d \notin held[w]
                           /\ d \in held[v] => v \in doubt
  /\ op = "detach_disk" => d \in held[v]
  /\ op = "delete_disk" => \A w \in VMs : d \notin held[w]
  /\ \A x \in VMs \cup Disks :
       cid'[x] = IF (op = "create_vm" /\ x = v) \/ (op = "create_disk" /\ x = d)
                 THEN "drawn" ELSE cid[x]
  /\ op = "attach_disk" => held'[v] = held[v] \cup {d}
  /\ \A w \in VMs : held'[w] = held[w] \/ (op = "attach_disk" /\ w = v)
  /\ \A w \in VMs : asked'[w] = asked[w] \/ (op = "create_vm" /\ w = v)
  /\ \/ op = "create_vm" /\ pc = "prepare"
     \/ op = "delete_vm" /\ pc = "delExists"
     \/ op \in RestartOps /\ pc = "exists"
     \/ op = "create_disk" /\ pc = (IF v = None THEN "volCreate" ELSE "locate")
     \/ op = "delete_disk" /\ pc = "volRemove"
     \/ op = "has_vm" /\ pc = "hasVM"
     \/ op = "has_disk" /\ pc = "hasDisk"

LEMMA BeginsDo ==
  ASSUME Disciplined, TypeInv, NEW p \in Procs, Begins(p)
  PROVE  \E op, pc : \E v \in VMs \cup {None}, d \in Disks \cup {None} : Opens(p, op, pc, v, d)
<1>1. /\ None \notin VMs /\ None \notin Disks /\ VMs \cap Disks = {}
      /\ cid \in [VMs \cup Disks -> {"fresh", "drawn", "known", "deleted"}]
      /\ held \in [VMs -> SUBSET Disks] /\ asked \in [VMs -> SUBSET Nets]
  BY CidAssumption DEF TypeInv, TypeOK, DirectorTypeOK
<1> USE DEF Opens, RestartOps, VmOps, DiskOps
<1>2. CASE BeginCreateVM(p)
  <2>1. PICK v \in VMs, N \in SUBSET Nets :
          /\ cid[v] = "fresh" /\ Begin(p, "create_vm", "prepare", v, None)
          /\ cid' = [cid EXCEPT ![v] = "drawn"] /\ asked' = [asked EXCEPT ![v] = N]
          /\ UNCHANGED <<engine, held, doubt>>
    BY <1>2 DEF BeginCreateVM
  <2>2. Begun(p, "create_vm", "prepare", v, None)
    BY <2>1, BeginDoes
  <2>3. Opens(p, "create_vm", "prepare", v, None)
    BY <1>1, <2>1, <2>2
  <2> QED
    BY <2>3
<1>3. CASE BeginDeleteVM(p)
  <2>1. PICK v \in VMs : /\ cid[v] = "known" /\ ~Busy(v)
                         /\ Begin(p, "delete_vm", "delExists", v, None)
                         /\ UNCHANGED <<engine, director>>
    BY <1>3 DEF BeginDeleteVM, Target
  <2>2. Begun(p, "delete_vm", "delExists", v, None)
    BY <2>1, BeginDoes
  <2>3. Opens(p, "delete_vm", "delExists", v, None)
    BY <1>1, <2>1, <2>2 DEF director
  <2> QED
    BY <2>3
<1>4. CASE BeginAttachDisk(p)
  <2>1. PICK v \in VMs, d \in Disks :
          /\ cid[v] = "known" /\ ~Busy(v) /\ cid[d] = "known" /\ ~Busy(d)
          /\ \A w \in VMs \ {v} : d \notin held[w]
          /\ d \in held[v] => v \in doubt
          /\ Begin(p, "attach_disk", "exists", v, d)
          /\ held' = [held EXCEPT ![v] = @ \cup {d}]
          /\ UNCHANGED <<engine, cid, doubt, asked>>
    BY <1>4 DEF BeginAttachDisk, Target
  <2>2. Begun(p, "attach_disk", "exists", v, d)
    BY <2>1, BeginDoes
  <2>3. held'[v] = held[v] \cup {d} /\ \A w \in VMs : held'[w] = held[w] \/ w = v
    BY <1>1, <2>1
  <2>4. UNCHANGED <<engine, doubt, cid, asked>> /\ v # None /\ d # None
    BY <1>1, <2>1
  <2>5. Opens(p, "attach_disk", "exists", v, d)
    BY <2>1, <2>2, <2>3, <2>4
  <2> QED
    BY <2>5
<1>5. CASE BeginDetachDisk(p)
  <2>1. PICK v \in VMs, d \in Disks :
          /\ cid[v] = "known" /\ ~Busy(v) /\ cid[d] = "known" /\ ~Busy(d) /\ d \in held[v]
          /\ Begin(p, "detach_disk", "exists", v, d)
          /\ UNCHANGED <<engine, director>>
    BY <1>5 DEF BeginDetachDisk, Target
  <2>2. Begun(p, "detach_disk", "exists", v, d)
    BY <2>1, BeginDoes
  <2>3. Opens(p, "detach_disk", "exists", v, d)
    BY <1>1, <2>1, <2>2 DEF director
  <2> QED
    BY <2>3
<1>6. CASE BeginCreateDisk(p)
  <2>1. PICK d \in Disks, v \in VMs \cup {None} :
          /\ cid[d] = "fresh" /\ (v # None => cid[v] = "known" /\ ~Busy(v))
          /\ Begin(p, "create_disk", IF v = None THEN "volCreate" ELSE "locate", v, d)
          /\ cid' = [cid EXCEPT ![d] = "drawn"] /\ UNCHANGED <<engine, held, doubt, asked>>
    BY <1>6 DEF BeginCreateDisk, Target
  <2>2. Begun(p, "create_disk", IF v = None THEN "volCreate" ELSE "locate", v, d)
    BY <2>1, BeginDoes
  <2>3. Opens(p, "create_disk", IF v = None THEN "volCreate" ELSE "locate", v, d)
    BY <1>1, <2>1, <2>2
  <2> QED
    BY <2>3
<1>7. CASE BeginDeleteDisk(p)
  <2>1. PICK d \in Disks : /\ cid[d] = "known" /\ ~Busy(d) /\ \A v \in VMs : d \notin held[v]
                           /\ Begin(p, "delete_disk", "volRemove", None, d)
                           /\ UNCHANGED <<engine, director>>
    BY <1>7 DEF BeginDeleteDisk, Target
  <2>2. Begun(p, "delete_disk", "volRemove", None, d)
    BY <2>1, BeginDoes
  <2>3. Opens(p, "delete_disk", "volRemove", None, d)
    BY <1>1, <2>1, <2>2 DEF director
  <2> QED
    BY <2>3
<1>8. CASE BeginHasVM(p)
  <2>1. PICK v \in VMs : /\ cid[v] \in {"known", "deleted"} /\ ~Busy(v)
                         /\ Begin(p, "has_vm", "hasVM", v, None) /\ UNCHANGED <<engine, director>>
    BY <1>8 DEF BeginHasVM, Asked
  <2>2. Begun(p, "has_vm", "hasVM", v, None)
    BY <2>1, BeginDoes
  <2>3. Opens(p, "has_vm", "hasVM", v, None)
    BY <1>1, <2>1, <2>2 DEF director
  <2> QED
    BY <2>3
<1>9. CASE BeginHasDisk(p)
  <2>1. PICK d \in Disks : /\ cid[d] \in {"known", "deleted"} /\ ~Busy(d)
                           /\ Begin(p, "has_disk", "hasDisk", None, d)
                           /\ UNCHANGED <<engine, director>>
    BY <1>9 DEF BeginHasDisk, Asked
  <2>2. Begun(p, "has_disk", "hasDisk", None, d)
    BY <2>1, BeginDoes
  <2>3. Opens(p, "has_disk", "hasDisk", None, d)
    BY <1>1, <2>1, <2>2 DEF director
  <2> QED
    BY <2>3
<1> QED
  BY <1>2, <1>3, <1>4, <1>5, <1>6, <1>7, <1>8, <1>9 DEF Begins

LEMMA BeginsBook ==
  ASSUME Disciplined, EnvInv, Books, NEW p \in Procs, Begins(p)
  PROVE  Books'
<1>1. TypeInv /\ None \notin VMs /\ None \notin Disks
  BY CidAssumption DEF EnvInv
<1>2. PICK op, pc : \E v \in VMs \cup {None}, d \in Disks \cup {None} : Opens(p, op, pc, v, d)
  BY <1>1, BeginsDo
<1>3. PICK v \in VMs \cup {None}, d \in Disks \cup {None} : Opens(p, op, pc, v, d)
  BY <1>2
<1>4. op = "create_vm" => ~Exists(v)
  BY <1>3 DEF Opens, VmOps, EnvInv, FreshUnused, Exists, NoContainer
<1>5. /\ call'[p].op = op /\ call'[p].pc = pc /\ call'[p].vm = v /\ call'[p].disk = d
      /\ call'[p].binds = {} /\ Idle
  BY <1>3 DEF Opens, Begun, engine, Idle
<1>6. KnowsCids(call[p])'
  BY <1>1, <1>3, <1>5 DEF Opens, KnowsCids, RestartOps, VmOps, DiskOps
<1>7. Stands(call[p])' /\ NetsFollow(call[p])' /\ VolumesKept(call[p])'
  BY <1>3, <1>4, <1>5
  DEF Opens, Stands, NetsFollow, VolumesKept, Reads, Remakes, RestartOps, Exists, Idle
<1>8. DisksHeld(call[p])'
  BY <1>1, <1>3, <1>5 DEF Opens, DisksHeld, Builds, Restores, RestartOps, VmOps, DiskOps
<1>9. CallBook(call[p])'
  BY <1>6, <1>7, <1>8 DEF CallBook
<1>10. \A w \in VMs : \/ held'[w] = held[w]
                      \/ /\ w = v /\ cid[w] = "known" /\ d \in Disks
                         /\ held'[w] = held[w] \cup {d}
                         /\ \A u \in VMs \ {w} : d \notin held[u] /\ held'[u] = held[u]
  BY <1>3 DEF Opens, RestartOps, VmOps
<1>11. /\ \A x \in VMs \cup Disks : cid'[x] = cid[x] \/ (cid[x] = "fresh" /\ cid'[x] = "drawn")
       /\ \A w \in VMs : asked'[w] = asked[w] \/ cid[w] = "fresh"
       /\ v \in VMs => cid[v] = "fresh" \/ ~Busy(v)
       /\ d \in Disks => cid[d] = "fresh" \/ ~Busy(d)
  BY <1>3 DEF Opens, VmOps, DiskOps
<1>12. Begun(p, op, pc, v, d) /\ UNCHANGED engine
  BY <1>3 DEF Opens
<1> QED
  BY <1>9, <1>10, <1>11, <1>12, BeginFrame

\* What the Director writes in its books when a call ends.
LEMMA EndDoes ==
  ASSUME TypeInv, NEW p \in Procs, NEW ok \in BOOLEAN, End(p, ok), call[p].op # "none"
  PROVE  LET c == call[p] IN
         /\ call'[p] = NoCall /\ \A q \in Procs : q # p => call'[q] = call[q]
         /\ Idle /\ asked' = asked
         /\ \A v \in VMs :
              /\ cid'[v] = CASE ok /\ v = c.vm /\ c.op = "create_vm" -> "known"
                             [] ok /\ v = c.vm /\ c.op = "delete_vm" -> "deleted"
                             [] OTHER -> cid[v]
              /\ held'[v] = CASE ok /\ v = c.vm /\ c.op = "detach_disk" -> held[v] \ {c.disk}
                              [] ok /\ v = c.vm /\ c.op = "delete_vm" -> {}
                              [] OTHER -> held[v]
         /\ \A d \in Disks :
              cid'[d] = CASE ok /\ d = c.disk /\ c.op = "create_disk" -> "known"
                          [] ok /\ d = c.disk /\ c.op = "delete_disk" -> "deleted"
                          [] OTHER -> cid[d]
<1> DEFINE c == call[p]
<1>1. c \in Calls /\ Shape(c.op, c.pc, c.vm, c.disk)
  BY Basics
<1>2. /\ call \in [Procs -> Calls] /\ held \in [VMs -> SUBSET Disks] /\ VMs \cap Disks = {}
      /\ cid \in [VMs \cup Disks -> {"fresh", "drawn", "known", "deleted"}]
  BY CidAssumption DEF TypeInv, TypeOK, DirectorTypeOK
<1>3. /\ c.op \in VmOps => c.vm \in VMs /\ c.vm \notin Disks
      /\ c.op \in DiskOps => c.disk \in Disks /\ c.disk \notin VMs
  BY <1>1, <1>2 DEF Shape
<1>4. Idle /\ asked' = asked /\ call' = [call EXCEPT ![p] = NoCall]
      /\ cid' = CidAfter(c, ok) /\ held' = HeldAfter(c, ok)
  BY DEF End, engine, Idle
<1> HIDE DEF c
<1>5. ASSUME NEW x \in VMs \cup Disks
      PROVE  cid'[x] = CASE ok /\ x = c.vm /\ c.op = "create_vm" -> "known"
                         [] ok /\ x = c.vm /\ c.op = "delete_vm" -> "deleted"
                         [] ok /\ x = c.disk /\ c.op = "create_disk" -> "known"
                         [] ok /\ x = c.disk /\ c.op = "delete_disk" -> "deleted"
                         [] OTHER -> cid[x]
  BY <1>2, <1>3, <1>4 DEF CidAfter, VmOps, DiskOps
<1>6. ASSUME NEW v \in VMs
      PROVE  held'[v] = CASE ok /\ v = c.vm /\ c.op = "detach_disk" -> held[v] \ {c.disk}
                          [] ok /\ v = c.vm /\ c.op = "delete_vm" -> {}
                          [] OTHER -> held[v]
  BY <1>2, <1>3, <1>4 DEF HeldAfter, VmOps
<1>7. call'[p] = NoCall /\ \A q \in Procs : q # p => call'[q] = call[q]
  BY <1>2, <1>4
<1>8. \A v \in VMs : cid'[v] = CASE ok /\ v = c.vm /\ c.op = "create_vm" -> "known"
                                 [] ok /\ v = c.vm /\ c.op = "delete_vm" -> "deleted"
                                 [] OTHER -> cid[v]
  BY <1>3, <1>5 DEF DiskOps
<1>9. \A d \in Disks : cid'[d] = CASE ok /\ d = c.disk /\ c.op = "create_disk" -> "known"
                                   [] ok /\ d = c.disk /\ c.op = "delete_disk" -> "deleted"
                                   [] OTHER -> cid[d]
  BY <1>3, <1>5 DEF VmOps
<1> QED
  BY <1>4, <1>6, <1>7, <1>8, <1>9 DEF c

LEMMA EndBook ==
  ASSUME EnvInv, Books, NEW p \in Procs, NEW ok \in BOOLEAN, End(p, ok), ~At(p, "idle"),
         ok => call[p].pc \in {"ok", "yes", "no"}
  PROVE  Books'
<1> DEFINE c == call[p]
<1>1. /\ TypeInv /\ CallBook(c) /\ Shape(c.op, c.pc, c.vm, c.disk) /\ c.op # "none"
      /\ ok => c.pc = "ok" \/ c.op \in QueryOps
  BY BookFacts, Basics DEF Shape, At
<1>2. /\ call'[p] = NoCall /\ (\A q \in Procs : q # p => call'[q] = call[q])
      /\ Idle /\ asked' = asked
  BY <1>1, EndDoes
<1>3. \A v \in VMs :
        /\ cid'[v] = CASE ok /\ v = c.vm /\ c.op = "create_vm" -> "known"
                       [] ok /\ v = c.vm /\ c.op = "delete_vm" -> "deleted"
                       [] OTHER -> cid[v]
        /\ held'[v] = CASE ok /\ v = c.vm /\ c.op = "detach_disk" -> held[v] \ {c.disk}
                        [] ok /\ v = c.vm /\ c.op = "delete_vm" -> {}
                        [] OTHER -> held[v]
  BY <1>1, EndDoes
<1>4. \A d \in Disks : cid'[d] = CASE ok /\ d = c.disk /\ c.op = "create_disk" -> "known"
                                   [] ok /\ d = c.disk /\ c.op = "delete_disk" -> "deleted"
                                   [] OTHER -> cid[d]
  BY <1>1, EndDoes
<1>5. /\ NoCall.vm \notin VMs /\ NoCall.disk \notin Disks /\ NoCall.op = "none"
      /\ NoCall.pc = "idle" /\ NoCall.binds = {}
  BY CidAssumption DEF NoCall
<1>6. OneCallPerDisk' /\ HeldOnce'
  <2>1. OneCallPerDisk'
    BY <1>2, <1>5 DEF Books, OneCallPerDisk
  <2>2. \A v \in VMs : held'[v] \subseteq held[v]
    BY <1>3
  <2> QED
    BY <2>1, <2>2 DEF Books, HeldOnce
<1>7. CallBook(call[p])'
  BY <1>2, <1>5
  DEF CallBook, KnowsCids, Stands, NetsFollow, DisksHeld, VolumesKept, Reads, Remakes, Builds,
      Restores, RestartOps
<1>8. ASSUME NEW q \in Procs, q # p PROVE CallBook(call[q])'
  <2> DEFINE e == call[q]
  <2>1. CallBook(e) /\ Shape(e.op, e.pc, e.vm, e.disk) /\ call'[q] = e
    BY <1>2, <1>8, Basics DEF Books, EnvInv
  <2>2. e.vm \in VMs => cid'[e.vm] = cid[e.vm] /\ held'[e.vm] = held[e.vm]
    BY <1>3, <1>8 DEF EnvInv, OneCallPerVM
  <2>3. e.disk \in Disks => cid'[e.disk] = cid[e.disk]
    BY <1>4, <1>8 DEF Books, OneCallPerDisk
  <2>4. KnowsCids(call[q])'
    BY <2>1, <2>2, <2>3 DEF CallBook, KnowsCids
  <2>5. Stands(call[q])' /\ NetsFollow(call[q])' /\ VolumesKept(call[q])'
    BY <1>2, <2>1 DEF CallBook, Stands, NetsFollow, VolumesKept, Idle, Exists
  <2>6. \A v \in VMs : held'[v] \subseteq held[v]
    BY <1>3
  <2>7. DisksHeld(call[q])'
    BY <1>2, <2>1, <2>2, <2>6 DEF CallBook, DisksHeld, Idle, Shape, RestartOps, VmOps
  <2> QED
    BY <2>4, <2>5, <2>7 DEF CallBook
<1>9. ASSUME NEW v \in VMs PROVE VMBook(v)'
  <2>1. VMBook(v) /\ ctr' = ctr /\ volume' = volume /\ scratch' = scratch
    BY <1>2 DEF Books, Idle
  <2>2. CASE ok /\ v = c.vm /\ c.op = "create_vm"
    <3>1. cid'[v] = "known" /\ held'[v] = held[v]
      BY <1>3, <2>2
    <3> QED
      BY <1>2, <2>1, <3>1 DEF VMBook, Exists, Running
  <2>3. CASE ok /\ v = c.vm /\ c.op = "delete_vm"
    <3>1. cid'[v] = "deleted" /\ held'[v] = {} /\ ~Exists(v) /\ v \notin scratch
      BY <1>1, <1>3, <2>3 DEF CallBook, Stands, QueryOps
    <3>2. ctr[v].binds = {}
      BY <2>1, <3>1 DEF VMBook, NoContainer
    <3> QED
      BY <1>2, <2>1, <3>1, <3>2 DEF VMBook, Exists, Running
  <2>4. CASE ok /\ v = c.vm /\ c.op = "detach_disk"
    <3>1. cid'[v] = cid[v] /\ held'[v] = held[v] \ {c.disk} /\ c.disk \notin ctr[v].binds
      BY <1>1, <1>3, <2>4 DEF CallBook, DisksHeld, QueryOps
    <3> QED
      BY <1>2, <2>1, <3>1 DEF VMBook, Exists, Running
  <2>5. CASE cid'[v] = cid[v] /\ held'[v] = held[v]
    BY <1>2, <2>1, <2>5 DEF VMBook, Exists, Running
  <2> QED
    BY <1>3, <2>2, <2>3, <2>4, <2>5
<1>10. ASSUME NEW d \in Disks PROVE DiskBook(d)'
  BY <1>1, <1>2, <1>4 DEF Books, DiskBook, Idle, CallBook, VolumesKept, QueryOps
<1> QED
  BY <1>6, <1>7, <1>8, <1>9, <1>10 DEF Books

\* What the agents, the tars that are late and the machine do to a VM.
LEMMA WorldDoes ==
  ASSUME TypeInv, NEW v \in VMs, AgentWrites(v) \/ LateWrite(v) \/ Dies(v)
  PROVE  /\ Running(v) /\ UNCHANGED <<call, cid, held, asked>>
         /\ \/ /\ ctr[v].env.ok /\ doubt' = doubt
               /\ \E f \in Files : Stores(v, f, "vcap")
            \/ /\ doubt' = doubt
               /\ \E S \in ctr[v].late : Gets(v, EnvOf(S), {})
            \/ /\ Stops(v) /\ Faulty /\ doubt' = doubt \cup {v}
               /\ \A p \in Procs : call[p].vm = v => ~call[p].sure
<1>1. EngineTypeOK /\ ctr[v] \in Containers
  BY DEF TypeInv, TypeOK, EngineTypeOK
<1>2. CASE AgentWrites(v)
  BY <1>1, <1>2, Effects DEF AgentWrites, director
<1>3. CASE LateWrite(v)
  <2>1. PICK S \in ctr[v].late : SetCtr(v, [ctr[v] EXCEPT !.env = EnvOf(S), !.late = {}])
    BY <1>3 DEF LateWrite
  <2> DEFINE e == [ctr[v] EXCEPT !.env = EnvOf(S), !.late = {}]
  <2>2. /\ e.st = ctr[v].st /\ e.binds = ctr[v].binds /\ e.nets = ctr[v].nets
        /\ e.env = EnvOf(S) /\ e.late = {} /\ e.files = ctr[v].files
    BY <1>1 DEF Containers
  <2>3. ctr'[v] = e /\ Touches(v) /\ UNCHANGED <<scratch, volume>>
    BY <1>1, <2>1, EffectsTouch DEF SetCtr
  <2> HIDE DEF e
  <2>4. Gets(v, EnvOf(S), {})
    BY <2>2, <2>3 DEF Gets, Alters
  <2> QED
    BY <1>3, <2>4 DEF LateWrite, director
<1>4. CASE Dies(v)
  BY <1>1, <1>4, Effects DEF Dies, VM
<1> QED
  BY <1>2, <1>3, <1>4

LEMMA WorldBook ==
  ASSUME EnvInv, Books, NEW v \in VMs, AgentWrites(v) \/ LateWrite(v) \/ Dies(v)
  PROVE  Books'
<1>1. /\ Running(v) /\ UNCHANGED <<call, cid, held, asked, scratch, volume>> /\ Touches(v)
      /\ ctr'[v].st \in {"running", "exited"}
      /\ ctr'[v].binds = ctr[v].binds /\ ctr'[v].nets = ctr[v].nets
  BY WorldDoes DEF EnvInv, Stores, Gets, Stops, Alters, Running
<1>2. \A w \in VMs : /\ Exists(w)' <=> Exists(w)
                     /\ ctr'[w].binds = ctr[w].binds /\ ctr'[w].nets = ctr[w].nets
                     /\ w # v => ctr'[w] = ctr[w]
  BY <1>1 DEF Touches, Exists, Running
<1>3. ASSUME NEW q \in Procs PROVE CallBook(call[q])'
  <2>1. CallBook(call[q]) /\ Shape(call[q].op, call[q].pc, call[q].vm, call[q].disk)
    BY Basics DEF Books, EnvInv
  <2> DEFINE c == call[q]
  <2>2. c.vm \in VMs => /\ ctr'[c.vm].binds = ctr[c.vm].binds
                        /\ ctr'[c.vm].nets = ctr[c.vm].nets
    BY <1>2
  <2>3. KnowsCids(call[q])' /\ VolumesKept(call[q])'
    BY <1>1, <2>1 DEF CallBook, KnowsCids, VolumesKept
  <2>4. Stands(call[q])'
    BY <1>1, <1>2, <2>1 DEF CallBook, Stands, Exists, Shape, RestartOps, VmOps
  <2>5. NetsFollow(call[q])' /\ DisksHeld(call[q])'
    BY <1>1, <2>1, <2>2 DEF CallBook, NetsFollow, DisksHeld, Shape, RestartOps, VmOps, Reads
  <2> QED
    BY <2>3, <2>4, <2>5 DEF CallBook
<1>4. ASSUME NEW w \in VMs PROVE VMBook(w)'
  BY <1>1, <1>2 DEF Books, VMBook, Exists, Running
<1>5. OneCallPerDisk' /\ HeldOnce' /\ \A d \in Disks : DiskBook(d)'
  BY <1>1 DEF Books, OneCallPerDisk, HeldOnce, DiskBook
<1> QED
  BY <1>3, <1>4, <1>5 DEF Books

LEMMA InitBook == Init => Books
<1> SUFFICES ASSUME Init PROVE Books
  OBVIOUS
<1>1. /\ ctr = [v \in VMs |-> NoContainer] /\ call = [p \in Procs |-> NoCall]
      /\ volume = [d \in Disks |-> "none"] /\ held = [v \in VMs |-> {}]
      /\ cid = [x \in VMs \cup Disks |-> "fresh"]
  BY DEF Init, EngineInit, DirectorInit
<1>2. /\ NoCall.vm \notin VMs /\ NoCall.disk \notin Disks /\ NoCall.op = "none"
      /\ NoCall.pc = "idle" /\ NoCall.binds = {}
      /\ NoContainer.st = "none" /\ NoContainer.binds = {}
  BY CidAssumption DEF NoCall, NoContainer
<1>3. CallBook(NoCall)
  BY <1>2
  DEF CallBook, KnowsCids, Stands, NetsFollow, DisksHeld, VolumesKept, Reads, Remakes, Builds,
      Restores, RestartOps
<1>4. \A v \in VMs : VMBook(v)
  BY <1>1, <1>2 DEF VMBook, Exists, Running
<1>5. \A d \in Disks : DiskBook(d)
  BY <1>1 DEF DiskBook
<1>6. OneCallPerDisk /\ HeldOnce
  BY <1>1, <1>2 DEF OneCallPerDisk, HeldOnce
<1> QED
  BY <1>1, <1>3, <1>4, <1>5, <1>6 DEF Books

LEMMA NextBook ==
  ASSUME Disciplined
  PROVE  EnvInv /\ Books /\ [Next]_vars => Books'
<1> SUFFICES ASSUME EnvInv, Books, [Next]_vars PROVE Books'
  OBVIOUS
<1>1. ASSUME NEW p \in Procs, Begins(p) PROVE Books'
  BY <1>1, BeginsBook
<1>2. ASSUME NEW p \in Procs, CallStep(p) PROVE Books'
  BY <1>2, ContainerBook, FactoryBook, DiskStepBook, EndBook DEF CallStep, Return, At
<1>3. ASSUME NEW p \in Procs, Crash(p) PROVE Books'
  BY <1>3, EndBook DEF Crash
<1>4. ASSUME NEW v \in VMs, AgentWrites(v) \/ LateWrite(v) \/ Dies(v) PROVE Books'
  BY <1>4, WorldBook
<1>5. CASE UNCHANGED vars
  <2>1. Idle /\ UNCHANGED <<call, cid, held, asked>>
    BY <1>5 DEF vars, engine, director, Idle
  <2>2. \A p \in Procs : CallBook(call[p])'
    BY <2>1 DEF Books, Idle, CallBook, KnowsCids, Stands, NetsFollow, DisksHeld, VolumesKept,
                Exists
  <2>3. \A v \in VMs : VMBook(v)'
    BY <2>1 DEF Books, Idle, VMBook, Exists, Running
  <2> QED
    BY <2>1, <2>2, <2>3 DEF Books, Idle, OneCallPerDisk, HeldOnce, DiskBook
<1> QED
  BY <1>1, <1>2, <1>3, <1>4, <1>5 DEF Next

LEMMA KeepsBooks == ASSUME Disciplined PROVE Spec => [](EnvInv /\ Books)
<1>1. Init => EnvInv /\ Books
  BY InitEnv, InitBook
<1>2. EnvInv /\ Books /\ [Next]_vars => (EnvInv /\ Books)'
  BY NextEnv, NextBook
<1> QED
  BY <1>1, <1>2, PTL DEF Spec

-----------------------------------------------------------------------------
(* Every step of a call is local.                                          *)

CallActs(p) == ContainerStep(p) \/ FactoryStep(p) \/ DiskStep(p)

\* The container that is made again finds its volumes.
LEMMA RecreateBinds ==
  ASSUME EnvInv, Books, NEW p \in Procs, call[p].pc = "create", call[p].op \in RestartOps
  PROVE  LET c == call[p]  B == UpdateBinds(c.op, c.binds, c.disk) IN
         /\ B \in SUBSET Disks /\ DuplicateBind(c.op, c.binds, c.disk) \in BOOLEAN
         /\ \A d \in B : volume[d] # "none"
<1> DEFINE c == call[p]
<1>1. CallBook(c) /\ c \in Calls /\ Shape(c.op, c.pc, c.vm, c.disk)
  BY BookFacts, Basics
<1>2. c.binds \subseteq Disks /\ c.disk \in Disks
  BY <1>1 DEF Calls, Shape
<1> QED
  BY <1>1, <1>2 DEF CallBook, VolumesKept, UpdateBinds, DuplicateBind

LEMMA CreateLocal ==
  ASSUME EnvInv, NEW p \in Procs, NEW B \in SUBSET Disks, NEW clash \in BOOLEAN,
         CreateStep(p, B, clash), \A d \in B : volume[d] # "none"
  PROVE  Local(p)
<1>1. Moves1(p) /\ (Idle \/ \E first : Arises(call[p].vm, B, first))
  BY CreateDoes, BookFacts DEF Takes, Ends, EnvInv
<1>2. volume \in [Disks -> {"none", "made", "blank"}]
  BY DEF EnvInv, TypeInv, TypeOK, EngineTypeOK
<1> QED
  BY <1>1, <1>2 DEF Local, Arises, Idle, Touches

\* A step changes nothing but its own call, its VM and its disk.
LEMMA StepIsLocal ==
  ASSUME EnvInv, Books, NEW p \in Procs, CallActs(p)
  PROVE  Local(p)
<1> DEFINE c == call[p]
<1>1. TypeInv
  BY DEF EnvInv
<1>2. Moves1(p) /\ Idle => Local(p)
  BY DEF Local, Idle, Touches
<1>3. Moves1(p) /\ Touches(c.vm) /\ UNCHANGED <<scratch, volume>> => Local(p)
  BY DEF Local
<1>4. CASE \/ CheckExists(p) \/ Fetch(p) \/ DownloadSettings(p) \/ DownloadRecords(p)
           \/ Inspect(p) \/ DeleteExists(p) \/ FindNode(p) \/ HasVM(p) \/ Prepare(p)
           \/ Locate(p) \/ HasDisk(p)
  <2>1. Idle
    BY <1>1, <1>4, CheckExistsDoes, FetchDoes, DownloadDoes, InspectDoes, DeleteExistsDoes,
       FindNodeDoes, HasVMDoes, PrepareDoes, LocateDoes, HasDiskDoes
    DEF DownloadSettings, DownloadRecords
  <2>2. Moves1(p)
    <3> USE DEF Goes, Takes, Ends
    <3>1. CASE CheckExists(p) \/ Fetch(p) \/ Inspect(p) \/ DeleteExists(p) \/ FindNode(p)
      BY <1>1, <3>1, CheckExistsDoes, FetchDoes, InspectDoes, DeleteExistsDoes, FindNodeDoes
    <3>2. CASE DownloadSettings(p) \/ DownloadRecords(p)
      BY <1>1, <3>2, DownloadDoes DEF DownloadSettings, DownloadRecords
    <3>3. CASE HasVM(p) \/ Prepare(p) \/ Locate(p) \/ HasDisk(p)
      BY <1>1, <3>3, HasVMDoes, PrepareDoes, LocateDoes, HasDiskDoes
    <3> QED
      BY <1>4, <3>1, <3>2, <3>3
  <2> QED
    BY <1>2, <2>1, <2>2
<1>5. CASE Kill(p) \/ Remove(p) \/ Abandon(p)
  <2>1. Moves1(p) /\ (Idle \/ Stops(c.vm) \/ Goner(c.vm))
    BY <1>1, <1>5, KillDoes, RemoveDoes, AbandonDoes DEF Goes, Takes, Ends
  <2> QED
    BY <1>2, <1>3, <2>1 DEF Stops, Alters, Goner
<1>6. CASE RemoveScratch(p)
  <2>1. Moves1(p) /\ UNCHANGED <<ctr, volume>> /\ scratch' \in {scratch, scratch \ {c.vm}}
    BY <1>1, <1>6, RemoveScratchDoes DEF Goes, Takes, Ends
  <2> QED
    BY <2>1 DEF Local, Touches
<1>7. CASE Recreate(p)
  <2>1. c.pc = "create" /\ c.op \in RestartOps
    BY <1>7 DEF Recreate, CreateStep, At, Restarts, RestartOps
  <2> QED
    BY <1>7, <2>1, RecreateBinds, CreateLocal DEF Recreate
<1>8. CASE CreateContainer(p)
  <2>1. {} \in SUBSET Disks /\ FALSE \in BOOLEAN /\ \A d \in {} : volume[d] # "none"
    OBVIOUS
  <2> QED
    BY <1>8, <2>1, CreateLocal DEF CreateContainer
<1>9. CASE Reconnect(p) \/ ConnectNetwork(p)
  <2>1. Moves1(p) /\ (Idle \/ \E n : Joins(c.vm, n))
    BY <1>1, <1>9, ConnectDoes DEF Reconnect, ConnectNetwork, Takes, Ends
  <2> QED
    BY <1>2, <1>3, <2>1 DEF Joins, Alters
<1>10. CASE Restart(p) \/ StartContainer(p)
  <2>1. Moves1(p) /\ (Idle \/ Starts(c.vm))
    BY <1>1, <1>10, RestartDoes, StartContainerDoes DEF Goes, Takes
  <2> QED
    BY <1>2, <1>3, <2>1 DEF Starts, Alters
<1>11. CASE UpdateEnv(p) \/ WriteAgentEnv(p)
  <2>1. Moves1(p) /\ (Idle \/ \E E, L : Gets(c.vm, E, L))
    BY <1>1, <1>11, UpdateDoes, UploadOrDoes, WriteAgentEnvDoes DEF Goes, Takes, Ends, Spoils
  <2> QED
    BY <1>2, <1>3, <2>1 DEF Gets, Alters
<1>12. CASE Upload(p) \/ Chgrp(p)
  <2>1. Moves1(p) /\ (Idle \/ \E f, g : Stores(c.vm, f, g))
    BY <1>1, <1>12, UploadDoes, UploadOrDoes, ChgrpDoes DEF Takes, Ends
  <2> QED
    BY <1>2, <1>3, <2>1 DEF Stores, Alters
<1>13. CASE VolumeCreate(p) \/ VolumeRemove(p)
  <2>1. /\ c.disk \in Disks /\ Moves1(p)
        /\ \/ Idle
           \/ Volume(c.disk, "made")
           \/ c.op = "delete_disk" /\ Volume(c.disk, "none")
    BY <1>1, <1>13, VolumeCreateDoes, VolumeRemoveDoes DEF Ends
  <2>2. volume \in [Disks -> {"none", "made", "blank"}]
    BY <1>1 DEF TypeInv, TypeOK, EngineTypeOK
  <2> QED
    BY <1>2, <2>1, <2>2 DEF Local, Volume, Touches
<1> QED
  BY <1>4, <1>5, <1>6, <1>7, <1>8, <1>9, <1>10, <1>11, <1>12, <1>13
  DEF CallActs, ContainerStep, FactoryStep, DiskStep

-----------------------------------------------------------------------------
(* The theorems about the books.                                           *)

\* findNodeWithDisk runs after the old container is gone and before the new one
\* is made.  Between the two nothing can delete the volumes the old container
\* had bound, so the bind of a volume that is not there, which the engine would
\* fill with an empty one, is never asked for.
THEOREM DisksAreReal == ASSUME Disciplined PROVE Spec => []NoBlankDisk
<1>1. Books => NoBlankDisk
  BY DEF Books, DiskBook, NoBlankDisk
<1> QED
  BY <1>1, KeepsBooks, PTL

\* Container.Delete goes on after the aufs error, with the container removed or not,
\* and restarts that failed leave containers and volumes: still, what the Director
\* was told is deleted has no container and no ephemeral volume, then or later.
THEOREM DeletedIsGone == ASSUME Disciplined PROVE Spec => []DeletedStaysGone
<1>1. Books => DeletedStaysGone
  BY DEF Books, VMBook, DeletedStaysGone
<1> QED
  BY <1>1, KeepsBooks, PTL

\* ContainerCreate takes one network and the others are connected one by one;
\* the next restart reads the networks from the container that this one made.
\* No order of them, no failure between them and no number of restarts leaves a
\* VM running on fewer networks than it was created for.
THEOREM NetworksSurvive == ASSUME Disciplined PROVE Spec => []OnAllNetworks
<1>1. Books => OnAllNetworks
  BY DEF Books, VMBook, OnAllNetworks
<1> QED
  BY <1>1, KeepsBooks, PTL

\* The engine lets two containers mount one volume.  That a disk is never in two
\* VMs rests on detach_disk and delete_vm: when they report success the disk is
\* out of the VM, and no call that failed can bring it back.
THEOREM DisksNotShared == ASSUME Disciplined PROVE Spec => []DiskInOneVM
<1>1. Books => DiskInOneVM
  BY DEF Books, VMBook, HeldOnce, DiskInOneVM
<1> QED
  BY <1>1, KeepsBooks, PTL
=============================================================================
