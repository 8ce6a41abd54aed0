---------------------------- MODULE CpiCloudProofs ----------------------------
(***************************************************************************)
(* The CPI implements Cloud, for every number of VMs, disks, networks and  *)
(* calls: each step of a call, of the Director or of the machine is a step *)
(* of Cloud on one VM, or none.                                            *)
(***************************************************************************)
EXTENDS CpiBookProofs

-----------------------------------------------------------------------------
(* CloudInv.                                                               *)

LEMMA CloudFrame ==
  ASSUME EnvInv, CloudInv, NEW p \in Procs, Local(p), Standing(call[p])', Unready(call[p])'
  PROVE  CloudInv'
<1>1. Moves1(p)
  BY DEF Local
<1>2. ASSUME NEW q \in Procs, q # p PROVE Standing(call[q])' /\ Unready(call[q])'
  <2> DEFINE c == call[q]
  <2>1. /\ Standing(c) /\ Unready(c) /\ call'[q] = c /\ Shape(c.op, c.pc, c.vm, c.disk)
    BY <1>1, <1>2, Others, Basics DEF CloudInv, EnvInv
  <2>2. c.vm \in VMs => ctr'[c.vm] = ctr[c.vm]
    BY <1>1, <1>2, Others DEF Local, Touches
  <2>3. c.op \in RestartOps \/ c.pc \in Builds => c.vm \in VMs
    BY <2>1 DEF Shape, RestartOps, VmOps, Builds
  <2>4. ChangeDisks(call[q].op, ctr[call[q].vm].binds, call[q].disk)'
          = ChangeDisks(c.op, ctr'[c.vm].binds, c.disk)
    BY <2>1 DEF ChangeDisks
  <2> QED
    BY <2>1, <2>2, <2>3, <2>4 DEF Standing, Unready, Running
<1> QED
  BY <1>2 DEF CloudInv

LEMMA StepCloudInv ==
  ASSUME EnvInv, Books, CloudInv, NEW p \in Procs, CallActs(p)
  PROVE  CloudInv'
<1> DEFINE c == call[p]
           N == call'[p].pc
           Olds == Reads \cup {"delExists", "kill", "remove", "scratch"}
           Stand1 == /\ c.op \in RestartOps /\ ~call'[p].failed /\ N \in Olds
                     /\ ctr'[c.vm].st = "running"
                     => /\ ctr'[c.vm].env.ok
                        /\ call'[p].env = ChangeDisks(c.op, ctr'[c.vm].binds, c.disk)
           Unready1 == N \in Builds => ~ctr'[c.vm].env.ok /\ ctr'[c.vm].late = {}
<1>1. /\ TypeInv /\ Local(p) /\ Standing(c) /\ Unready(c) /\ EnvFollows(c)
      /\ c.vm \in VMs => Lists(c.vm)
      /\ call'[p].op = c.op /\ call'[p].vm = c.vm /\ call'[p].disk = c.disk
  BY StepIsLocal, BookFacts, EnvFacts DEF CloudInv, Local, Moves1
<1>2. /\ c.op \in RestartOps /\ ~c.failed /\ c.pc \in Olds /\ ctr[c.vm].st = "running"
         => ctr[c.vm].env.ok /\ c.env = ChangeDisks(c.op, ctr[c.vm].binds, c.disk)
      /\ c.pc \in Builds => ~ctr[c.vm].env.ok /\ ctr[c.vm].late = {}
  BY <1>1 DEF Standing, Unready, Running
<1> SUFFICES Stand1 /\ Unready1
  <2>1. ChangeDisks(call[p].op, ctr[call[p].vm].binds, call[p].disk)'
          = ChangeDisks(c.op, ctr'[c.vm].binds, c.disk)
    BY <1>1 DEF ChangeDisks
  <2>2. Standing(call[p])' /\ Unready(call[p])'
    BY <1>1, <2>1 DEF Standing, Unready, Running
  <2> QED
    BY <1>1, <2>2, CloudFrame
<1> USE DEF Reads, Builds
<1>3. CASE N \notin Olds \cup Builds
  BY <1>3
<1>4. CASE CheckExists(p) \/ HasVM(p) \/ Prepare(p) \/ Abandon(p) \/ DiskStep(p) \/ FindNode(p)
  <2>1. N \notin Olds \cup Builds
    BY <1>1, <1>4, CheckExistsDoes, HasVMDoes, PrepareDoes, AbandonDoes, LocateDoes,
       VolumeCreateDoes, VolumeRemoveDoes, HasDiskDoes, FindNodeDoes
    DEF DiskStep, Goes, Takes, Ends
  <2> QED
    BY <1>3, <2>1
<1>5. CASE Fetch(p)
  <2>1. /\ c.vm \in VMs /\ Idle
        /\ \/ /\ N = "settings" /\ Up(c.vm)
              /\ call'[p].env = ChangeDisks(c.op, ctr[c.vm].env.disks, c.disk)
           \/ N = "err"
    BY <1>1, <1>5, FetchDoes DEF Takes, Ends
  <2>2. Up(c.vm) => ctr[c.vm].env.disks = ctr[c.vm].binds
    BY <1>1, <2>1 DEF Lists, Up
  <2> QED
    BY <2>1, <2>2 DEF Idle, Up
<1>6. CASE DownloadSettings(p) \/ DownloadRecords(p) \/ Inspect(p) \/ DeleteExists(p)
  <2>1. /\ c.pc \in {"settings", "records", "inspect", "delExists"} /\ Idle
        /\ \/ /\ N \in Olds /\ call'[p].env = c.env /\ call'[p].failed = c.failed
           \/ N = "err"
    <3>1. CASE DownloadSettings(p) \/ DownloadRecords(p)
      BY <1>1, <3>1, DownloadDoes DEF DownloadSettings, DownloadRecords, At, Goes, Takes
    <3>2. CASE Inspect(p) \/ DeleteExists(p)
      BY <1>1, <3>2, InspectDoes, DeleteExistsDoes DEF Goes, Takes, Ends
    <3> QED
      BY <1>6, <3>1, <3>2
  <2> QED
    BY <1>2, <2>1 DEF Idle
<1>7. CASE Kill(p) \/ Remove(p)
  <2>1. /\ c.pc \in {"kill", "remove"}
        /\ \/ /\ Idle \/ ctr'[c.vm].st \in {"exited", "none"}
              /\ N \in Olds /\ call'[p].env = c.env /\ call'[p].failed = c.failed
           \/ N = "err"
    BY <1>1, <1>7, KillDoes, RemoveDoes DEF Goes, Takes, Ends, Stops, Alters, Goner, NoContainer
  <2> QED
    BY <1>2, <2>1 DEF Idle
<1>8. CASE RemoveScratch(p)
  <2>1. N \in {"ok", "err", "findNode"}
    BY <1>1, <1>8, RemoveScratchDoes DEF Goes, Takes, Ends
  <2> QED
    BY <1>3, <2>1
<1>9. ASSUME NEW B, NEW clash \in BOOLEAN, CreateStep(p, B, clash) PROVE Stand1 /\ Unready1
  <2>1. \/ N = "err"
        \/ N \in {"connect", "start"} /\ \E first : Arises(c.vm, B, first)
    BY <1>1, <1>9, CreateDoes DEF Takes, Ends
  <2>2. \A first : Arises(c.vm, B, first) => ~ctr'[c.vm].env.ok /\ ctr'[c.vm].late = {}
    BY DEF Arises, NoContainer, NoEnv
  <2> QED
    BY <2>1, <2>2
<1>10. CASE Recreate(p) \/ CreateContainer(p)
  <2>1. CASE Recreate(p)
    BY <1>9, <2>1, RecreateBinds DEF Recreate, CreateStep, At, Restarts, RestartOps
  <2>2. CASE CreateContainer(p)
    <3>1. FALSE \in BOOLEAN
      OBVIOUS
    <3> QED
      BY <1>9, <2>2, <3>1 DEF CreateContainer
  <2> QED
    BY <1>10, <2>1, <2>2
<1>11. CASE Reconnect(p) \/ ConnectNetwork(p)
  <2>1. /\ c.pc = "connect"
        /\ \/ /\ N \in {"connect", "start"}
              /\ ctr'[c.vm].env = ctr[c.vm].env /\ ctr'[c.vm].late = ctr[c.vm].late
           \/ N = "err"
    BY <1>1, <1>11, ConnectDoes DEF Reconnect, ConnectNetwork, Takes, Ends, Joins, Alters
  <2> QED
    BY <1>2, <2>1
<1>12. CASE Restart(p) \/ StartContainer(p)
  <2>1. /\ c.pc = "start"
        /\ \/ /\ N = "update"
              /\ ctr'[c.vm].env = ctr[c.vm].env /\ ctr'[c.vm].late = ctr[c.vm].late
           \/ N = "delExists" /\ call'[p].failed
           \/ N = "abandon"
    BY <1>1, <1>12, RestartDoes, StartContainerDoes DEF Goes, Takes, Starts, Alters
  <2> QED
    BY <1>2, <2>1
<1>13. CASE UpdateEnv(p) \/ WriteAgentEnv(p) \/ Upload(p) \/ Chgrp(p)
  <2>1. N \in {"ok", "err", "upload", "chgrp", "abandon"}
    BY <1>1, <1>13, UpdateDoes, UploadOrDoes, WriteAgentEnvDoes, UploadDoes, ChgrpDoes
    DEF Goes, Takes, Ends
  <2> QED
    BY <1>3, <2>1
<1> QED
  BY <1>4, <1>5, <1>6, <1>7, <1>8, <1>10, <1>11, <1>12, <1>13
  DEF CallActs, ContainerStep, FactoryStep

LEMMA BeginsCloudInv ==
  ASSUME Disciplined, EnvInv, CloudInv, NEW p \in Procs, Begins(p)
  PROVE  CloudInv'
<1>1. TypeInv
  BY DEF EnvInv
<1>2. PICK op, pc : \E v \in VMs \cup {None}, d \in Disks \cup {None} : Opens(p, op, pc, v, d)
  BY <1>1, BeginsDo
<1>3. PICK v \in VMs \cup {None}, d \in Disks \cup {None} : Opens(p, op, pc, v, d)
  BY <1>2
<1>4. /\ call'[p].op = op /\ call'[p].pc = pc /\ Idle
      /\ pc \notin Reads \cup {"kill", "remove", "scratch"} \cup Builds
      /\ op \in RestartOps => pc # "delExists"
      /\ \A q \in Procs : q # p => call'[q] = call[q]
  BY <1>3 DEF Opens, Begun, engine, Idle, RestartOps, Reads, Builds
<1>5. Standing(call[p])' /\ Unready(call[p])'
  BY <1>4 DEF Standing, Unready
<1>6. ASSUME NEW q \in Procs, q # p PROVE Standing(call[q])' /\ Unready(call[q])'
  BY <1>4, <1>6 DEF CloudInv, Standing, Unready, Idle, Running, ChangeDisks
<1> QED
  BY <1>5, <1>6 DEF CloudInv

LEMMA EndCloudInv ==
  ASSUME EnvInv, CloudInv, NEW p \in Procs, NEW ok \in BOOLEAN, End(p, ok), ~At(p, "idle")
  PROVE  CloudInv'
<1>1. TypeInv /\ call[p].op # "none"
  BY Basics DEF EnvInv, Shape, At
<1>2. call'[p] = NoCall /\ (\A q \in Procs : q # p => call'[q] = call[q]) /\ Idle
  BY <1>1, EndDoes
<1>3. Standing(call[p])' /\ Unready(call[p])'
  BY <1>2 DEF NoCall, Standing, Unready, RestartOps, Builds
<1>4. ASSUME NEW q \in Procs, q # p PROVE Standing(call[q])' /\ Unready(call[q])'
  <2>1. Standing(call[q]) /\ Unready(call[q]) /\ call'[q] = call[q] /\ UNCHANGED ctr
    BY <1>2, <1>4 DEF CloudInv, Idle
  <2>2. Standing(call[q])'
    BY <2>1 DEF Standing, Running, ChangeDisks
  <2>3. Unready(call[q])'
    BY <2>1 DEF Unready
  <2> QED
    BY <2>2, <2>3
<1> QED
  BY <1>3, <1>4 DEF CloudInv

LEMMA WorldCloudInv ==
  ASSUME EnvInv, CloudInv, NEW v \in VMs, AgentWrites(v) \/ LateWrite(v) \/ Dies(v)
  PROVE  CloudInv'
<1>1. /\ UNCHANGED call /\ Touches(v) /\ ctr'[v].binds = ctr[v].binds
      /\ \/ /\ ctr[v].env.ok /\ ctr'[v].env = ctr[v].env /\ ctr'[v].late = ctr[v].late
            /\ ctr'[v].st = ctr[v].st
         \/ ctr[v].late # {} /\ ctr'[v].env.ok /\ ctr'[v].st = ctr[v].st
         \/ ctr'[v].st = "exited" /\ ctr'[v].env = ctr[v].env /\ ctr'[v].late = {}
  <2>1. CASE ctr[v].env.ok /\ \E f \in Files : Stores(v, f, "vcap")
    BY <2>1, WorldDoes DEF EnvInv, Stores, Alters
  <2>2. CASE \E S \in ctr[v].late : Gets(v, EnvOf(S), {})
    BY <2>2, WorldDoes DEF EnvInv, Gets, Alters, EnvOf
  <2>3. CASE Stops(v)
    BY <2>3, WorldDoes DEF EnvInv, Stops, Alters
  <2> QED
    BY <2>1, <2>2, <2>3, WorldDoes DEF EnvInv
<1>2. ASSUME NEW q \in Procs PROVE Standing(call[q])' /\ Unready(call[q])'
  <2> DEFINE c == call[q]
  <2>1. /\ Standing(c) /\ Unready(c) /\ call'[q] = c
        /\ c.op \in RestartOps \/ c.pc \in Builds => c.vm \in VMs
    BY <1>1, Basics DEF CloudInv, EnvInv, Shape, RestartOps, VmOps, Builds
  <2>2. ChangeDisks(call[q].op, ctr[call[q].vm].binds, call[q].disk)'
          = ChangeDisks(c.op, ctr'[c.vm].binds, c.disk)
    BY <2>1 DEF ChangeDisks
  <2>3. CASE c.vm = v
    BY <1>1, <2>1, <2>2, <2>3 DEF Standing, Unready, Running
  <2>4. CASE c.vm # v
    <3>1. c.vm \in VMs => ctr'[c.vm] = ctr[c.vm]
      BY <1>1, <2>4 DEF Touches
    <3> QED
      BY <2>1, <2>2, <3>1 DEF Standing, Unready, Running
  <2> QED
    BY <2>3, <2>4
<1> QED
  BY <1>2 DEF CloudInv

LEMMA InitCloudInv == Init => CloudInv
BY DEF Init, DirectorInit, NoCall, CloudInv, Standing, Unready, RestartOps, Builds

LEMMA NextCloudInv ==
  ASSUME Disciplined
  PROVE  EnvInv /\ Books /\ CloudInv /\ [Next]_vars => CloudInv'
<1> SUFFICES ASSUME EnvInv, Books, CloudInv, [Next]_vars PROVE CloudInv'
  OBVIOUS
<1>1. ASSUME NEW p \in Procs, Begins(p) PROVE CloudInv'
  BY <1>1, BeginsCloudInv
<1>2. ASSUME NEW p \in Procs, CallStep(p) PROVE CloudInv'
  BY <1>2, StepCloudInv, EndCloudInv DEF CallStep, CallActs, Return, At
<1>3. ASSUME NEW p \in Procs, Crash(p) PROVE CloudInv'
  BY <1>3, EndCloudInv DEF Crash
<1>4. ASSUME NEW v \in VMs, AgentWrites(v) \/ LateWrite(v) \/ Dies(v) PROVE CloudInv'
  BY <1>4, WorldCloudInv
<1>5. CASE UNCHANGED vars
  BY <1>5 DEF vars, engine, CloudInv, Standing, Unready, Running, ChangeDisks
<1> QED
  BY <1>1, <1>2, <1>3, <1>4, <1>5 DEF Next

-----------------------------------------------------------------------------
(* The mapping, VM by VM.  The call that builds a VM is the only one on    *)
(* it, so the CHOOSE of AbsDisks has nothing to choose.                    *)

\* What v is in Cloud, if h says whether a call holds an env for it, and E which.
Image(v, h, E) ==
  /\ AbsState[v] = IF Up(v) THEN "up"
                   ELSE IF Pending(v) \/ h THEN "building"
                   ELSE IF cid[v] = "fresh" THEN "absent" ELSE "down"
  /\ AbsDisks[v] = IF Up(v) \/ Pending(v) THEN ctr[v].binds ELSE IF h THEN E ELSE {}

Images ==
  \A v \in VMs : /\ \A p \in Procs : Builder(p, v) => Image(v, TRUE, call[p].env)
                 /\ (\A p \in Procs : ~Builder(p, v)) => Image(v, FALSE, {})

LEMMA ImagesNow == EnvInv => Images
<1> SUFFICES ASSUME EnvInv, NEW v \in VMs
             PROVE  /\ \A p \in Procs : Builder(p, v) => Image(v, TRUE, call[p].env)
                    /\ (\A p \in Procs : ~Builder(p, v)) => Image(v, FALSE, {})
  BY DEF Images
<1> DEFINE B == \E p \in Procs : Builder(p, v)
           E == call[CHOOSE p \in Procs : Builder(p, v)].env
<1>1. AbsState[v] = IF Up(v) THEN "up" ELSE IF Pending(v) \/ B THEN "building"
                    ELSE IF cid[v] = "fresh" THEN "absent" ELSE "down"
  BY DEF AbsState
<1>2. AbsDisks[v] = IF AbsState[v] = "up" \/ Pending(v) THEN ctr[v].binds
                    ELSE IF AbsState[v] = "building" THEN E ELSE {}
  BY DEF AbsDisks
<1>3. ASSUME NEW p \in Procs, Builder(p, v) PROVE E = call[p].env
  <2> DEFINE q == CHOOSE q \in Procs : Builder(q, v)
  <2>1. q \in Procs /\ Builder(q, v)
    BY <1>3
  <2>2. q = p
    BY <1>3, <2>1 DEF EnvInv, OneCallPerVM, Builder, VM
  <2> QED
    BY <2>2
<1> HIDE DEF E
<1>4. ASSUME NEW p \in Procs, Builder(p, v) PROVE Image(v, TRUE, call[p].env)
  BY <1>1, <1>2, <1>3, <1>4 DEF Image
<1>5. ASSUME \A p \in Procs : ~Builder(p, v) PROVE Image(v, FALSE, {})
  BY <1>1, <1>2, <1>5 DEF Image
<1> QED
  BY <1>4, <1>5

LEMMA ImagesNext == EnvInv' => Images'
BY ImagesNow, PTL

\* A step of Cloud on one VM, or none.
Moves2(s, D, s1, D1) ==
  \/ s1 = s /\ D1 = D
  \/ s = "absent" /\ s1 = "building" /\ D1 = {}
  \/ s = "up" /\ s1 = "building" /\ \E d \in Disks : D1 \in {D \cup {d}, D \ {d}}
  \/ s = "building" /\ s1 = "up" /\ D1 = D
  \/ s \in {"building", "up"} /\ s1 = "down" /\ D1 = {}

Advances(v) == Moves2(AbsState[v], AbsDisks[v], AbsState'[v], AbsDisks'[v])
Rests(v) == AbsState'[v] = AbsState[v] /\ AbsDisks'[v] = AbsDisks[v]

CloudStep == [Abstract!Next]_<<AbsState, AbsDisks>>

LEMMA OneAdvances ==
  ASSUME NEW v \in VMs, Advances(v), \A w \in VMs \ {v} : Rests(w)
  PROVE  CloudStep
<1> DEFINE S == AbsState
           D == AbsDisks
           S1 == AbsState'
           D1 == AbsDisks'
<1>1. /\ S = [w \in VMs |-> S[w]] /\ S1 = [w \in VMs |-> S1[w]]
      /\ D = [w \in VMs |-> D[w]] /\ D1 = [w \in VMs |-> D1[w]]
  BY DEF AbsState, AbsDisks
<1> HIDE DEF S, D, S1, D1
<1>2. /\ S1 = [S EXCEPT ![v] = S1[v]]
      /\ D1 = [D EXCEPT ![v] = D1[v]]
  BY <1>1 DEF Rests, S, D, S1, D1
<1>3. CASE Rests(v)
  <2>1. S1 = S /\ D1 = D
    BY <1>1, <1>3 DEF Rests, S, D, S1, D1
  <2> QED
    BY <2>1 DEF CloudStep, S, D, S1, D1
<1>4. CASE S[v] = "absent" /\ S1[v] = "building" /\ D1[v] = {}
  BY <1>2, <1>4 DEF CloudStep, Abstract!Next, Abstract!Create, Abstract!Set, S, D, S1, D1
<1>5. CASE S[v] = "up" /\ S1[v] = "building" /\ \E d \in Disks : D1[v] \in {D[v] \cup {d}, D[v] \ {d}}
  BY <1>2, <1>5 DEF CloudStep, Abstract!Next, Abstract!Rebuild, Abstract!Set, S, D, S1, D1
<1>6. CASE S[v] = "building" /\ S1[v] = "up" /\ D1[v] = D[v]
  BY <1>2, <1>6 DEF CloudStep, Abstract!Next, Abstract!Finish, Abstract!Set, S, D, S1, D1
<1>7. CASE S[v] \in {"building", "up"} /\ S1[v] = "down" /\ D1[v] = {}
  BY <1>2, <1>7 DEF CloudStep, Abstract!Next, Abstract!Lose, Abstract!Set, S, D, S1, D1
<1> QED
  BY <1>3, <1>4, <1>5, <1>6, <1>7 DEF Advances, Moves2, Rests, S, D, S1, D1

LEMMA AllRest == (\A v \in VMs : Rests(v)) => CloudStep
<1> SUFFICES ASSUME \A v \in VMs : Rests(v) PROVE CloudStep
  OBVIOUS
<1>1. AbsState' = [w \in VMs |-> AbsState'[w]] /\ AbsDisks' = [w \in VMs |-> AbsDisks'[w]]
  BY DEF AbsState, AbsDisks
<1>2. AbsState = [w \in VMs |-> AbsState[w]] /\ AbsDisks = [w \in VMs |-> AbsDisks[w]]
  BY DEF AbsState, AbsDisks
<1>3. AbsState' = AbsState /\ AbsDisks' = AbsDisks
  BY <1>1, <1>2 DEF Rests
<1> QED
  BY <1>3 DEF CloudStep

\* A VM that the step leaves alone.
LEMMA LeftAlone ==
  ASSUME EnvInv, EnvInv', NEW w \in VMs, cid'[w] = "fresh" <=> cid[w] = "fresh",
         ctr'[w].st = ctr[w].st, ctr'[w].env.ok = ctr[w].env.ok, ctr'[w].late = ctr[w].late,
         ctr'[w].binds = ctr[w].binds,
         \A q \in Procs : /\ Builder(q, w)' <=> Builder(q, w)
                          /\ Builder(q, w) => call'[q].env = call[q].env
  PROVE  Rests(w)
<1>1. Images /\ Images'
  BY ImagesNow, ImagesNext
<1>2. (Up(w)' <=> Up(w)) /\ (Pending(w)' <=> Pending(w))
  BY DEF Up, Running, Pending
<1>3. CASE \E q \in Procs : Builder(q, w)
  <2>1. PICK q \in Procs : Builder(q, w)
    BY <1>3
  <2>2. Image(w, TRUE, call[q].env) /\ Image(w, TRUE, call[q].env)'
    BY <1>1, <2>1 DEF Images
  <2> QED
    BY <1>2, <2>1, <2>2 DEF Image, Rests
<1>4. CASE \A q \in Procs : ~Builder(q, w)
  <2>1. Image(w, FALSE, {}) /\ Image(w, FALSE, {})'
    BY <1>1, <1>4 DEF Images
  <2> QED
    BY <1>2, <2>1 DEF Image, Rests
<1> QED
  BY <1>3, <1>4

-----------------------------------------------------------------------------
(* The steps of the calls.                                                 *)

\* The image of the VM a call is about, before and after a step of the call.
LEMMA CallImage ==
  ASSUME EnvInv, EnvInv', NEW p \in Procs, NEW v \in VMs, call[p].vm = v, Moves1(p)
  PROVE  /\ AbsState[v] = IF Up(v) THEN "up"
                          ELSE IF Pending(v) \/ HoldsEnv(p) THEN "building" ELSE "down"
         /\ AbsDisks[v] = IF Up(v) \/ Pending(v) THEN ctr[v].binds
                          ELSE IF HoldsEnv(p) THEN call[p].env ELSE {}
         /\ AbsState'[v] = IF Up(v)' THEN "up"
                           ELSE IF Pending(v)' \/ HoldsEnv(p)' THEN "building" ELSE "down"
         /\ AbsDisks'[v] = IF Up(v)' \/ Pending(v)' THEN ctr'[v].binds
                           ELSE IF HoldsEnv(p)' THEN call'[p].env ELSE {}
<1>1. Images /\ Images'
  BY ImagesNow, ImagesNext
<1>2. /\ cid[v] # "fresh" /\ cid' = cid /\ call'[p].vm = v
      /\ \A q \in Procs : q # p => call[q].vm # v /\ call'[q].vm # v
  BY Others DEF EnvInv, FreshUnused, Busy
<1>3. \A q \in Procs : q # p => ~Builder(q, v) /\ ~Builder(q, v)'
  BY <1>2 DEF Builder, VM
<1>4. (Builder(p, v) <=> HoldsEnv(p)) /\ (Builder(p, v)' <=> HoldsEnv(p)')
  BY <1>2 DEF Builder, VM
<1>5. IF HoldsEnv(p) THEN Image(v, TRUE, call[p].env) ELSE Image(v, FALSE, {})
  BY <1>1, <1>3, <1>4 DEF Images
<1>6. IF HoldsEnv(p)' THEN Image(v, TRUE, call[p].env)' ELSE Image(v, FALSE, {})'
  BY <1>1, <1>3, <1>4 DEF Images
<1>7. /\ AbsState[v] = IF Up(v) THEN "up"
                       ELSE IF Pending(v) \/ HoldsEnv(p) THEN "building" ELSE "down"
      /\ AbsDisks[v] = IF Up(v) \/ Pending(v) THEN ctr[v].binds
                       ELSE IF HoldsEnv(p) THEN call[p].env ELSE {}
  BY <1>2, <1>5 DEF Image
<1>8. /\ AbsState'[v] = IF Up(v)' THEN "up"
                        ELSE IF Pending(v)' \/ HoldsEnv(p)' THEN "building" ELSE "down"
      /\ AbsDisks'[v] = IF Up(v)' \/ Pending(v)' THEN ctr'[v].binds
                        ELSE IF HoldsEnv(p)' THEN call'[p].env ELSE {}
  BY <1>2, <1>6 DEF Image
<1> QED
  BY <1>7, <1>8

\* The step leaves the container as it is, or changes its files or networks.
Same(v) ==
  /\ ctr'[v].st = ctr[v].st /\ ctr'[v].env = ctr[v].env
  /\ ctr'[v].late = ctr[v].late /\ ctr'[v].binds = ctr[v].binds

LEMMA QuietStep ==
  ASSUME EnvInv, EnvInv', NEW p \in Procs, NEW v \in VMs, call[p].vm = v, Moves1(p), Same(v),
         HoldsEnv(p)' => Up(v) \/ (HoldsEnv(p) /\ call'[p].env = call[p].env)
  PROVE  Advances(v)
<1>1. (Up(v)' <=> Up(v)) /\ (Pending(v)' <=> Pending(v)) /\ ctr'[v].binds = ctr[v].binds
  BY DEF Same, Up, Running, Pending
<1> QED
  BY <1>1, CallImage DEF Advances, Moves2

\* The step stops the container, removes it or makes it.
LEMMA DownStep ==
  ASSUME EnvInv, EnvInv', NEW p \in Procs, NEW v \in VMs, call[p].vm = v, Moves1(p),
         ctr'[v].st # "running",
         HoldsEnv(p)' => HoldsEnv(p) /\ call'[p].env = call[p].env,
         HoldsEnv(p) /\ Running(v) =>
           /\ ctr[v].env.ok
           /\ \E d \in Disks : call[p].env \in {ctr[v].binds \cup {d}, ctr[v].binds \ {d}}
  PROVE  Advances(v)
<1>1. ~Up(v)' /\ ~Pending(v)'
  BY DEF Up, Running, Pending
<1>2. CASE Up(v)
  BY <1>1, <1>2, CallImage DEF Advances, Moves2, Up
<1>3. CASE ~Up(v) /\ Pending(v)
  <2>1. ~HoldsEnv(p)
    BY <1>3 DEF Pending, Up
  <2> QED
    BY <1>1, <1>3, <2>1, CallImage DEF Advances, Moves2
<1>4. CASE ~Up(v) /\ ~Pending(v)
  BY <1>1, <1>4, CallImage DEF Advances, Moves2
<1> QED
  BY <1>2, <1>3, <1>4

\* The step is one of those between the new container and its agent env.
LEMMA BuildStep ==
  ASSUME EnvInv, EnvInv', Books, CloudInv, NEW p \in Procs, NEW v \in VMs, call[p].vm = v,
         Moves1(p), call[p].pc \in Builds, ctr'[v].binds = ctr[v].binds,
         HoldsEnv(p)' => call'[p].env = call[p].env
  PROVE  Advances(v)
<1> DEFINE c == call[p]
<1>1. c.env = ctr[v].binds /\ ~c.failed /\ c.op \in RestartOps \cup {"create_vm"}
  BY BookFacts, Basics DEF EnvFollows, Shape, Builds
<1>2. HoldsEnv(p)
  BY <1>1 DEF HoldsEnv, Creates, Restarts, RestartOps, Builds
<1>3. ~Up(v) /\ ~Pending(v)
  BY DEF CloudInv, Unready, Up, Pending
<1> QED
  BY <1>1, <1>2, <1>3, CallImage DEF Advances, Moves2

\* What a call that holds an env knows of the container it is about to stop.
LEMMA OneDiskAway ==
  ASSUME EnvInv, Books, CloudInv, NEW p \in Procs, NEW v \in VMs, call[p].vm = v, HoldsEnv(p),
         Running(v), call[p].pc \notin Builds
  PROVE  /\ ctr[v].env.ok
         /\ \E d \in Disks : call[p].env \in {ctr[v].binds \cup {d}, ctr[v].binds \ {d}}
<1> DEFINE c == call[p]
<1>1. Standing(c) /\ EnvFollows(c) /\ CallBook(c) /\ Shape(c.op, c.pc, c.vm, c.disk) /\ Exists(v)
  BY BookFacts, Basics DEF CloudInv, Running, Exists
<1>2. c.pc \notin {"prepare", "findNode", "create"}
  BY <1>1 DEF CallBook, Stands
<1>3. /\ c.op \in RestartOps /\ ~c.failed
      /\ c.pc \in Reads \cup {"delExists", "kill", "remove", "scratch"}
  BY <1>2 DEF HoldsEnv, Creates, Restarts, RestartOps, Builds, Reads
<1>4. c.disk \in Disks /\ ctr[v].env.ok /\ c.env = ChangeDisks(c.op, ctr[v].binds, c.disk)
  BY <1>1, <1>3 DEF Standing, Shape
<1> QED
  BY <1>4 DEF ChangeDisks

\* HoldsEnv, by the fields of the call.
HoldsAt(op, pc, failed) ==
  \/ op = "create_vm" /\ pc \in {"prepare", "create", "connect", "start", "update"}
  \/ /\ op \in RestartOps /\ ~failed
     /\ pc \in {"settings", "records", "inspect", "delExists", "kill", "remove", "scratch",
                "findNode", "create", "connect", "start", "update"}

LEMMA StepAdvances ==
  ASSUME EnvInv, EnvInv', Books, CloudInv, NEW p \in Procs, NEW v \in VMs, call[p].vm = v,
         CallActs(p)
  PROVE  Advances(v)
<1> DEFINE c == call[p]
           N == call'[p].pc
           H == HoldsAt(c.op, c.pc, c.failed)
           H1 == HoldsAt(c.op, N, call'[p].failed)
           Keeps == H1 => H /\ call'[p].env = c.env
<1>1. TypeInv /\ Moves1(p) /\ call'[p].op = c.op
  BY StepIsLocal DEF EnvInv, Local, Moves1
<1>2. (HoldsEnv(p) <=> H) /\ (HoldsEnv(p)' <=> H1)
  BY <1>1 DEF HoldsEnv, HoldsAt, Creates, Restarts, RestartOps
<1>3. Same(v) /\ (H1 => Up(v) \/ (H /\ call'[p].env = c.env)) => Advances(v)
  BY <1>1, <1>2, QuietStep
<1>4. ctr'[v].st # "running" /\ Keeps /\ c.pc \notin Builds => Advances(v)
  BY <1>1, <1>2, DownStep, OneDiskAway
<1>5. c.pc \in Builds /\ ctr'[v].binds = ctr[v].binds /\ (H1 => call'[p].env = c.env) => Advances(v)
  BY <1>1, <1>2, BuildStep
<1>6. UNCHANGED ctr => Same(v)
  BY DEF Same
<1>7. N \in {"ok", "err", "yes", "no", "upload", "chgrp", "abandon"} => ~H1
  BY DEF HoldsAt
<1> USE DEF RestartOps
<1>8. CASE CheckExists(p) \/ FindNode(p) \/ HasVM(p) \/ Prepare(p) \/ DiskStep(p)
  <2>1. /\ UNCHANGED ctr
        /\ \/ N \in {"fetch", "volCreate", "ok", "err", "yes", "no"}
           \/ N = "create" /\ call'[p].env = c.env /\ call'[p].failed = c.failed
              /\ \/ c.pc = "findNode" /\ c.op \in RestartOps
                 \/ c.pc = "prepare" /\ c.op = "create_vm"
    BY <1>1, <1>8, CheckExistsDoes, FindNodeDoes, HasVMDoes, PrepareDoes, LocateDoes,
       VolumeCreateDoes, VolumeRemoveDoes, HasDiskDoes
    DEF DiskStep, Goes, Takes, Ends, Idle, Volume
  <2> QED
    BY <1>3, <1>6, <2>1 DEF HoldsAt
<1>9. CASE Fetch(p)
  <2>1. UNCHANGED ctr /\ (N = "err" \/ Up(v))
    BY <1>1, <1>9, FetchDoes DEF Takes, Ends, Idle
  <2> QED
    BY <1>3, <1>6, <1>7, <2>1
<1>10. CASE DownloadSettings(p) \/ DownloadRecords(p) \/ Inspect(p) \/ DeleteExists(p)
  <2>1. /\ c.pc \in {"settings", "records", "inspect", "delExists"} /\ UNCHANGED ctr
        /\ c.op \in RestartOps \cup {"delete_vm"}
        /\ N = "err" \/ (call'[p].env = c.env /\ call'[p].failed = c.failed)
    <3>1. CASE DownloadSettings(p) \/ DownloadRecords(p)
      BY <1>1, <3>1, DownloadDoes DEF DownloadSettings, DownloadRecords, At, Goes, Takes, Idle
    <3>2. CASE Inspect(p) \/ DeleteExists(p)
      BY <1>1, <3>2, InspectDoes, DeleteExistsDoes DEF Goes, Takes, Ends, Idle
    <3> QED
      BY <1>10, <3>1, <3>2
  <2> QED
    BY <1>3, <1>6, <1>7, <2>1 DEF HoldsAt
<1>11. CASE Kill(p) \/ Remove(p)
  <2>1. /\ c.pc \in {"kill", "remove"} /\ c.op \in RestartOps \cup {"delete_vm"}
        /\ UNCHANGED ctr \/ ctr'[v].st \in {"exited", "none"}
        /\ N = "err" \/ (call'[p].env = c.env /\ call'[p].failed = c.failed)
    BY <1>1, <1>11, KillDoes, RemoveDoes
    DEF Goes, Takes, Ends, Stops, Alters, Goner, NoContainer, Idle
  <2>2. Keeps /\ c.pc \notin Builds
    BY <1>7, <2>1 DEF HoldsAt, Builds
  <2> QED
    BY <1>3, <1>4, <1>6, <2>1, <2>2
<1>12. CASE RemoveScratch(p)
  <2>1. /\ c.pc = "scratch" /\ c.op \in RestartOps \cup {"delete_vm"} /\ UNCHANGED ctr
        /\ \/ N \in {"ok", "err"}
           \/ c.op \in RestartOps /\ call'[p].env = c.env /\ call'[p].failed = c.failed
    BY <1>1, <1>12, RemoveScratchDoes DEF Goes, Takes, Ends
  <2> QED
    BY <1>3, <1>6, <1>7, <2>1 DEF HoldsAt
<1>13. ASSUME NEW B, NEW clash \in BOOLEAN, CreateStep(p, B, clash) PROVE Advances(v)
  <2>1. /\ c.pc = "create" /\ c.op \in RestartOps \cup {"create_vm"}
        /\ UNCHANGED ctr \/ \E first : Arises(v, B, first)
        /\ N = "err" \/ (call'[p].env = c.env /\ call'[p].failed = c.failed)
    BY <1>1, <1>13, CreateDoes DEF Takes, Ends, Idle
  <2>2. \A first : Arises(v, B, first) => ctr'[v].st = "created"
    BY DEF Arises, NoContainer
  <2>3. Keeps /\ c.pc \notin Builds
    BY <1>7, <2>1 DEF HoldsAt, Builds
  <2> QED
    BY <1>3, <1>4, <1>6, <2>1, <2>2, <2>3
<1>14. CASE Recreate(p) \/ CreateContainer(p)
  <2>1. CASE Recreate(p)
    BY <1>13, <2>1, RecreateBinds DEF Recreate, CreateStep, At, Restarts
  <2>2. CASE CreateContainer(p)
    <3>1. FALSE \in BOOLEAN
      OBVIOUS
    <3> QED
      BY <1>13, <2>2, <3>1 DEF CreateContainer
  <2> QED
    BY <1>14, <2>1, <2>2
<1>15. CASE Reconnect(p) \/ ConnectNetwork(p) \/ Restart(p) \/ StartContainer(p)
  <2>1. /\ c.pc \in Builds /\ ctr'[v].binds = ctr[v].binds
        /\ N = "err" \/ call'[p].env = c.env
    <3>1. CASE Reconnect(p) \/ ConnectNetwork(p)
      BY <1>1, <3>1, ConnectDoes
      DEF Reconnect, ConnectNetwork, Takes, Ends, Joins, Alters, Idle, Builds
    <3>2. CASE Restart(p) \/ StartContainer(p)
      BY <1>1, <3>2, RestartDoes, StartContainerDoes DEF Goes, Takes, Starts, Alters, Idle, Builds
    <3> QED
      BY <1>15, <3>1, <3>2
  <2> QED
    BY <1>5, <1>7, <2>1
<1>16. CASE UpdateEnv(p) \/ WriteAgentEnv(p)
  <2>1. /\ c.pc \in Builds /\ ctr'[v].binds = ctr[v].binds
        /\ N \in {"ok", "err", "upload", "abandon"}
    <3>1. CASE UpdateEnv(p)
      BY <1>1, <3>1, UpdateDoes, UploadOrDoes DEF Takes, Ends, Gets, Spoils, Alters, Idle, Builds
    <3>2. CASE WriteAgentEnv(p)
      BY <1>1, <3>2, WriteAgentEnvDoes DEF Goes, Takes, Ends, Gets, Spoils, Alters, Idle, Builds
    <3> QED
      BY <1>16, <3>1, <3>2
  <2> QED
    BY <1>5, <1>7, <2>1
<1>17. CASE Upload(p) \/ Chgrp(p)
  <2>1. N \in {"ok", "err", "upload", "chgrp"} /\ Same(v)
    BY <1>1, <1>17, UploadDoes, UploadOrDoes, ChgrpDoes
    DEF Takes, Ends, Stores, Alters, Idle, Same
  <2> QED
    BY <1>3, <1>7, <2>1
<1>18. CASE Abandon(p)
  <2>1. N = "err" /\ c.pc = "abandon" /\ (UNCHANGED ctr \/ ctr'[v].st = "none")
    BY <1>1, <1>18, AbandonDoes DEF Ends, Goner, NoContainer, Idle
  <2> QED
    BY <1>3, <1>4, <1>6, <1>7, <2>1 DEF Builds
<1> QED
  BY <1>8, <1>9, <1>10, <1>11, <1>12, <1>14, <1>15, <1>16, <1>17, <1>18
  DEF CallActs, ContainerStep, FactoryStep

LEMMA CallCloud ==
  ASSUME EnvInv, EnvInv', Books, CloudInv, NEW p \in Procs, CallActs(p)
  PROVE  CloudStep
<1>1. Local(p) /\ Moves1(p)
  BY StepIsLocal DEF Local
<1>2. ASSUME NEW w \in VMs, w # call[p].vm PROVE Rests(w)
  <2>1. ctr'[w] = ctr[w] /\ cid' = cid
    BY <1>1, <1>2, Others DEF Local, Touches
  <2>2. ASSUME NEW q \in Procs
        PROVE  /\ Builder(q, w)' <=> Builder(q, w)
               /\ Builder(q, w) => call'[q].env = call[q].env
    <3>1. CASE q = p
      BY <1>1, <1>2, <3>1 DEF Builder, VM, Moves1
    <3>2. CASE q # p
      BY <1>1, <3>2, Others DEF Builder, VM, HoldsEnv, Creates, Restarts
    <3> QED
      BY <3>1, <3>2
  <2> QED
    BY <2>1, <2>2, LeftAlone
<1>3. CASE call[p].vm \in VMs
  <2>1. PICK v \in VMs : v = call[p].vm
    BY <1>3
  <2>2. Advances(v)
    BY <2>1, StepAdvances
  <2> QED
    BY <1>2, <2>1, <2>2, OneAdvances
<1>4. CASE call[p].vm \notin VMs
  BY <1>2, <1>4, AllRest
<1> QED
  BY <1>3, <1>4

-----------------------------------------------------------------------------
(* The steps of the Director and of the machine.                           *)

LEMMA BeginsCloud ==
  ASSUME Disciplined, EnvInv, EnvInv', NEW p \in Procs, Begins(p)
  PROVE  CloudStep
<1>1. TypeInv /\ None \notin VMs
  BY CidAssumption DEF EnvInv
<1>2. PICK op, pc : \E v \in VMs \cup {None}, d \in Disks \cup {None} : Opens(p, op, pc, v, d)
  BY <1>1, BeginsDo
<1>3. PICK v \in VMs \cup {None}, d \in Disks \cup {None} : Opens(p, op, pc, v, d)
  BY <1>2
<1>4. /\ call'[p].op = op /\ call'[p].pc = pc /\ call'[p].vm = v /\ Idle
      /\ \A q \in Procs : q # p => call'[q] = call[q]
      /\ call[p].pc = "idle"
      /\ \A w \in VMs : ~(op = "create_vm" /\ w = v) => cid'[w] = cid[w] \/ op = "create_disk"
  BY <1>3 DEF Opens, Begun, engine, Idle
<1>5. ~HoldsEnv(p) /\ (HoldsEnv(p)' => op = "create_vm")
  <2>1. ~HoldsEnv(p)
    BY <1>4 DEF HoldsEnv
  <2>2. op \in RestartOps => pc = "exists"
    BY <1>3 DEF Opens, RestartOps
  <2> QED
    BY <1>4, <2>1, <2>2 DEF HoldsEnv, Creates, Restarts, RestartOps
<1>6. \A w \in VMs : ~(op = "create_vm" /\ w = v) => cid'[w] = cid[w]
  BY <1>3, CidAssumption DEF Opens, DiskOps
<1>7. ASSUME NEW w \in VMs, ~(op = "create_vm" /\ w = v) PROVE Rests(w)
  <2>1. ctr'[w] = ctr[w] /\ cid'[w] = cid[w]
    BY <1>4, <1>6, <1>7 DEF Idle
  <2>2. ASSUME NEW q \in Procs
        PROVE  /\ Builder(q, w)' <=> Builder(q, w)
               /\ Builder(q, w) => call'[q].env = call[q].env
    <3>1. CASE q = p
      BY <1>4, <1>5, <1>7, <3>1 DEF Builder, VM
    <3>2. CASE q # p
      BY <1>4, <3>2 DEF Builder, VM, HoldsEnv, Creates, Restarts
    <3> QED
      BY <3>1, <3>2
  <2> QED
    BY <2>1, <2>2, LeftAlone
<1>8. CASE op = "create_vm"
  <2>1. v \in VMs /\ cid[v] = "fresh" /\ pc = "prepare"
    BY <1>3, <1>8 DEF Opens, VmOps, RestartOps
  <2>2. ctr[v] = NoContainer /\ ctr'[v] = NoContainer /\ \A q \in Procs : call[q].vm # v
    BY <1>4, <2>1 DEF EnvInv, FreshUnused, Busy, Idle
  <2>3. ~Up(v) /\ ~Up(v)' /\ ~Pending(v) /\ ~Pending(v)'
    BY <2>2 DEF NoContainer, Up, Running, Pending
  <2>4. AbsState[v] = "absent" /\ AbsDisks[v] = {}
    <3>1. Image(v, FALSE, {})
      BY <2>1, <2>2, ImagesNow DEF Images, Builder, VM
    <3> QED
      BY <2>1, <2>3, <3>1 DEF Image
  <2>5. call'[p].env = {}
    BY <1>4, <1>8, <2>1 DEF EnvInv, EnvInMemory, EnvFollows
  <2>6. AbsState'[v] = "building" /\ AbsDisks'[v] = {}
    <3>1. Builder(p, v)'
      BY <1>4, <1>8, <2>1 DEF Builder, VM, HoldsEnv, Creates
    <3>2. Image(v, TRUE, call[p].env)'
      BY <2>1, <3>1, ImagesNext DEF Images
    <3> QED
      BY <2>3, <2>5, <3>2 DEF Image
  <2>7. Advances(v)
    BY <2>4, <2>6 DEF Advances, Moves2
  <2> QED
    BY <1>7, <2>1, <2>7, OneAdvances
<1>9. CASE op # "create_vm"
  BY <1>7, <1>9, AllRest
<1> QED
  BY <1>8, <1>9

LEMMA EndCloud ==
  ASSUME EnvInv, EnvInv', NEW p \in Procs, NEW ok \in BOOLEAN, End(p, ok), ~At(p, "idle")
  PROVE  CloudStep
<1> DEFINE c == call[p]
<1>1. TypeInv /\ c.op # "none"
  BY Basics DEF EnvInv, Shape, At
<1>2. call'[p] = NoCall /\ (\A q \in Procs : q # p => call'[q] = call[q]) /\ Idle
  BY <1>1, EndDoes
<1>3. \A w \in VMs : cid'[w] = "fresh" <=> cid[w] = "fresh"
  <2> SUFFICES ASSUME NEW w \in VMs PROVE cid'[w] = "fresh" <=> cid[w] = "fresh"
    OBVIOUS
  <2>1. \/ cid'[w] = cid[w]
        \/ w = c.vm /\ cid'[w] \in {"known", "deleted"}
    <3>1. cid'[w] = CASE ok /\ w = c.vm /\ c.op = "create_vm" -> "known"
                      [] ok /\ w = c.vm /\ c.op = "delete_vm" -> "deleted"
                      [] OTHER -> cid[w]
      BY <1>1, EndDoes, ZenonT(40)
    <3> QED
      BY <3>1
  <2>2. w = c.vm => cid[w] # "fresh"
    BY DEF EnvInv, FreshUnused, Busy
  <2> QED
    BY <2>1, <2>2
<1>4. ~HoldsEnv(p)' /\ \A q \in Procs : q # p => (HoldsEnv(q)' <=> HoldsEnv(q))
  BY <1>2 DEF HoldsEnv, Creates, Restarts, NoCall
<1>5. ASSUME NEW w \in VMs, ~Builder(p, w) PROVE Rests(w)
  <2>1. ASSUME NEW q \in Procs
        PROVE  /\ Builder(q, w)' <=> Builder(q, w)
               /\ Builder(q, w) => call'[q].env = call[q].env
    BY <1>2, <1>4, <1>5 DEF Builder, VM
  <2>2. ctr'[w] = ctr[w]
    BY <1>2 DEF Idle
  <2> QED
    BY <1>3, <2>1, <2>2, LeftAlone
<1>6. CASE \E v \in VMs : Builder(p, v)
  <2>1. PICK v \in VMs : Builder(p, v)
    BY <1>6
  <2>2. \A w \in VMs \ {v} : Rests(w)
    BY <1>5, <2>1 DEF Builder
  <2>3. Image(v, TRUE, c.env)
    BY <2>1, ImagesNow DEF Images
  <2>4. ASSUME NEW q \in Procs PROVE ~Builder(q, v)'
    <3>1. CASE q = p
      BY <1>4, <3>1 DEF Builder
    <3>2. CASE q # p
      BY <1>2, <2>1, <3>2 DEF Builder, VM, EnvInv, OneCallPerVM
    <3> QED
      BY <3>1, <3>2
  <2>5. Image(v, FALSE, {})'
    BY <2>4, ImagesNext DEF Images
  <2>6. /\ Up(v)' <=> Up(v)
        /\ Pending(v)' <=> Pending(v)
        /\ ctr'[v].binds = ctr[v].binds
    BY <1>2 DEF Idle, Up, Running, Pending
  <2>7. cid'[v] # "fresh"
    BY <1>3, <2>1 DEF Builder, VM, EnvInv, FreshUnused, Busy
  <2>8. Advances(v)
    BY <2>3, <2>5, <2>6, <2>7 DEF Image, Advances, Moves2
  <2> QED
    BY <2>2, <2>8, OneAdvances
<1>7. CASE \A v \in VMs : ~Builder(p, v)
  BY <1>5, <1>7, AllRest
<1> QED
  BY <1>6, <1>7

LEMMA WorldCloud ==
  ASSUME EnvInv, EnvInv', Books, CloudInv, NEW v \in VMs,
         AgentWrites(v) \/ LateWrite(v) \/ Dies(v)
  PROVE  CloudStep
<1>1. /\ UNCHANGED <<call, cid>> /\ Touches(v) /\ ctr'[v].binds = ctr[v].binds /\ Running(v)
      /\ \/ Same(v)
         \/ /\ ctr[v].late # {} /\ ctr'[v].env.ok /\ ctr'[v].st = "running" /\ ctr'[v].late = {}
         \/ ctr'[v].st = "exited"
  <2>1. CASE \E f \in Files : Stores(v, f, "vcap")
    BY <2>1, WorldDoes DEF EnvInv, Stores, Alters, Same
  <2>2. CASE \E S \in ctr[v].late : Gets(v, EnvOf(S), {})
    BY <2>2, WorldDoes DEF EnvInv, Gets, Alters, EnvOf, Running
  <2>3. CASE Stops(v)
    BY <2>3, WorldDoes DEF EnvInv, Stops, Alters
  <2> QED
    BY <2>1, <2>2, <2>3, WorldDoes DEF EnvInv
<1>2. \A q \in Procs, w \in VMs : Builder(q, w)' <=> Builder(q, w)
  BY <1>1 DEF Builder, VM, HoldsEnv, Creates, Restarts
<1>3. ASSUME NEW w \in VMs, w # v \/ Same(v) PROVE Rests(w)
  <2>1. Same(w)
    BY <1>1, <1>3 DEF Touches, Same
  <2> QED
    BY <1>1, <1>2, <2>1, LeftAlone DEF Same
<1>4. CASE Same(v)
  BY <1>3, <1>4, AllRest
<1>5. CASE ~Same(v)
  <2>1. \/ \E q \in Procs : Builder(q, v) /\ Image(v, TRUE, call[q].env) /\ Image(v, TRUE, call[q].env)'
        \/ (\A q \in Procs : ~Builder(q, v)) /\ Image(v, FALSE, {}) /\ Image(v, FALSE, {})'
    <3>1. Images /\ Images'
      BY ImagesNow, ImagesNext
    <3>2. CASE \E q \in Procs : Builder(q, v)
      <4>1. PICK q \in Procs : Builder(q, v)
        BY <3>2
      <4>2. Image(v, TRUE, call[q].env) /\ Image(v, TRUE, call[q].env)'
        BY <1>2, <3>1, <4>1 DEF Images
      <4> QED
        BY <4>1, <4>2
    <3>3. CASE \A q \in Procs : ~Builder(q, v)
      BY <1>2, <3>1, <3>3 DEF Images
    <3> QED
      BY <3>2, <3>3
  <2>2. CASE ctr[v].late # {} /\ ctr'[v].env.ok /\ ctr'[v].st = "running"
    <3>1. Pending(v) /\ Up(v)'
      BY <1>1, <2>2 DEF Pending, Up, Running
    <3> QED
      BY <1>1, <1>3, <2>1, <3>1, OneAdvances DEF Image, Advances, Moves2
  <2>3. CASE ctr'[v].st = "exited"
    <3>1. ~Up(v)' /\ ~Pending(v)'
      BY <2>3 DEF Up, Pending, Running
    <3>2. ASSUME NEW q \in Procs, Builder(q, v) PROVE Advances(v)
      <4>1. Image(v, TRUE, call[q].env) /\ Image(v, TRUE, call[q].env)'
        BY <1>2, <3>2, ImagesNow, ImagesNext DEF Images
      <4>2. CASE call[q].pc \in Builds
        <5>1. ~Up(v) /\ ~Pending(v)
          BY <3>2, <4>2 DEF CloudInv, Unready, Builder, VM, Up, Pending
        <5> QED
          BY <1>1, <3>1, <4>1, <5>1 DEF Image, Advances, Moves2
      <4>3. CASE call[q].pc \notin Builds
        <5>1. /\ ctr[v].env.ok
              /\ \E d \in Disks : call[q].env \in {ctr[v].binds \cup {d}, ctr[v].binds \ {d}}
          BY <1>1, <3>2, <4>3, OneDiskAway DEF Builder, VM
        <5>2. Up(v)
          BY <1>1, <5>1 DEF Up
        <5> QED
          BY <1>1, <3>1, <4>1, <5>1, <5>2 DEF Image, Advances, Moves2
      <4> QED
        BY <4>2, <4>3
    <3>3. ASSUME \A q \in Procs : ~Builder(q, v) PROVE Advances(v)
      <4>1. Image(v, FALSE, {}) /\ Image(v, FALSE, {})' /\ cid[v] # "fresh"
        <5>1. cid[v] # "fresh"
          BY <1>1 DEF EnvInv, FreshUnused, Running, NoContainer
        <5> QED
          BY <2>1, <3>3, <5>1
      <4> QED
        BY <1>1, <3>1, <4>1 DEF Image, Advances, Moves2
    <3> QED
      BY <1>3, <3>2, <3>3, OneAdvances
  <2> QED
    BY <1>1, <1>5, <2>2, <2>3
<1> QED
  BY <1>4, <1>5

LEMMA InitCloud == Init => Abstract!Init
<1> SUFFICES ASSUME Init PROVE AbsState = [v \in VMs |-> "absent"] /\ AbsDisks = [v \in VMs |-> {}]
  BY DEF Abstract!Init
<1>1. /\ \A v \in VMs : ctr[v] = NoContainer /\ cid[v] = "fresh"
      /\ \A p \in Procs : call[p] = NoCall
  BY DEF Init, EngineInit, DirectorInit
<1>2. \A v \in VMs : /\ ~Up(v) /\ ~Pending(v)
                     /\ \A p \in Procs : ~Builder(p, v)
  BY <1>1 DEF Up, Running, Pending, Builder, HoldsEnv, NoContainer, NoCall
<1>3. \A v \in VMs : Image(v, FALSE, {})
  BY <1>2, ImagesNow, InitEnv DEF Images
<1>4. \A v \in VMs : AbsState[v] = "absent" /\ AbsDisks[v] = {}
  BY <1>1, <1>2, <1>3 DEF Image
<1>5. AbsState = [v \in VMs |-> AbsState[v]] /\ AbsDisks = [v \in VMs |-> AbsDisks[v]]
  BY DEF AbsState, AbsDisks
<1> HIDE DEF AbsState, AbsDisks
<1> QED
  BY <1>4, <1>5

LEMMA NextCloud ==
  ASSUME Disciplined
  PROVE  EnvInv /\ EnvInv' /\ Books /\ CloudInv /\ [Next]_vars => CloudStep
<1> SUFFICES ASSUME EnvInv, EnvInv', Books, CloudInv, [Next]_vars PROVE CloudStep
  OBVIOUS
<1>1. ASSUME NEW p \in Procs, Begins(p) PROVE CloudStep
  BY <1>1, BeginsCloud
<1>2. ASSUME NEW p \in Procs, CallStep(p) PROVE CloudStep
  BY <1>2, CallCloud, EndCloud DEF CallStep, CallActs, Return, At
<1>3. ASSUME NEW p \in Procs, Crash(p) PROVE CloudStep
  BY <1>3, EndCloud DEF Crash
<1>4. ASSUME NEW v \in VMs, AgentWrites(v) \/ LateWrite(v) \/ Dies(v) PROVE CloudStep
  BY <1>4, WorldCloud
<1>5. CASE UNCHANGED vars
  <2>1. ASSUME NEW w \in VMs PROVE Rests(w)
    <3>1. UNCHANGED <<ctr, call, cid>>
      BY <1>5 DEF vars, engine, director
    <3>2. \A q \in Procs : Builder(q, w)' <=> Builder(q, w)
      BY <3>1 DEF Builder, VM, HoldsEnv, Creates, Restarts
    <3> QED
      BY <3>1, <3>2, LeftAlone
  <2> QED
    BY <2>1, AllRest
<1> QED
  BY <1>1, <1>2, <1>3, <1>4, <1>5 DEF Next

\* The CPI does what Cloud promises.  The disks of a VM change one at a time and
\* through a rebuild only; a rebuild ends with the agent knowing exactly the
\* disks it was begun for, or with the VM down; a VM that is down, whatever the
\* failure that brought it there, stays so: no call that is still running, no
\* clean-up and no tar that is late raises it again.
THEOREM CpiIsCloud == ASSUME Disciplined PROVE Spec => ImplementsCloud
<1>1. Init => Abstract!Init
  BY InitCloud
<1>2. Init => CloudInv
  BY InitCloudInv
<1>3. EnvInv /\ Books /\ CloudInv /\ [Next]_vars => CloudInv'
  BY NextCloudInv
<1>4. EnvInv /\ EnvInv' /\ Books /\ CloudInv /\ [Next]_vars => [Abstract!Next]_Abstract!cloud
  BY NextCloud DEF CloudStep, Abstract!cloud
<1> QED
  BY <1>1, <1>2, <1>3, <1>4, KeepsBooks, PTL DEF Spec, ImplementsCloud, Abstract!Spec
=============================================================================
