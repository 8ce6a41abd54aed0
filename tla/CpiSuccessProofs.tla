---------------------------- MODULE CpiSuccessProofs ----------------------------
(***************************************************************************)
(* What a call that succeeds leaves behind, and when calls succeed: the    *)
(* theorems that rest on Success, Progress and FilesSafe, for every number *)
(* of VMs, disks, networks and calls.                                      *)
(***************************************************************************)
EXTENDS CpiBookProofs

-----------------------------------------------------------------------------
(* Success.                                                                *)

LEMMA SuccessFrame ==
  ASSUME EnvInv, Books, Success, NEW p \in Procs, Local(p),
         VMSound(call[p])', Answers(call[p])'
  PROVE  Success'
<1>1. Moves1(p)
  BY DEF Local
<1>2. \A x : Busy(x)' <=> Busy(x)
  BY <1>1, Others DEF Busy
<1>3. SuccessIsReal'
  <2> SUFFICES ASSUME NEW v \in VMs, cid[v] = "known", v \notin doubt, ~Busy(v)
               PROVE  Running(v)' /\ ctr'[v].env = EnvOf(held[v]) /\ ctr'[v].binds = held[v]
    BY <1>1, <1>2, Others DEF SuccessIsReal
  <2>1. ctr'[v] = ctr[v]
    BY DEF Local, Touches, Busy
  <2> QED
    BY <2>1 DEF Success, SuccessIsReal, Running
<1>4. DisksReal'
  <2> SUFFICES ASSUME NEW d \in Disks, cid[d] = "known", d \notin doubt, ~Busy(d)
               PROVE  volume'[d] # "none"
    BY <1>1, <1>2, Others DEF DisksReal
  <2> QED
    BY DEF Local, Busy, Success, DisksReal
<1>5. ASSUME NEW q \in Procs PROVE DiskSound(call[q])'
  <2> DEFINE c == call[q]
  <2>1. DiskSound(c) /\ call'[q].op = c.op /\ call'[q].disk = c.disk
    BY <1>1, Others DEF Success
  <2>2. c.disk \in Disks /\ c.op # "delete_disk" /\ volume[c.disk] # "none"
        => volume'[c.disk] # "none"
    BY DEF Local, Books, OneCallPerDisk
  <2> QED
    BY <1>1, <2>1, <2>2, Others DEF DiskSound
<1>6. ASSUME NEW q \in Procs, q # p PROVE VMSound(call[q])' /\ Answers(call[q])'
  <2> DEFINE c == call[q]
  <2>1. VMSound(c) /\ Answers(c) /\ call'[q] = c
    BY <1>1, <1>6, Others DEF Success
  <2>2. c.vm \in VMs => ctr'[c.vm] = ctr[c.vm]
    BY <1>1, <1>6, Others DEF Local, Touches
  <2>3. VMSound(call[q])'
    <3>1. Before(call[q])' = Before(c) /\ After(call[q])' = After(c)
      BY <1>1, <2>1, Others DEF Before, After
    <3> QED
      BY <1>1, <2>1, <2>2, <3>1, Others DEF VMSound, Whole, Up, Running
  <2>4. Answers(call[q])'
    BY <1>1, <2>1, Others DEF Answers
  <2> QED
    BY <2>3, <2>4
<1> QED
  BY <1>3, <1>4, <1>5, <1>6 DEF Success

\* What a step starts from.
LEMMA SuccessFacts ==
  ASSUME EnvInv, Books, Success, NEW p \in Procs
  PROVE  /\ VMSound(call[p]) /\ DiskSound(call[p]) /\ Answers(call[p]) /\ CallBook(call[p])
         /\ EnvFollows(call[p]) /\ TypeInv
         /\ \A v \in VMs : VMBook(v) /\ ctr[v] \in Containers
         /\ \A d \in Disks : DiskBook(d)
BY BookFacts DEF Success

\* The steps of a restart.
LEMMA RestartSound ==
  ASSUME EnvInv, Books, Success, NEW p \in Procs, CallActs(p), call[p].op \in RestartOps
  PROVE  VMSound(call[p])'
<1> DEFINE c == call[p]
           B == Before(c)
           A == After(c)
<1>1. /\ VMSound(c) /\ CallBook(c) /\ EnvFollows(c) /\ TypeInv
      /\ Shape(c.op, c.pc, c.vm, c.disk)
  BY SuccessFacts, Basics
<1>2. c.vm \in VMs /\ c.disk \in held[c.vm] /\ Moves1(p)
  BY <1>1, StepIsLocal DEF Shape, RestartOps, VmOps, CallBook, DisksHeld, Local
<1>3. /\ call'[p].op = c.op /\ call'[p].vm = c.vm /\ call'[p].disk = c.disk
      /\ UNCHANGED <<held, doubt, cid>>
  BY <1>2, Others
<1>4. Before(call[p])' = B /\ After(call[p])' = A
  BY <1>3 DEF Before, After
<1>5. UpdateBinds(c.op, B, c.disk) = A
  BY <1>2 DEF UpdateBinds, Before, After, RestartOps
<1> DEFINE Whole1(S) == ctr'[c.vm].st = "running" /\ ctr'[c.vm].env.ok /\ ctr'[c.vm].binds = S
           Sound1 == /\ call'[p].pc \in {"exists", "fetch"} => Whole1(B)
                     /\ call'[p].pc \in Reads => ctr'[c.vm].binds = B
                     /\ call'[p].pc \in Remakes /\ ~call'[p].failed => call'[p].binds = B
                     /\ call'[p].pc \in Builds => ctr'[c.vm].binds = A
                     /\ call'[p].pc \in Restores \cup {"ok"} => Whole1(A)
<1> SUFFICES ASSUME c.vm \notin doubt PROVE Sound1
  BY <1>3, <1>4 DEF VMSound, RestartOps, Whole, Up, Running
<1>6. /\ c.pc \in {"exists", "fetch"} => Whole(c.vm, B)
      /\ c.pc \in Reads => ctr[c.vm].binds = B
      /\ c.pc \in Remakes /\ ~c.failed => c.binds = B
      /\ c.pc \in Builds => ctr[c.vm].binds = A
      /\ c.pc \in Restores \cup {"ok"} => Whole(c.vm, A)
  BY <1>1, <1>2 DEF VMSound
<1> HIDE DEF A, B
<1>7. CASE call'[p].pc = "err"
  BY <1>7 DEF Reads, Remakes, Builds, Restores
<1>8. CASE CheckExists(p)
  <2>1. c.pc = "exists" /\ Idle /\ (call'[p].pc = "fetch" \/ call'[p].pc = "err")
    BY <1>1, <1>8, CheckExistsDoes DEF Goes, Takes, Ends
  <2> QED
    BY <1>6, <1>7, <2>1 DEF Idle, Whole, Up, Running, Reads, Remakes, Builds, Restores
<1>9. CASE Fetch(p) \/ DownloadSettings(p) \/ DownloadRecords(p)
  <2>1. /\ c.pc \in {"fetch"} \cup Reads /\ Idle
        /\ call'[p].pc \in {"settings", "records", "inspect"} \/ call'[p].pc = "err"
    BY <1>1, <1>9, FetchDoes, DownloadDoes
    DEF DownloadSettings, DownloadRecords, At, Goes, Takes, Ends, Reads
  <2> QED
    BY <1>6, <1>7, <2>1 DEF Idle, Whole, Reads, Remakes, Builds, Restores
<1>10. CASE Inspect(p)
  <2>1. /\ c.pc = "inspect"
        /\ \/ call'[p].pc = "delExists" /\ call'[p].binds = ctr[c.vm].binds
           \/ call'[p].pc = "err"
    BY <1>1, <1>10, InspectDoes DEF Takes, Ends
  <2> QED
    BY <1>6, <1>7, <2>1 DEF Reads, Remakes, Builds, Restores
<1>11. CASE DeleteExists(p) \/ Kill(p) \/ Remove(p) \/ RemoveScratch(p) \/ FindNode(p)
  <2>1. /\ c.pc \in Remakes
        /\ \/ call'[p].pc \in Remakes /\ call'[p].binds = c.binds /\ call'[p].failed = c.failed
           \/ call'[p].pc = "err"
    <3> USE DEF Goes, Takes, Ends, Remakes
    <3>1. CASE DeleteExists(p) \/ Kill(p)
      BY <1>1, <3>1, DeleteExistsDoes, KillDoes
    <3>2. CASE Remove(p) \/ RemoveScratch(p)
      BY <1>1, <3>2, RemoveDoes, RemoveScratchDoes DEF RestartOps
    <3>3. CASE FindNode(p)
      BY <1>1, <3>3, FindNodeDoes
    <3> QED
      BY <1>11, <3>1, <3>2, <3>3
  <2> QED
    BY <1>6, <1>7, <2>1 DEF Reads, Remakes, Builds, Restores
<1>12. CASE Recreate(p)
  <2> DEFINE U == UpdateBinds(c.op, c.binds, c.disk)
  <2>1. c.pc = "create" /\ CreateStep(p, U, DuplicateBind(c.op, c.binds, c.disk))
        /\ DuplicateBind(c.op, c.binds, c.disk) \in BOOLEAN
    BY <1>12 DEF Recreate, CreateStep, At, DuplicateBind
  <2>2. U = A
    BY <1>1, <1>5, <1>6, <2>1 DEF EnvFollows, Remakes
  <2> HIDE DEF U
  <2>3. \/ call'[p].pc \in {"start", "connect"} /\ \E first : Arises(c.vm, U, first)
        \/ call'[p].pc = "err"
    BY <1>1, <2>1, CreateDoes DEF Takes, Ends
  <2>4. ASSUME NEW first, Arises(c.vm, U, first) PROVE ctr'[c.vm].binds = U
    BY <2>4 DEF Arises, NoContainer
  <2> QED
    BY <1>7, <2>2, <2>3, <2>4 DEF Reads, Remakes, Builds, Restores
<1>13. CASE Reconnect(p)
  <2>1. /\ c.pc = "connect"
        /\ \/ call'[p].pc \in {"start", "connect"} /\ \E n : Joins(c.vm, n)
           \/ call'[p].pc = "err"
    BY <1>1, <1>13, ConnectDoes DEF Reconnect, Takes, Ends
  <2> QED
    BY <1>6, <1>7, <2>1 DEF Joins, Alters, Reads, Remakes, Builds, Restores
<1>14. CASE Restart(p)
  <2>1. /\ c.pc = "start"
        /\ \/ call'[p].pc = "update" /\ Starts(c.vm)
           \/ call'[p].pc = "delExists" /\ call'[p].failed
    BY <1>1, <1>14, RestartDoes DEF Goes, Takes
  <2> QED
    BY <1>6, <2>1 DEF Starts, Alters, Reads, Remakes, Builds, Restores
<1>15. CASE UpdateEnv(p)
  <2>1. /\ c.pc = "update"
        /\ \/ /\ Running(c.vm) /\ Gets(c.vm, EnvOf(c.env), ctr[c.vm].late)
              /\ call'[p].pc \in {"upload", "ok"}
           \/ call'[p].pc = "err"
    BY <1>1, <1>15, UpdateDoes, UploadOrDoes DEF Takes, Ends
  <2> QED
    BY <1>6, <1>7, <2>1
    DEF Gets, Alters, EnvOf, Running, Whole, Reads, Remakes, Builds, Restores
<1>16. CASE Upload(p) \/ Chgrp(p)
  <2>1. /\ c.pc \in Restores
        /\ \/ /\ Idle \/ \E f, g : Stores(c.vm, f, g)
              /\ call'[p].pc \in Restores \cup {"ok"}
           \/ call'[p].pc = "err"
    BY <1>1, <1>16, UploadDoes, UploadOrDoes, ChgrpDoes DEF Takes, Ends, Restores
  <2> QED
    BY <1>6, <1>7, <2>1
    DEF Stores, Alters, Idle, Up, Running, Whole, Reads, Remakes, Builds, Restores
<1>17. ~HasVM(p) /\ ~FactoryStep(p) /\ ~DiskStep(p)
  <2>1. ~HasVM(p) /\ ~Prepare(p) /\ ~Abandon(p)
    BY <1>1, HasVMDoes, PrepareDoes, AbandonDoes DEF RestartOps
  <2>2. ~CreateContainer(p) /\ ~ConnectNetwork(p) /\ ~StartContainer(p) /\ ~WriteAgentEnv(p)
    BY DEF CreateContainer, ConnectNetwork, StartContainer, WriteAgentEnv, Creates, RestartOps
  <2>3. ~DiskStep(p)
    BY <1>1, LocateDoes, VolumeCreateDoes, VolumeRemoveDoes, HasDiskDoes DEF DiskStep, RestartOps
  <2> QED
    BY <2>1, <2>2, <2>3 DEF FactoryStep
<1> QED
  BY <1>8, <1>9, <1>10, <1>11, <1>12, <1>13, <1>14, <1>15, <1>16, <1>17
  DEF CallActs, ContainerStep

LEMMA StepSuccess ==
  ASSUME EnvInv, Books, Success, NEW p \in Procs, CallActs(p)
  PROVE  Success'
<1> DEFINE c == call[p]
<1>1. /\ VMSound(c) /\ DiskSound(c) /\ CallBook(c) /\ TypeInv /\ Local(p)
      /\ \A v \in VMs : VMBook(v) /\ ctr[v] \in Containers
      /\ \A d \in Disks : DiskBook(d)
  BY SuccessFacts, StepIsLocal
<1>2. /\ call'[p].op = c.op /\ call'[p].vm = c.vm /\ call'[p].disk = c.disk
      /\ UNCHANGED <<held, doubt, cid>>
  BY <1>1, Others DEF Local
<1>3. VMSound(call[p])'
  <2>1. CASE c.op \in RestartOps
    BY <2>1, RestartSound
  <2>2. CASE c.op = "create_vm"
    <3>1. call'[p].pc = "ok" => /\ c.vm \in VMs /\ ctr'[c.vm].st = "running"
                                /\ ctr'[c.vm].env.ok
      <4>1. CASE WriteAgentEnv(p)
        <5>1. /\ c.vm \in VMs
              /\ \/ Running(c.vm) /\ Gets(c.vm, EnvOf(c.env), ctr[c.vm].late)
                 \/ call'[p].pc = "abandon"
          BY <1>1, <4>1, WriteAgentEnvDoes DEF Goes, Takes
        <5> QED
          BY <5>1 DEF Gets, Alters, EnvOf, Running
      <4>2. CASE Prepare(p) \/ StartContainer(p) \/ Abandon(p)
        BY <1>1, <4>2, PrepareDoes, StartContainerDoes, AbandonDoes DEF Goes, Takes, Ends
      <4>3. CASE CreateContainer(p)
        <5>1. {} \in SUBSET Disks /\ FALSE \in BOOLEAN
          OBVIOUS
        <5> QED
          BY <1>1, <4>3, <5>1, CreateDoes DEF CreateContainer, Takes, Ends
      <4>4. CASE ConnectNetwork(p)
        BY <1>1, <4>4, ConnectDoes DEF ConnectNetwork, Takes, Ends
      <4> QED
        BY <1>1, <2>2, <4>1, <4>2, <4>3, <4>4, WhoseStep
        DEF CallActs, FactoryStep, DiskStep, RestartOps
    <3> QED
      BY <1>2, <2>2, <3>1 DEF VMSound, RestartOps, Up, Running
  <2>3. CASE c.op \in {"has_vm", "create_disk"}
    <3>1. UNCHANGED ctr
      BY <1>1, <2>3, WhoseStep, HasVMDoes, LocateDoes, VolumeCreateDoes
      DEF CallActs, DiskStep, RestartOps, Idle, Volume
    <3> QED
      BY <1>1, <1>2, <2>3, <3>1 DEF VMSound, Whole, Up, Running, RestartOps
  <2> QED
    BY <1>2, <2>1, <2>2, <2>3 DEF VMSound
<1>4. Answers(call[p])'
  <2>1. CASE HasVM(p)
    BY <1>1, <1>2, <2>1, HasVMDoes
    DEF Answers, Ends, VMSound, Whole, Up, Running, Exists, CallBook, KnowsCids, VMBook
  <2>2. CASE HasDisk(p)
    BY <1>1, <1>2, <2>2, HasDiskDoes
    DEF Answers, Ends, DiskSound, CallBook, KnowsCids, DiskBook
  <2>3. CASE c.op \notin {"has_vm", "has_disk"}
    BY <1>2, <2>3 DEF Answers
  <2> QED
    BY <1>1, <2>1, <2>2, <2>3, WhoseStep DEF CallActs, DiskStep, RestartOps
<1> QED
  BY <1>1, <1>3, <1>4, SuccessFrame

\* The Director's actions.
LEMMA BeginSuccess ==
  ASSUME EnvInv, Books, Success, NEW p \in Procs, NEW op, NEW pc, NEW v, NEW d,
         Begun(p, op, pc, v, d), UNCHANGED <<engine, doubt>>,
         v \in VMs => cid[v] = "fresh" \/ ~Busy(v),
         d \in Disks => cid[d] = "fresh" \/ ~Busy(d),
         \A x \in VMs \cup Disks : \/ cid'[x] = cid[x]
                                   \/ cid[x] = "fresh" /\ cid'[x] = "drawn",
         \A w \in VMs : held'[w] = held[w] \/ w = v,
         pc \notin {"ok", "yes", "no"}, VMSound(call[p])'
  PROVE  Success'
<1>1. Idle /\ UNCHANGED doubt /\ VMs \cap Disks = {} /\ None \notin VMs \cup Disks
  BY CidAssumption DEF engine, Idle
<1>2. /\ \A q \in Procs : q # p => call'[q] = call[q]
      /\ call[p] = NoCall /\ call'[p].vm = v /\ call'[p].disk = d /\ call'[p].op = op
  BY BookFacts, Moves DEF Begun, Shaped
<1>3. \A x \in VMs \cup Disks : Busy(x) => Busy(x)'
  BY <1>1, <1>2 DEF Busy, NoCall
<1>4. ASSUME NEW q \in Procs
      PROVE  /\ call[q].vm \in VMs => cid'[call[q].vm] = cid[call[q].vm] /\ call[q].vm # v
             /\ call[q].disk \in Disks => cid'[call[q].disk] = cid[call[q].disk]
  <2>1. /\ call[q].vm \in VMs => cid[call[q].vm] # "fresh"
        /\ call[q].disk \in Disks => cid[call[q].disk] # "fresh"
    BY DEF Books, CallBook, KnowsCids
  <2> QED
    BY <2>1 DEF Busy
<1>5. SuccessIsReal'
  <2> SUFFICES ASSUME NEW w \in VMs, cid'[w] = "known", w \notin doubt, ~Busy(w)'
               PROVE  Running(w) /\ ctr[w].env = EnvOf(held'[w]) /\ ctr[w].binds = held'[w]
    BY <1>1 DEF SuccessIsReal, Idle, Running
  <2>1. w # v /\ cid[w] = "known" /\ ~Busy(w)
    BY <1>2, <1>3 DEF Busy
  <2> QED
    BY <2>1 DEF Success, SuccessIsReal
<1>6. DisksReal'
  <2> SUFFICES ASSUME NEW x \in Disks, cid'[x] = "known", x \notin doubt, ~Busy(x)'
               PROVE  volume[x] # "none"
    BY <1>1 DEF DisksReal, Idle
  <2> QED
    BY <1>3 DEF Success, DisksReal
<1>7. ASSUME NEW q \in Procs, q # p PROVE VMSound(call[q])' /\ DiskSound(call[q])' /\ Answers(call[q])'
  <2> DEFINE c == call[q]
  <2>1. VMSound(c) /\ DiskSound(c) /\ Answers(c) /\ call'[q] = c
        /\ Shape(c.op, c.pc, c.vm, c.disk)
    BY <1>2, <1>7, Basics DEF Success, EnvInv
  <2>2. /\ c.vm \in VMs => cid'[c.vm] = cid[c.vm] /\ held'[c.vm] = held[c.vm]
        /\ c.disk \in Disks => cid'[c.disk] = cid[c.disk]
    BY <1>4
  <2>3. c.vm \in VMs => Before(call[q])' = Before(c) /\ After(call[q])' = After(c)
    BY <2>1, <2>2 DEF Before, After
  <2>4. VMSound(call[q])'
    BY <1>1, <2>1, <2>2, <2>3 DEF VMSound, Whole, Up, Running, Idle
  <2>5. DiskSound(call[q])'
    BY <1>1, <2>1, <2>2 DEF DiskSound, Idle
  <2>6. Answers(call[q])'
    BY <1>1, <2>1, <2>2 DEF Answers, Shape
  <2> QED
    BY <2>4, <2>5, <2>6
<1>8. Answers(call[p])'
  BY DEF Answers, Begun
<1>9. DiskSound(call[p])'
  <2> SUFFICES ASSUME d \in Disks \ doubt, cid'[d] = "known" PROVE volume[d] # "none"
    BY <1>1, <1>2 DEF DiskSound, Idle
  <2> QED
    BY DEF Success, DisksReal
<1> QED
  BY <1>5, <1>6, <1>7, <1>8, <1>9 DEF Success

LEMMA BeginsSuccess ==
  ASSUME Disciplined, EnvInv, Books, Success, NEW p \in Procs, Begins(p)
  PROVE  Success'
<1>1. TypeInv /\ None \notin VMs /\ None \notin Disks
  BY CidAssumption DEF EnvInv
<1>2. PICK op, pc : \E v \in VMs \cup {None}, d \in Disks \cup {None} : Opens(p, op, pc, v, d)
  BY <1>1, BeginsDo
<1>3. PICK v \in VMs \cup {None}, d \in Disks \cup {None} : Opens(p, op, pc, v, d)
  BY <1>2
<1>4. /\ call'[p].op = op /\ call'[p].pc = pc /\ call'[p].vm = v /\ call'[p].disk = d
      /\ Idle /\ doubt' = doubt
  BY <1>3 DEF Opens, Begun, engine, Idle
<1>5. VMSound(call[p])'
  <2> SUFFICES ASSUME v \in VMs \ doubt PROVE VMSound(call[p])'
    BY <1>4 DEF VMSound
  <2>1. /\ op # "create_vm" => ~Busy(v)
        /\ pc \notin {"fetch", "ok"} \cup Reads \cup Remakes \cup Builds \cup Restores
           \/ op \notin RestartOps \cup {"create_vm"}
    BY <1>3 DEF Opens, RestartOps, Reads, Remakes, Builds, Restores
  <2>2. op # "create_vm" /\ cid[v] = "known" => Whole(v, held[v])
    <3>1. op # "create_vm" /\ cid[v] = "known" =>
            Running(v) /\ ctr[v].env = EnvOf(held[v]) /\ ctr[v].binds = held[v]
      BY <2>1 DEF Success, SuccessIsReal
    <3>2. EnvOf(held[v]).ok
      BY DEF EnvOf
    <3> QED
      BY <3>1, <3>2 DEF Whole, Up
  <2>3. op \in {"has_vm", "create_disk"} /\ cid'[v] = "known"
        => held'[v] = held[v] /\ cid[v] = "known"
    BY <1>1, <1>3 DEF Opens, CidAssumption, DiskOps
  <2>4. op \in RestartOps => cid[v] = "known" /\ Before(call[p])' = held[v]
    BY <1>3, <1>4 DEF Opens, Before, RestartOps, VmOps
  <2> QED
    BY <1>4, <2>1, <2>2, <2>3, <2>4 DEF VMSound, Whole, Up, Running, Idle, RestartOps
<1>6. /\ \A w \in VMs : held'[w] = held[w] \/ w = v
      /\ \A x \in VMs \cup Disks : cid'[x] = cid[x] \/ (cid[x] = "fresh" /\ cid'[x] = "drawn")
      /\ v \in VMs => cid[v] = "fresh" \/ ~Busy(v)
      /\ d \in Disks => cid[d] = "fresh" \/ ~Busy(d)
      /\ pc \notin {"ok", "yes", "no"}
  BY <1>3 DEF Opens, VmOps, DiskOps
<1>7. Begun(p, op, pc, v, d) /\ UNCHANGED <<engine, doubt>>
  BY <1>3 DEF Opens
<1> QED
  BY <1>5, <1>6, <1>7, BeginSuccess

LEMMA EndSuccess ==
  ASSUME Disciplined, EnvInv, Books, Success, NEW p \in Procs, NEW ok \in BOOLEAN, End(p, ok),
         ~At(p, "idle"), ok => call[p].pc \in {"ok", "yes", "no"}
  PROVE  Success'
<1> DEFINE c == call[p]
<1>1. /\ TypeInv /\ CallBook(c) /\ Shape(c.op, c.pc, c.vm, c.disk) /\ c.op # "none" /\ c \in Calls
      /\ VMSound(c) /\ DiskSound(c) /\ Answers(c)
      /\ ok => c.pc = "ok" \/ c.op \in QueryOps
  BY SuccessFacts, Basics DEF Shape, At
<1>2. /\ call'[p] = NoCall /\ (\A q \in Procs : q # p => call'[q] = call[q])
      /\ Idle /\ asked' = asked
  BY <1>1, EndDoes
<1>3. \A v \in VMs :
        /\ cid'[v] = CASE ok /\ v = c.vm /\ c.op = "create_vm" -> "known"
                       [] ok /\ v = c.vm /\ c.op = "delete_vm" -> "deleted"
                       [] OTHER -> cid[v]
        /\ held'[v] = CASE ok /\ v = c.vm /\ c.op = "detach_disk" -> held[v] \ {c.disk}
                        [] ok /\ v = c.vm /\ c.op = "delete_vm" -> {}
                        [] OTHER -> held[v]
  BY <1>1, EndDoes
<1>4. \A d \in Disks : cid'[d] = CASE ok /\ d = c.disk /\ c.op = "create_disk" -> "known"
                                   [] ok /\ d = c.disk /\ c.op = "delete_disk" -> "deleted"
                                   [] OTHER -> cid[d]
  BY <1>1, EndDoes
<1>5. /\ doubt \subseteq doubt'
      /\ \A x \in doubt' : x \in doubt \/ x \in {c.vm, c.disk}
      /\ ~ok /\ c.op \in VmOps => c.vm \in doubt'
      /\ ~ok /\ c.op = "delete_disk" => c.disk \in doubt'
  BY DEF End, DoubtAfter, VmOps
<1>6. /\ NoCall.vm \notin VMs /\ NoCall.disk \notin Disks /\ NoCall.op = "none"
      /\ NoCall.pc = "idle" /\ NoCall.vm \notin Disks /\ NoCall.disk \notin VMs
  BY CidAssumption DEF NoCall
<1>7. \A x \in VMs \cup Disks : Busy(x) => Busy(x)' \/ x \in {c.vm, c.disk}
  BY <1>2 DEF Busy
<1>8. SuccessIsReal'
  <2> SUFFICES ASSUME NEW v \in VMs, cid'[v] = "known", v \notin doubt', ~Busy(v)'
               PROVE  Running(v) /\ ctr[v].env = EnvOf(held'[v]) /\ ctr[v].binds = held'[v]
    BY <1>2 DEF SuccessIsReal, Idle, Running
  <2>1. CASE v # c.vm
    <3>1. v \notin {c.vm, c.disk}
      BY <1>1, <2>1, CidAssumption DEF Calls
    <3>2. v \notin doubt /\ ~Busy(v)
      BY <1>5, <1>7, <3>1
    <3>3. cid[v] = "known" /\ held'[v] = held[v]
      BY <1>3, <2>1
    <3> QED
      BY <3>2, <3>3 DEF Success, SuccessIsReal
  <2>2. CASE v = c.vm
    <3>1. v \notin doubt
      BY <1>5
    <3>2. Whole(v, held'[v])
      <4>1. CASE c.op = "create_vm"
        <5>1. ok /\ Up(v) /\ held[v] = {} /\ held'[v] = {}
          BY <1>1, <1>3, <1>5, <2>2, <3>1, <4>1, BookFacts
          DEF VMSound, CallBook, KnowsCids, VMBook, QueryOps, VmOps
        <5> QED
          BY <5>1, BookFacts DEF Whole, VMBook
      <4>2. CASE c.op = "delete_vm"
        BY <1>1, <1>3, <1>5, <2>2, <4>2 DEF VmOps
      <4>3. CASE c.op \in RestartOps
        <5>1. ok /\ c.pc = "ok" /\ Whole(v, After(c))
          BY <1>1, <1>5, <2>2, <3>1, <4>3 DEF VMSound, VmOps, RestartOps, QueryOps
        <5>2. held'[v] = After(c)
          BY <1>3, <2>2, <4>3, <5>1 DEF After, RestartOps
        <5> QED
          BY <5>1, <5>2
      <4>4. CASE c.op \in {"has_vm", "create_disk"}
        BY <1>1, <1>3, <2>2, <3>1, <4>4 DEF VMSound
      <4>5. CASE c.op \in {"delete_disk", "has_disk"}
        BY <1>1, <2>2, <4>5 DEF CallBook, KnowsCids
      <4> QED
        BY <1>1, <4>1, <4>2, <4>3, <4>4, <4>5
        DEF Calls, Ops, VmOps, DiskOps, QueryOps, RestartOps
    <3>3. ctr[v].env \in [ok : BOOLEAN, disks : SUBSET Disks]
      BY BookFacts DEF Containers
    <3>4. ctr[v].env.ok => ctr[v].env.disks = ctr[v].binds
      BY DEF EnvInv, EnvListsMounts
    <3> QED
      BY <3>2, <3>3, <3>4 DEF Whole, Up, EnvOf
  <2> QED
    BY <2>1, <2>2
<1>9. DisksReal'
  <2> SUFFICES ASSUME NEW d \in Disks, cid'[d] = "known", d \notin doubt', ~Busy(d)'
               PROVE  volume[d] # "none"
    BY <1>2 DEF DisksReal, Idle
  <2>1. CASE d # c.disk
    <3>1. d \notin {c.vm, c.disk}
      BY <1>1, <2>1, CidAssumption DEF Calls
    <3>2. cid[d] = "known" /\ d \notin doubt /\ ~Busy(d)
      BY <1>4, <1>5, <1>7, <3>1
    <3> QED
      BY <3>2 DEF Success, DisksReal
  <2>2. CASE d = c.disk
    <3>1. c.op # "delete_disk"
      BY <1>4, <1>5, <2>2
    <3>2. CASE ok /\ c.op = "create_disk"
      BY <1>1, <2>2, <3>2 DEF CallBook, VolumesKept, QueryOps
    <3>3. CASE ~(ok /\ c.op = "create_disk")
      BY <1>1, <1>4, <1>5, <2>2, <3>1, <3>3 DEF DiskSound
    <3> QED
      BY <3>2, <3>3
  <2> QED
    BY <2>1, <2>2
<1>10. VMSound(call[p])' /\ DiskSound(call[p])' /\ Answers(call[p])'
  BY <1>2, <1>6 DEF VMSound, DiskSound, Answers
<1>11. ASSUME NEW q \in Procs, q # p
       PROVE  VMSound(call[q])' /\ DiskSound(call[q])' /\ Answers(call[q])'
  <2> DEFINE e == call[q]
  <2>1. /\ VMSound(e) /\ DiskSound(e) /\ Answers(e) /\ call'[q] = e
        /\ Shape(e.op, e.pc, e.vm, e.disk)
    BY <1>2, <1>11, Basics DEF Success, EnvInv
  <2>2. e.vm \in VMs => cid'[e.vm] = cid[e.vm] /\ held'[e.vm] = held[e.vm]
    BY <1>3, <1>11 DEF EnvInv, OneCallPerVM
  <2>3. e.disk \in Disks => cid'[e.disk] = cid[e.disk]
    BY <1>4, <1>11 DEF Books, OneCallPerDisk
  <2>4. e.vm \in VMs => Before(call[q])' = Before(e) /\ After(call[q])' = After(e)
    BY <2>1, <2>2 DEF Before, After
  <2>5. VMSound(call[q])'
    BY <1>2, <1>5, <2>1, <2>2, <2>4 DEF VMSound, Whole, Up, Running, Idle
  <2>6. DiskSound(call[q])'
    BY <1>2, <1>5, <2>1, <2>3 DEF DiskSound, Idle
  <2>7. Answers(call[q])'
    BY <1>5, <2>1, <2>2, <2>3 DEF Answers, Shape
  <2> QED
    BY <2>5, <2>6, <2>7
<1> QED
  BY <1>8, <1>9, <1>10, <1>11 DEF Success

LEMMA WorldSuccess ==
  ASSUME EnvInv, Books, Success, NEW v \in VMs, AgentWrites(v) \/ LateWrite(v) \/ Dies(v)
  PROVE  Success'
<1>1. /\ UNCHANGED <<call, cid, held, asked, scratch, volume>> /\ Touches(v)
      /\ ctr'[v].binds = ctr[v].binds /\ doubt \subseteq doubt'
  BY WorldDoes DEF EnvInv, Stores, Gets, Stops, Alters
<1>2. v \notin doubt' /\ Up(v) => ctr'[v].env = ctr[v].env /\ ctr'[v].st = ctr[v].st
  <2>1. CASE \E f \in Files : Stores(v, f, "vcap")
    BY <2>1 DEF Stores, Alters
  <2>2. CASE \E S \in ctr[v].late : Gets(v, EnvOf(S), {})
    <3>1. PICK S \in ctr[v].late : Gets(v, EnvOf(S), {})
      BY <2>2
    <3>2. S = ctr[v].binds
      BY DEF EnvInv, LateLists
    <3>3. ctr[v].env \in [ok : BOOLEAN, disks : SUBSET Disks]
      BY BookFacts DEF EnvInv, TypeInv, TypeOK, EngineTypeOK, Containers
    <3>4. Up(v) => ctr[v].env.ok /\ ctr[v].env.disks = ctr[v].binds
      BY DEF EnvInv, EnvListsMounts, Up
    <3>5. Up(v) => ctr[v].env = EnvOf(S)
      BY <3>2, <3>3, <3>4 DEF EnvOf
    <3> QED
      BY <3>1, <3>5 DEF Gets, Alters
  <2>3. CASE v \in doubt'
    BY <2>3
  <2> QED
    BY <2>1, <2>2, <2>3, WorldDoes DEF EnvInv
<1>3. ASSUME NEW w \in VMs, w \notin doubt'
      PROVE  /\ w \notin doubt /\ ctr'[w].binds = ctr[w].binds
             /\ Up(w) => ctr'[w].env = ctr[w].env /\ ctr'[w].st = ctr[w].st
  BY <1>1, <1>2, <1>3 DEF Touches
<1>4. SuccessIsReal'
  <2> SUFFICES ASSUME NEW w \in VMs, cid[w] = "known", w \notin doubt', ~Busy(w)
               PROVE  Running(w)' /\ ctr'[w].env = EnvOf(held[w]) /\ ctr'[w].binds = held[w]
    BY <1>1 DEF SuccessIsReal, Busy
  <2>1. Running(w) /\ ctr[w].env = EnvOf(held[w]) /\ ctr[w].binds = held[w]
    BY <1>3 DEF Success, SuccessIsReal
  <2>2. EnvOf(held[w]).ok
    BY DEF EnvOf
  <2>3. Up(w)
    BY <2>1, <2>2 DEF Up
  <2> QED
    BY <1>3, <2>1, <2>3 DEF Running
<1>5. DisksReal'
  BY <1>1 DEF Success, DisksReal, Busy
<1>6. ASSUME NEW q \in Procs PROVE VMSound(call[q])' /\ DiskSound(call[q])' /\ Answers(call[q])'
  <2> DEFINE c == call[q]
  <2>1. VMSound(c) /\ DiskSound(c) /\ Answers(c) /\ call'[q] = c
        /\ Shape(c.op, c.pc, c.vm, c.disk)
    BY <1>1, Basics DEF Success, EnvInv
  <2>2. Before(call[q])' = Before(c) /\ After(call[q])' = After(c)
    BY <1>1 DEF Before, After
  <2>3. VMSound(call[q])'
    <3> SUFFICES ASSUME c.vm \in VMs, c.vm \notin doubt' PROVE VMSound(call[q])'
      BY <1>1 DEF VMSound
    <3> QED
      BY <1>1, <1>3, <2>1, <2>2 DEF VMSound, Whole, Up, Running
  <2>4. DiskSound(call[q])' /\ Answers(call[q])'
    BY <1>1, <2>1 DEF DiskSound, Answers
  <2> QED
    BY <2>3, <2>4
<1> QED
  BY <1>4, <1>5, <1>6 DEF Success

LEMMA InitSuccess == Init => Success
<1> SUFFICES ASSUME Init PROVE Success
  OBVIOUS
<1>1. call = [p \in Procs |-> NoCall] /\ cid = [x \in VMs \cup Disks |-> "fresh"]
  BY DEF Init, DirectorInit
<1>2. NoCall.vm \notin VMs /\ NoCall.disk \notin Disks /\ NoCall.op = "none"
  BY CidAssumption DEF NoCall
<1>3. VMSound(NoCall) /\ DiskSound(NoCall) /\ Answers(NoCall)
  BY <1>2 DEF VMSound, DiskSound, Answers
<1>4. SuccessIsReal /\ DisksReal
  BY <1>1 DEF SuccessIsReal, DisksReal
<1> QED
  BY <1>1, <1>3, <1>4 DEF Success

LEMMA NextSuccess ==
  ASSUME Disciplined
  PROVE  EnvInv /\ Books /\ Success /\ [Next]_vars => Success'
<1> SUFFICES ASSUME EnvInv, Books, Success, [Next]_vars PROVE Success'
  OBVIOUS
<1>1. ASSUME NEW p \in Procs, Begins(p) PROVE Success'
  BY <1>1, BeginsSuccess
<1>2. ASSUME NEW p \in Procs, CallStep(p) PROVE Success'
  <2>1. CASE CallActs(p)
    BY <2>1, StepSuccess
  <2>2. CASE Return(p)
    BY <2>2, EndSuccess DEF Return, At
  <2> QED
    BY <1>2, <2>1, <2>2 DEF CallStep, CallActs
<1>3. ASSUME NEW p \in Procs, Crash(p) PROVE Success'
  BY <1>3, EndSuccess DEF Crash
<1>4. ASSUME NEW v \in VMs, AgentWrites(v) \/ LateWrite(v) \/ Dies(v) PROVE Success'
  BY <1>4, WorldSuccess
<1>5. CASE UNCHANGED vars
  <2>1. Idle /\ UNCHANGED <<call, cid, held, doubt>>
    BY <1>5 DEF vars, engine, director, Idle
  <2>2. ASSUME NEW p \in Procs
        PROVE  VMSound(call[p])' /\ DiskSound(call[p])' /\ Answers(call[p])'
    <3>1. Before(call[p])' = Before(call[p]) /\ After(call[p])' = After(call[p])
      BY <2>1 DEF Before, After
    <3> QED
      BY <2>1, <3>1 DEF Success, Idle, VMSound, DiskSound, Answers, Whole, Up, Running
  <2> QED
    BY <2>1, <2>2 DEF Success, Idle, SuccessIsReal, DisksReal, Busy, Running
<1> QED
  BY <1>1, <1>2, <1>3, <1>4, <1>5 DEF Next

LEMMA KeepsSuccess == ASSUME Disciplined PROVE Spec => [](EnvInv /\ Books /\ Success)
<1>1. Init => EnvInv /\ Books /\ Success
  BY InitEnv, InitBook, InitSuccess
<1>2. EnvInv /\ Books /\ Success /\ [Next]_vars => (EnvInv /\ Books /\ Success)'
  BY NextEnv, NextBook, NextSuccess
<1> QED
  BY <1>1, <1>2, PTL DEF Spec

\* "ok" is the CPI's word for what it did to the machine.  Whatever fails around
\* other calls, a VM none of whose calls failed runs with an agent env and with
\* mounts that both list exactly the disks the Director attached to it.
THEOREM SuccessMeansWhatItSays == ASSUME Disciplined PROVE Spec => []SuccessIsReal
<1>1. Success => SuccessIsReal
  BY DEF Success
<1> QED
  BY <1>1, KeepsSuccess, PTL

\* The answer has_vm or has_disk gives is that of the Director's books, until the
\* call that asks ends, unless a call on that VM or disk has failed before.
THEOREM AnswersAreTrue == ASSUME Disciplined PROVE Spec => []AnswersAgree
<1>1. EnvInv /\ Success => AnswersAgree
  <2> SUFFICES ASSUME EnvInv, Success, NEW p \in Procs
               PROVE  LET c == call[p]  x == IF c.op = "has_vm" THEN c.vm ELSE c.disk IN
                      /\ c.pc = "no" => cid[x] = "deleted" \/ x \in doubt
                      /\ c.pc = "yes" => cid[x] = "known"
    BY DEF AnswersAgree
  <2>1. call[p].pc \in {"yes", "no"} => call[p].op \in {"has_vm", "has_disk"}
    BY Basics DEF EnvInv, Shape, QueryOps
  <2>2. Answers(call[p])
    BY DEF Success
  <2> QED
    BY <2>1, <2>2 DEF Answers
<1> QED
  BY <1>1, KeepsSuccess, PTL

-----------------------------------------------------------------------------
(* Progress.                                                               *)

LEMMA ProgressFrame ==
  ASSUME EnvInv, Books, Progress, NEW p \in Procs, Local(p), GoesWell(call[p])'
  PROVE  Progress'
<1>1. Moves1(p)
  BY DEF Local
<1>2. NoDoubt'
  BY <1>1, Others DEF Progress, NoDoubt
<1>3. ASSUME NEW q \in Procs, q # p PROVE GoesWell(call[q])'
  <2> DEFINE c == call[q]
  <2>1. GoesWell(c) /\ call'[q] = c /\ Shape(c.op, c.pc, c.vm, c.disk)
    BY <1>1, <1>3, Others, Basics DEF Progress, EnvInv
  <2>2. c.vm \in VMs => ctr'[c.vm] = ctr[c.vm]
    BY <1>1, <1>3, Others DEF Local, Touches
  <2>3. c.disk \in Disks => volume'[c.disk] = volume[c.disk]
    BY <1>3 DEF Local, Books, OneCallPerDisk
  <2> HIDE DEF c
  <2>4. Smooth(c)' = Smooth(c)
    BY <2>1 DEF Smooth, c
  <2> QED
    BY <2>1, <2>2, <2>3, <2>4
    DEF c, GoesWell, Smooth, Up, Running, Exists, Shape, RestartOps, VmOps, DiskOps, Reads, Restores,
        Remakes
<1> QED
  BY <1>2, <1>3 DEF Progress

\* No step makes a call sure that was not, nor forgets the files there were.
LEMMA SureStays ==
  ASSUME EnvInv, Books, NEW p \in Procs, CallActs(p)
  PROVE  (call'[p].sure => call[p].sure) /\ call'[p].had = call[p].had
<1> DEFINE Stays == (call'[p].sure => call[p].sure) /\ call'[p].had = call[p].had
<1>1. TypeInv
  BY DEF EnvInv
<1>2. /\ \A pc, E, B, N, got, left, failed : Takes(p, pc, E, B, N, got, left, failed) => Stays
      /\ \A pc : Goes(p, pc) => Stays
      /\ \A pc : Ends(p, pc) => Stays
  BY DEF Goes, Takes, Ends
<1> SUFFICES Stays
  OBVIOUS
<1> HIDE DEF Stays
<1>3. CASE CheckExists(p)
  BY <1>1, <1>2, <1>3, CheckExistsDoes
<1>4. CASE Fetch(p)
  BY <1>1, <1>2, <1>4, FetchDoes
<1>5. CASE Inspect(p)
  BY <1>1, <1>2, <1>5, InspectDoes
<1>6. CASE DeleteExists(p)
  BY <1>1, <1>2, <1>6, DeleteExistsDoes
<1>7. CASE Kill(p)
  BY <1>1, <1>2, <1>7, KillDoes
<1>8. CASE Remove(p)
  BY <1>1, <1>2, <1>8, RemoveDoes
<1>9. CASE DownloadSettings(p) \/ DownloadRecords(p)
  BY <1>1, <1>2, <1>9, DownloadDoes DEF DownloadSettings, DownloadRecords
<1>10. CASE RemoveScratch(p)
  BY <1>1, <1>2, <1>10, RemoveScratchDoes
<1>11. CASE FindNode(p)
  BY <1>1, <1>2, <1>11, FindNodeDoes
<1>12. CASE Recreate(p) \/ CreateContainer(p)
  <2>1. \E B : \E clash \in BOOLEAN : CreateStep(p, B, clash)
    <3>1. CASE Recreate(p)
      BY <3>1, RecreateBinds DEF Recreate, CreateStep, At, Restarts, RestartOps
    <3>2. CASE CreateContainer(p)
      BY <3>2 DEF CreateContainer
    <3> QED
      BY <1>12, <3>1, <3>2
  <2>2. PICK B : \E clash \in BOOLEAN : CreateStep(p, B, clash)
    BY <2>1
  <2>3. PICK clash \in BOOLEAN : CreateStep(p, B, clash)
    BY <2>2
  <2> QED
    BY <1>1, <1>2, <2>3, CreateDoes
<1>13. CASE Reconnect(p) \/ ConnectNetwork(p)
  BY <1>1, <1>2, <1>13, ConnectDoes DEF Reconnect, ConnectNetwork
<1>14. CASE Restart(p)
  BY <1>1, <1>2, <1>14, RestartDoes
<1>15. CASE StartContainer(p)
  BY <1>1, <1>2, <1>15, StartContainerDoes
<1>16. CASE UpdateEnv(p)
  BY <1>1, <1>2, <1>16, UpdateDoes, UploadOrDoes
<1>17. CASE Upload(p)
  BY <1>1, <1>2, <1>17, UploadDoes, UploadOrDoes
<1>18. CASE Chgrp(p)
  BY <1>1, <1>2, <1>18, ChgrpDoes
<1>19. CASE WriteAgentEnv(p)
  BY <1>1, <1>2, <1>19, WriteAgentEnvDoes
<1>20. CASE Prepare(p)
  BY <1>1, <1>2, <1>20, PrepareDoes
<1>21. CASE Abandon(p)
  BY <1>1, <1>2, <1>21, AbandonDoes
<1>22. CASE HasVM(p)
  BY <1>1, <1>2, <1>22, HasVMDoes
<1>23. CASE DiskStep(p)
  BY <1>1, <1>2, <1>23, LocateDoes, VolumeCreateDoes, VolumeRemoveDoes, HasDiskDoes DEF DiskStep
<1> QED
  BY <1>3, <1>4, <1>5, <1>6, <1>7, <1>8, <1>9, <1>10, <1>11, <1>12, <1>13, <1>14,
     <1>15, <1>16, <1>17, <1>18, <1>19, <1>20, <1>21, <1>22, <1>23
  DEF CallActs, ContainerStep, FactoryStep

\* The steps of a restart.
LEMMA RestartWell ==
  ASSUME EnvInv, Books, Progress, NEW p \in Procs, CallActs(p), call[p].op \in RestartOps,
         Smooth(call[p])
  PROVE  GoesWell(call[p])'
<1> DEFINE c == call[p]
           N == call'[p].pc
           S == ctr'[c.vm].st
           Well == /\ N \notin {"err", "abandon"} /\ ~call'[p].failed
                   /\ N \in {"exists", "fetch"} => S = "running" /\ ctr'[c.vm].env.ok
                   /\ N \in Reads \cup Restores \cup {"update"} => S = "running"
                   /\ N \in {"exists", "fetch"} \cup Reads \cup Remakes => volume'[c.disk] # "none"
                   /\ c.op = "attach_disk" =>
                        /\ N \in {"exists", "fetch"} \cup Reads => c.disk \notin ctr'[c.vm].binds
                        /\ N \in Remakes => c.disk \notin call'[p].binds
                   /\ N = "scratch" => S = "none"
<1>1. /\ GoesWell(c) /\ CallBook(c) /\ TypeInv /\ Shape(c.op, c.pc, c.vm, c.disk)
      /\ c.vm \in VMs /\ c.disk \in Disks
  BY BookFacts, Basics DEF Progress, Shape, RestartOps, VmOps
<1>2. /\ c.pc \notin {"err", "abandon"} /\ ~c.failed
      /\ c.pc \in {"exists", "fetch"} => Up(c.vm)
      /\ c.pc \in Reads \cup Restores \cup {"update"} => Running(c.vm)
      /\ c.pc \in {"exists", "fetch"} \cup Reads \cup Remakes => volume[c.disk] # "none"
      /\ c.op = "attach_disk" =>
           /\ c.pc \in {"exists", "fetch"} \cup Reads => c.disk \notin ctr[c.vm].binds
           /\ c.pc \in Remakes => c.disk \notin c.binds
      /\ c.pc = "scratch" => ~Exists(c.vm)
      /\ c.pc \in {"kill", "remove", "connect", "start"} => Exists(c.vm)
      /\ c.pc \in {"findNode", "create"} => ~Exists(c.vm)
  BY <1>1 DEF GoesWell, CallBook, Stands
<1>3. TypeInv'
  BY <1>1, NextType DEF Next, CallStep, CallActs
<1> SUFFICES Well
  <2>1. call'[p].op = c.op /\ call'[p].vm = c.vm /\ call'[p].disk = c.disk
    BY StepIsLocal DEF Local, Moves1
  <2>2. N \notin {"locate", "volRemove"}
    BY <1>3, <2>1, Basics DEF TypeInv, CallsShaped, Shaped, Shape, RestartOps
  <2> QED
    BY <2>1, <2>2 DEF GoesWell, RestartOps, Up, Running, Exists
<1> USE DEF Reads, Remakes, Restores
<1>4. CASE CheckExists(p)
  <2>1. c.pc = "exists" /\ Idle /\ Goes(p, "fetch")
    BY <1>1, <1>2, <1>4, CheckExistsDoes DEF Up, Running, Exists
  <2> QED
    BY <1>2, <2>1 DEF Goes, Takes, Idle, Up, Running
<1>5. CASE Fetch(p)
  <2>1. /\ c.pc = "fetch" /\ Idle /\ N = "settings" /\ ~call'[p].failed
    BY <1>1, <1>2, <1>5, FetchDoes DEF Takes
  <2> QED
    BY <1>2, <2>1 DEF Idle, Up, Running
<1>6. CASE DownloadSettings(p) \/ DownloadRecords(p)
  <2>1. /\ c.pc \in {"settings", "records"} /\ Idle /\ N \in {"records", "inspect"}
        /\ ~call'[p].failed
    BY <1>1, <1>2, <1>6, DownloadDoes DEF DownloadSettings, DownloadRecords, Goes, Takes, At
  <2> QED
    BY <1>2, <2>1 DEF Idle, Running
<1>7. CASE Inspect(p)
  <2>1. /\ c.pc = "inspect" /\ Idle /\ N = "delExists" /\ ~call'[p].failed
        /\ call'[p].binds = ctr[c.vm].binds
    BY <1>1, <1>2, <1>7, InspectDoes DEF Takes, Running, Exists
  <2> QED
    BY <1>2, <2>1 DEF Idle
<1>8. CASE DeleteExists(p)
  <2>1. /\ c.pc = "delExists" /\ Idle /\ ~call'[p].failed /\ call'[p].binds = c.binds
        /\ N = "kill" \/ (N = "scratch" /\ ~Exists(c.vm))
    BY <1>1, <1>2, <1>8, DeleteExistsDoes DEF Goes, Takes
  <2> QED
    BY <1>2, <2>1 DEF Idle, Exists
<1>9. CASE Kill(p) \/ Remove(p)
  <2>1. /\ c.pc \in {"kill", "remove"} /\ volume' = volume /\ ~call'[p].failed
        /\ call'[p].binds = c.binds
        /\ N = "remove" \/ (N = "scratch" /\ ctr'[c.vm] = NoContainer)
    <3>1. CASE Kill(p)
      BY <1>1, <1>2, <3>1, KillDoes DEF Goes, Takes, Idle, Stops, Alters
    <3>2. CASE Remove(p)
      BY <1>1, <1>2, <3>2, RemoveDoes DEF Goes, Takes, Goner
    <3> QED
      BY <1>9, <3>1, <3>2
  <2> QED
    BY <1>2, <2>1 DEF NoContainer
<1>10. CASE RemoveScratch(p)
  <2>1. /\ c.pc = "scratch" /\ volume' = volume /\ N = "findNode" /\ ~call'[p].failed
        /\ call'[p].binds = c.binds
    BY <1>1, <1>2, <1>10, RemoveScratchDoes DEF Goes, Takes, RestartOps
  <2> QED
    BY <1>2, <2>1
<1>11. CASE FindNode(p)
  <2>1. /\ c.pc = "findNode" /\ Idle /\ N = "create" /\ ~call'[p].failed
        /\ call'[p].binds = c.binds
    BY <1>1, <1>2, <1>11, FindNodeDoes DEF Goes, Takes
  <2> QED
    BY <1>2, <2>1 DEF Idle
<1>12. CASE Recreate(p) \/ Reconnect(p)
  <2>1. N \in {"connect", "start"} /\ ~call'[p].failed
    <3>1. CASE Recreate(p)
      <4>1. c.pc = "create"
        BY <3>1 DEF Recreate, CreateStep, At
      <4>2. ~DuplicateBind(c.op, c.binds, c.disk) /\ ~Exists(c.vm)
        BY <1>2, <4>1 DEF DuplicateBind
      <4>3. DuplicateBind(c.op, c.binds, c.disk) \in BOOLEAN
        BY RecreateBinds, <4>1
      <4>4. ~(Exists(c.vm) \/ DuplicateBind(c.op, c.binds, c.disk) \/ ~Smooth(c))
        BY <4>2
      <4> QED
        BY <1>1, <1>2, <3>1, <4>3, <4>4, CreateDoes DEF Recreate, Takes
    <3>2. CASE Reconnect(p)
      BY <1>1, <1>2, <3>2, ConnectDoes DEF Reconnect, Takes
    <3> QED
      BY <1>12, <3>1, <3>2
  <2> QED
    BY <2>1
<1>13. CASE Restart(p)
  <2>1. N = "update" /\ ~call'[p].failed /\ Starts(c.vm)
    BY <1>1, <1>2, <1>13, RestartDoes DEF Goes, Takes
  <2> QED
    BY <2>1 DEF Starts, Alters
<1>14. CASE UpdateEnv(p) \/ Upload(p)
  <2>1. /\ Running(c.vm) /\ ctr'[c.vm].st = ctr[c.vm].st
        /\ N \in {"upload", "chgrp", "ok"} /\ ~call'[p].failed
    <3>1. CASE UpdateEnv(p)
      BY <1>1, <1>2, <3>1, UpdateDoes, UploadOrDoes DEF Gets, Alters, Takes, Ends
    <3>2. CASE Upload(p)
      BY <1>1, <1>2, <3>2, UploadDoes, UploadOrDoes DEF Stores, Alters, Takes, Ends
    <3> QED
      BY <1>14, <3>1, <3>2
  <2> QED
    BY <2>1 DEF Running
<1>15. CASE Chgrp(p)
  <2>1. N = "ok" /\ ~call'[p].failed
    BY <1>1, <1>2, <1>15, ChgrpDoes DEF Ends
  <2> QED
    BY <2>1
<1> QED
  BY <1>1, <1>4, <1>5, <1>6, <1>7, <1>8, <1>9, <1>10, <1>11, <1>12, <1>13, <1>14, <1>15, WhoseStep
  DEF CallActs, ContainerStep, FactoryStep, DiskStep, RestartOps

\* A volume that no VM is taken to hold is in no container.
LEMMA NotHeldNotInUse ==
  ASSUME Books, NEW d \in Disks, \A v \in VMs : d \notin held[v]
  PROVE  ~InUse(d)
BY DEF Books, VMBook, InUse

\* The steps of the other calls.
LEMMA OtherWell ==
  ASSUME EnvInv, Books, Progress, NEW p \in Procs, CallActs(p), call[p].op \notin RestartOps,
         Smooth(call[p])
  PROVE  GoesWell(call[p])'
<1> DEFINE c == call[p]
           N == call'[p].pc
<1>1. /\ GoesWell(c) /\ CallBook(c) /\ TypeInv /\ Shape(c.op, c.pc, c.vm, c.disk)
      /\ call'[p].op = c.op /\ call'[p].vm = c.vm /\ call'[p].disk = c.disk
  BY BookFacts, Basics, StepIsLocal DEF Progress, Local, Moves1
<1>2. TypeInv' /\ Shape(call'[p].op, N, call'[p].vm, call'[p].disk)
  BY <1>1, NextType DEF Next, CallStep, CallActs, TypeInv, CallsShaped, Shaped
<1>3. /\ c.pc \notin {"err", "abandon"} /\ ~c.failed
      /\ c.pc = "update" => Running(c.vm)
      /\ c.pc = "scratch" => ~Exists(c.vm)
      /\ c.pc \in {"kill", "remove", "connect", "start"} => Exists(c.vm)
      /\ c.pc = "create" => ~Exists(c.vm)
      /\ c.pc = "locate" => Exists(c.vm)
      /\ c.pc = "volRemove" => volume[c.disk] # "none"
  BY <1>1 DEF GoesWell, CallBook, Stands
<1> SUFFICES /\ N \notin {"err", "abandon", "locate", "volRemove"} /\ ~call'[p].failed
             /\ N = "update" => ctr'[c.vm].st = "running"
             /\ N = "scratch" => ctr'[c.vm].st = "none"
  BY <1>1, <1>2 DEF GoesWell, RestartOps, Running, Exists, Reads, Restores, Shape
<1>4. CASE c.op = "delete_vm"
  <2>1. CASE DeleteExists(p)
    BY <1>1, <1>3, <2>1, DeleteExistsDoes DEF Goes, Takes, Idle, Exists
  <2>2. CASE Kill(p)
    BY <1>1, <1>3, <2>2, KillDoes DEF Goes, Takes
  <2>3. CASE Remove(p)
    BY <1>1, <1>3, <2>3, RemoveDoes DEF Goes, Takes, Goner, NoContainer
  <2>4. CASE RemoveScratch(p)
    BY <1>1, <1>3, <1>4, <2>4, RemoveScratchDoes DEF Ends, RestartOps
  <2> QED
    BY <1>1, <1>4, <2>1, <2>2, <2>3, <2>4, WhoseStep, CheckExistsDoes, FetchDoes, DownloadDoes,
       InspectDoes, FindNodeDoes, UploadDoes, ChgrpDoes
    DEF CallActs, ContainerStep, FactoryStep, DiskStep, RestartOps, DownloadSettings,
        DownloadRecords, Recreate, Reconnect, Restart, UpdateEnv, Restarts
<1>5. CASE c.op = "create_vm"
  <2>1. CASE Prepare(p)
    BY <1>1, <1>3, <2>1, PrepareDoes DEF Takes
  <2>2. CASE CreateContainer(p)
    <3>1. FALSE \in BOOLEAN
      OBVIOUS
    <3>2. c.pc = "create"
      BY <2>2 DEF CreateContainer, CreateStep, At
    <3> QED
      BY <1>1, <1>3, <2>2, <3>1, <3>2, CreateDoes DEF CreateContainer, Takes
  <2>3. CASE ConnectNetwork(p)
    BY <1>1, <1>3, <2>3, ConnectDoes DEF ConnectNetwork, Takes
  <2>4. CASE StartContainer(p)
    BY <1>1, <1>3, <2>4, StartContainerDoes DEF Goes, Takes, Starts, Alters
  <2>5. CASE WriteAgentEnv(p)
    BY <1>1, <1>3, <2>5, WriteAgentEnvDoes DEF Ends
  <2>6. CASE Abandon(p)
    BY <1>1, <1>3, <2>6, AbandonDoes
  <2> QED
    BY <1>1, <1>5, <2>1, <2>2, <2>3, <2>4, <2>5, <2>6, WhoseStep
    DEF CallActs, FactoryStep, DiskStep, RestartOps
<1>6. CASE c.op \in DiskOps \cup QueryOps
  <2>1. CASE Locate(p) \/ VolumeCreate(p)
    BY <1>1, <1>3, <2>1, LocateDoes, VolumeCreateDoes DEF Goes, Takes, Ends
  <2>2. CASE VolumeRemove(p)
    <3>1. c.disk \in Disks /\ ~InUse(c.disk) /\ volume[c.disk] # "none"
      BY <1>1, <1>3, <2>2, VolumeRemoveDoes, NotHeldNotInUse DEF CallBook, DisksHeld
    <3> QED
      BY <1>1, <1>3, <2>2, <3>1, VolumeRemoveDoes DEF Ends
  <2>3. CASE HasVM(p) \/ HasDisk(p)
    BY <1>1, <1>3, <2>3, HasVMDoes, HasDiskDoes DEF Ends
  <2> QED
    BY <1>1, <1>6, <2>1, <2>2, <2>3, WhoseStep
    DEF CallActs, DiskStep, RestartOps, DiskOps, QueryOps
<1>7. c.op # "none"
  BY <1>1, WhoseStep DEF CallActs, DiskStep, RestartOps
<1> QED
  BY <1>4, <1>5, <1>6, <1>7, Basics, <1>1 DEF Calls, Ops, VmOps, RestartOps

LEMMA StepProgress ==
  ASSUME EnvInv, Books, Progress, NEW p \in Procs, CallActs(p)
  PROVE  Progress'
<1>1. Local(p)
  BY StepIsLocal
<1>2. CASE Smooth(call[p])
  BY <1>1, <1>2, RestartWell, OtherWell, ProgressFrame
<1>3. CASE ~Smooth(call[p])
  <2>1. ~Smooth(call[p])'
    BY <1>3, SureStays DEF Smooth
  <2> QED
    BY <1>1, <2>1, ProgressFrame DEF GoesWell
<1> QED
  BY <1>2, <1>3

LEMMA AbleMeans ==
  ASSUME NEW v, NEW d
  PROVE  /\ Able("attach_disk", v, d) => Up(v) /\ d \notin ctr[v].binds /\ volume[d] # "none"
         /\ Able("detach_disk", v, d) => Up(v) /\ volume[d] # "none"
         /\ Able("create_disk", v, d) /\ v # None => Exists(v)
         /\ Able("delete_disk", v, d) => volume[d] # "none"
BY DEF Able

\* A call that begins finds what the calls before it left.
LEMMA BeginsProgress ==
  ASSUME Disciplined, EnvInv, Books, Success, Progress, NEW p \in Procs, Begins(p)
  PROVE  Progress'
<1>1. TypeInv /\ None \notin VMs /\ None \notin Disks
  BY CidAssumption DEF EnvInv
<1>2. PICK op, pc : \E v \in VMs \cup {None}, d \in Disks \cup {None} : Opens(p, op, pc, v, d)
  BY <1>1, BeginsDo
<1>3. PICK v \in VMs \cup {None}, d \in Disks \cup {None} : Opens(p, op, pc, v, d)
  BY <1>2
<1>4. /\ call'[p].op = op /\ call'[p].pc = pc /\ call'[p].vm = v /\ call'[p].disk = d
      /\ Idle /\ doubt' = doubt /\ ~call'[p].failed /\ call'[p].binds = {}
      /\ call'[p].sure => Able(op, v, d)
      /\ \A q \in Procs : q # p => call'[q] = call[q]
  BY <1>3 DEF Opens, Begun, engine, Idle
<1>5. v \in VMs /\ cid[v] = "known" /\ ~Busy(v) /\ ~Faulty => Up(v) /\ ctr[v].binds = held[v]
  <2>1. v \in VMs /\ cid[v] = "known" /\ ~Busy(v) /\ ~Faulty =>
          Running(v) /\ ctr[v].env = EnvOf(held[v]) /\ ctr[v].binds = held[v]
    BY DEF Success, SuccessIsReal, Progress, NoDoubt
  <2>2. EnvOf(held[v]).ok
    BY DEF EnvOf
  <2> QED
    BY <2>1, <2>2 DEF Up
<1>6. d \in Disks /\ cid[d] = "known" /\ ~Busy(d) /\ ~Faulty => volume[d] # "none"
  BY DEF Success, DisksReal, Progress, NoDoubt
<1>7. GoesWell(call[p])'
  <2> SUFFICES ASSUME call'[p].sure \/ ~Faulty
               PROVE  /\ op \in RestartOps => /\ Up(v) /\ volume[d] # "none"
                                              /\ op = "attach_disk" => d \notin ctr[v].binds
                      /\ pc = "locate" => Exists(v)
                      /\ pc = "volRemove" => volume[d] # "none"
    <3>1. /\ pc \in {"prepare", "delExists", "exists", "volCreate", "locate", "volRemove",
                     "hasVM", "hasDisk"}
          /\ pc \in {"exists", "delExists"} /\ op \in RestartOps => pc = "exists"
      BY <1>3 DEF Opens, RestartOps
    <3> QED
      BY <1>4, <3>1 DEF GoesWell, Smooth, Idle, Up, Running, Exists, Reads, Remakes, Restores, RestartOps
  <2>1. CASE op \in RestartOps
    <3>1. /\ v \in VMs /\ d \in Disks /\ cid[v] = "known" /\ ~Busy(v) /\ cid[d] = "known" /\ ~Busy(d)
          /\ pc = "exists" /\ (op = "attach_disk" => (d \in held[v] => v \in doubt))
      BY <1>3, <2>1 DEF Opens, RestartOps, VmOps
    <3>2. CASE call'[p].sure
      BY <1>4, <2>1, <3>1, <3>2, AbleMeans DEF RestartOps
    <3>3. CASE ~Faulty
      BY <1>5, <1>6, <3>1, <3>3 DEF Progress, NoDoubt
    <3> QED
      BY <3>2, <3>3
  <2>2. CASE pc = "locate"
    <3>0. op = "create_disk" /\ v # None
      BY <1>3, <2>2 DEF Opens, RestartOps
    <3>1. op = "create_disk" /\ v # None /\ v \in VMs /\ cid[v] = "known" /\ ~Busy(v)
      BY <1>3, <3>0 DEF Opens
    <3>2. call'[p].sure => Exists(v)
      BY <1>4, <3>1, AbleMeans
    <3>3. ~Faulty => Exists(v)
      BY <1>5, <3>1 DEF Up, Running, Exists
    <3> QED
      BY <2>2, <3>1, <3>2, <3>3 DEF RestartOps
  <2>3. CASE pc = "volRemove"
    <3>0. op = "delete_disk"
      BY <1>3, <2>3 DEF Opens, RestartOps
    <3>1. op = "delete_disk" /\ d \in Disks /\ cid[d] = "known" /\ ~Busy(d)
      BY <1>3, <3>0 DEF Opens, DiskOps
    <3>2. call'[p].sure => volume[d] # "none"
      BY <1>4, <3>1, AbleMeans
    <3>3. ~Faulty => volume[d] # "none"
      BY <1>6, <3>1
    <3> QED
      BY <2>3, <3>1, <3>2, <3>3 DEF RestartOps
  <2> QED
    BY <2>1, <2>2, <2>3
<1>8. ASSUME NEW q \in Procs, q # p PROVE GoesWell(call[q])'
  BY <1>4, <1>8 DEF Progress, GoesWell, Smooth, Idle, Up, Running, Exists
<1>9. NoDoubt'
  BY <1>4 DEF Progress, NoDoubt
<1> QED
  BY <1>7, <1>8, <1>9 DEF Progress

LEMMA EndProgress ==
  ASSUME EnvInv, Books, Progress, NEW p \in Procs, NEW ok \in BOOLEAN, End(p, ok),
         ~At(p, "idle"), ~ok => Faulty
  PROVE  Progress'
<1>1. TypeInv /\ call[p].op # "none"
  BY Basics DEF EnvInv, Shape, At
<1>2. call'[p] = NoCall /\ (\A q \in Procs : q # p => call'[q] = call[q]) /\ Idle
  BY <1>1, EndDoes
<1>3. NoDoubt'
  <2>1. CASE ok
    BY <2>1 DEF End, DoubtAfter, Progress, NoDoubt
  <2>2. CASE ~ok
    BY <2>2 DEF NoDoubt
  <2> QED
    BY <2>1, <2>2
<1>4. GoesWell(call[p])'
  BY <1>2 DEF NoCall, GoesWell, Reads, Remakes, Restores, RestartOps
<1>5. ASSUME NEW q \in Procs, q # p PROVE GoesWell(call[q])'
  BY <1>2, <1>5 DEF Progress, GoesWell, Smooth, Idle, Up, Running, Exists
<1> QED
  BY <1>3, <1>4, <1>5 DEF Progress

LEMMA WorldProgress ==
  ASSUME EnvInv, Books, Progress, NEW v \in VMs, AgentWrites(v) \/ LateWrite(v) \/ Dies(v)
  PROVE  Progress'
<1>1. /\ UNCHANGED <<call, scratch, volume>> /\ Touches(v) /\ Running(v)
      /\ ctr'[v].binds = ctr[v].binds /\ ctr'[v].st # "none"
      /\ Faulty \/ doubt' = doubt
  BY WorldDoes DEF EnvInv, Stores, Gets, Stops, Alters, Running
<1>2. \/ /\ ctr'[v].st = ctr[v].st
         /\ ctr[v].env.ok => ctr'[v].env.ok
      \/ Faulty /\ \A p \in Procs : call[p].vm = v => ~call[p].sure
  <2>1. CASE \E f \in Files : Stores(v, f, "vcap")
    BY <2>1 DEF Stores, Alters
  <2>2. CASE \E S \in ctr[v].late : Gets(v, EnvOf(S), {})
    BY <2>2 DEF Gets, Alters, EnvOf
  <2> QED
    BY <2>1, <2>2, WorldDoes DEF EnvInv
<1>3. ASSUME NEW q \in Procs PROVE GoesWell(call[q])'
  <2> DEFINE c == call[q]
  <2>1. GoesWell(c) /\ call'[q] = c /\ Shape(c.op, c.pc, c.vm, c.disk)
    BY <1>1, Basics DEF Progress, EnvInv
  <2>2. CASE c.vm # v
    <3>1. c.vm \in VMs => ctr'[c.vm] = ctr[c.vm]
      BY <1>1, <2>2 DEF Touches
    <3> QED
      BY <1>1, <2>1, <3>1
      DEF GoesWell, Smooth, Up, Running, Exists, Shape, RestartOps, VmOps, DiskOps, Reads, Restores,
          Remakes
  <2>3. CASE c.vm = v
    BY <1>1, <1>2, <2>1, <2>3 DEF GoesWell, Smooth, Up, Running, Exists
  <2> QED
    BY <2>2, <2>3
<1>4. NoDoubt'
  BY <1>1 DEF Progress, NoDoubt
<1> QED
  BY <1>3, <1>4 DEF Progress

LEMMA InitProgress == Init => Progress
<1> SUFFICES ASSUME Init PROVE Progress
  OBVIOUS
<1>1. call = [p \in Procs |-> NoCall] /\ doubt = {}
  BY DEF Init, DirectorInit
<1>2. GoesWell(NoCall)
  BY DEF NoCall, GoesWell, Reads, Remakes, Restores, RestartOps
<1> QED
  BY <1>1, <1>2 DEF Progress, NoDoubt

LEMMA NextProgress ==
  ASSUME Disciplined
  PROVE  EnvInv /\ Books /\ Success /\ Progress /\ [Next]_vars => Progress'
<1> SUFFICES ASSUME EnvInv, Books, Success, Progress, [Next]_vars PROVE Progress'
  OBVIOUS
<1>1. ASSUME NEW p \in Procs, Begins(p) PROVE Progress'
  BY <1>1, BeginsProgress
<1>2. ASSUME NEW p \in Procs, CallStep(p) PROVE Progress'
  <2>1. CASE CallActs(p)
    BY <2>1, StepProgress
  <2>2. CASE Return(p)
    <3>1. At(p, "err") => Faulty
      BY DEF Progress, GoesWell, Smooth, At
    <3> QED
      BY <2>2, <3>1, EndProgress DEF Return, At
  <2> QED
    BY <1>2, <2>1, <2>2 DEF CallStep, CallActs
<1>3. ASSUME NEW p \in Procs, Crash(p) PROVE Progress'
  BY <1>3, EndProgress DEF Crash, Faults
<1>4. ASSUME NEW v \in VMs, AgentWrites(v) \/ LateWrite(v) \/ Dies(v) PROVE Progress'
  BY <1>4, WorldProgress
<1>5. CASE UNCHANGED vars
  <2>1. Idle /\ UNCHANGED <<call, doubt>>
    BY <1>5 DEF vars, engine, director, Idle
  <2> QED
    BY <2>1 DEF Progress, NoDoubt, Idle, GoesWell, Smooth, Up, Running, Exists
<1> QED
  BY <1>1, <1>2, <1>3, <1>4, <1>5 DEF Next

LEMMA KeepsProgress ==
  ASSUME Disciplined PROVE Spec => [](EnvInv /\ Books /\ Success /\ Progress)
<1>1. Init => EnvInv /\ Books /\ Success /\ Progress
  BY InitEnv, InitBook, InitSuccess, InitProgress
<1>2. EnvInv /\ Books /\ Success /\ Progress /\ [Next]_vars
        => (EnvInv /\ Books /\ Success /\ Progress)'
  BY NextEnv, NextBook, NextSuccess, NextProgress
<1> QED
  BY <1>1, <1>2, PTL DEF Spec

\* A call that is Able when it begins, and around which nothing fails, succeeds,
\* whatever fails meanwhile around other calls.  Able asks nothing of a delete_vm,
\* which so succeeds on whatever the calls before it left behind when they failed.
\* It asks of an attach or a detach that the VM runs with an agent env that parses,
\* that the volume is there and, to attach it, that the VM does not mount it yet; of
\* a create_disk that its VM exists; of a delete_disk that no container has the disk.
THEOREM CallsDoRecover == ASSUME Disciplined PROVE Spec => []CallsRecover
<1>1. Progress => CallsRecover
  BY DEF Progress, GoesWell, Smooth, CallsRecover
<1> QED
  BY <1>1, KeepsProgress, PTL

\* On a machine where nothing fails no call of a disciplined Director does, in
\* whatever order it makes them and however they are interleaved.
THEOREM HealthyNeverFails == ASSUME Disciplined, ~Faulty PROVE Spec => []NothingFails
<1>1. Progress => NothingFails
  BY DEF Progress, GoesWell, Smooth, NothingFails
<1> QED
  BY <1>1, KeepsProgress, PTL

-----------------------------------------------------------------------------
(* FilesSafe.                                                              *)

LEMMA StoresPresent ==
  ASSUME TypeInv, NEW v \in VMs, NEW f, NEW g \in {"root", "vcap"}, Stores(v, f, g)
  PROVE  Present(v)' = Present(v) \cup ({f} \cap Files)
<1>1. ctr[v].files \in [Files -> {"absent", "root", "vcap"}]
  BY Basics DEF TypeInv, TypeOK, EngineTypeOK, Containers
<1> DEFINE F == ctr[v].files
           F1 == ctr'[v].files
<1>2. F1 = [F EXCEPT ![f] = g]
  BY DEF Stores, Alters
<1>3. \A x \in Files : F1[x] = IF x = f THEN g ELSE F[x]
  BY <1>1, <1>2
<1>4. Present(v) = {x \in Files : F[x] # "absent"} /\ Present(v)' = {x \in Files : F1[x] # "absent"}
  BY DEF Present
<1> QED
  BY <1>3, <1>4

LEMMA FilesFrame ==
  ASSUME EnvInv, Books, FilesSafe, NEW p \in Procs, Local(p), FilesFollow(call[p])'
  PROVE  FilesSafe'
<1>1. Moves1(p)
  BY DEF Local
<1>2. ASSUME NEW q \in Procs, q # p PROVE FilesFollow(call[q])'
  <2> DEFINE c == call[q]
  <2>1. FilesFollow(c) /\ call'[q] = c /\ Shape(c.op, c.pc, c.vm, c.disk)
    BY <1>1, <1>2, Others, Basics DEF FilesSafe, EnvInv
  <2>2. c.vm \in VMs => ctr'[c.vm] = ctr[c.vm]
    BY <1>1, <1>2, Others DEF Local, Touches
  <2>3. c.op \in RestartOps => c.vm \in VMs
    BY <2>1 DEF Shape, RestartOps, VmOps
  <2>4. c.op \in RestartOps => Present(c.vm)' = Present(c.vm)
    BY <2>1, <2>2, <2>3 DEF Present
  <2> QED
    BY <2>1, <2>4 DEF FilesFollow, Present
<1> QED
  BY <1>2 DEF FilesSafe

LEMMA RestartFiles ==
  ASSUME EnvInv, Books, Progress, FilesSafe, NEW p \in Procs, CallActs(p),
         call[p].op \in RestartOps, ~Faulty
  PROVE  FilesFollow(call[p])'
<1> DEFINE c == call[p]
           N == call'[p].pc
           G == call'[p].got
           P == Present(c.vm)
           P1 == {f \in Files : ctr'[c.vm].files[f] # "absent"}
           Follow == /\ N \in {"exists", "fetch", "settings", "records", "chgrp", "ok"} => c.had \subseteq P1
                     /\ N = "records" => c.had \cap {"settings"} \subseteq G
                     /\ N \in {"inspect"} \cup Remakes \cup Builds => c.had \subseteq G
                     /\ N = "upload" => c.had \subseteq G \cup P1
<1>1. /\ GoesWell(c) /\ TypeInv /\ Smooth(c) /\ c.vm \in VMs /\ FilesFollow(c)
      /\ c.had \subseteq Files /\ Files \subseteq {"settings", "records"} /\ c.got \subseteq Files
  BY BookFacts, Basics, FilesAssumption
  DEF Progress, Smooth, Shape, RestartOps, VmOps, Calls, FilesSafe
<1>2. /\ c.pc \in {"exists", "fetch", "settings", "records", "chgrp", "ok"} => c.had \subseteq P
      /\ c.pc = "records" => c.had \cap {"settings"} \subseteq c.got
      /\ c.pc \in {"inspect"} \cup Remakes \cup Builds => c.had \subseteq c.got
      /\ c.pc = "upload" => c.had \subseteq c.got \cup P
      /\ c.pc \in Reads => Running(c.vm)
      /\ ~c.failed
  BY <1>1 DEF FilesFollow, GoesWell
<1> SUFFICES Follow
  <2>1. call'[p].op = c.op /\ call'[p].vm = c.vm /\ call'[p].had = c.had
    BY StepIsLocal, SureStays DEF Local, Moves1
  <2> QED
    BY <2>1 DEF FilesFollow, Present
<1> HIDE DEF P
<1>3. Idle => P1 = P
  BY DEF Idle, P, Present
<1>4. ASSUME NEW f, NEW g \in {"root", "vcap"}, Stores(c.vm, f, g)
      PROVE  P1 = P \cup ({f} \cap Files)
  <2>1. PICK v \in VMs : v = c.vm
    BY <1>1
  <2>2. Present(v)' = P1 /\ Present(v) = P
    BY <2>1 DEF Present, P
  <2>3. Stores(v, f, g)
    BY <1>4, <2>1
  <2> QED
    BY <1>1, <2>2, <2>3, StoresPresent
<1> HIDE DEF P1
<1> USE DEF Reads, Remakes, Builds, Restores
<1>5. CASE N = "err"
  BY <1>5
<1>6. CASE CheckExists(p) \/ Fetch(p)
  <2>1. c.pc \in {"exists", "fetch"} /\ Idle /\ N \in {"fetch", "settings", "err"}
    BY <1>1, <1>6, CheckExistsDoes, FetchDoes DEF Goes, Takes, Ends
  <2> QED
    BY <1>2, <1>3, <2>1
<1>7. CASE DownloadSettings(p)
  <2>1. /\ c.pc = "settings" /\ Idle /\ N = "records"
        /\ "settings" \in G \/ "settings" \notin P
    BY <1>1, <1>2, <1>7, DownloadDoes DEF DownloadSettings, Goes, Takes, At, P
  <2> QED
    BY <1>2, <1>3, <2>1
<1>8. CASE DownloadRecords(p)
  <2>1. /\ c.pc = "records" /\ Idle /\ N = "inspect" /\ c.got \subseteq G
        /\ "records" \in G \/ "records" \notin P
    BY <1>1, <1>2, <1>8, DownloadDoes DEF DownloadRecords, Goes, Takes, At, P
  <2> QED
    BY <1>1, <1>2, <2>1
<1>9. CASE Inspect(p) \/ DeleteExists(p) \/ Kill(p) \/ Remove(p)
  <2>1. /\ c.pc \in {"inspect"} \cup Remakes
        /\ N = "err" \/ (N \in Remakes /\ G = c.got)
    BY <1>1, <1>9, InspectDoes, DeleteExistsDoes, KillDoes, RemoveDoes DEF Goes, Takes, Ends
  <2> QED
    BY <1>2, <2>1
<1>10. CASE RemoveScratch(p) \/ FindNode(p)
  <2>1. /\ c.pc \in {"inspect"} \cup Remakes
        /\ N = "err" \/ (N \in Remakes /\ G = c.got)
    BY <1>1, <1>10, RemoveScratchDoes, FindNodeDoes DEF Goes, Takes, Ends, RestartOps
  <2> QED
    BY <1>2, <2>1
<1>11. CASE Recreate(p)
  <2>1. c.pc = "create"
    BY <1>11 DEF Recreate, CreateStep, At
  <2>2. N = "err" \/ (N \in Builds /\ G = c.got)
    BY <1>1, <1>11, <2>1, RecreateBinds, CreateDoes DEF Recreate, Takes, Ends
  <2> QED
    BY <1>2, <2>1, <2>2
<1>12. CASE Reconnect(p) \/ Restart(p)
  <2>1. /\ c.pc \in Builds
        /\ N = "err" \/ (N \in Builds \cup Remakes /\ G = c.got)
    BY <1>1, <1>12, ConnectDoes, RestartDoes DEF Reconnect, Goes, Takes, Ends
  <2> QED
    BY <1>2, <2>1
<1>13. CASE UpdateEnv(p)
  <2>1. c.pc = "update" /\ (N = "err" \/ (N = "ok" /\ c.got = {}) \/ (N = "upload" /\ G = c.got))
    BY <1>1, <1>13, UpdateDoes, UploadOrDoes DEF Takes, Ends
  <2> QED
    BY <1>2, <2>1
<1>14. CASE Upload(p)
  <2> DEFINE f == IF "settings" \in c.got THEN "settings" ELSE "records"
  <2>1. /\ c.pc = "upload"
        /\ \/ N = "err"
           \/ /\ Stores(c.vm, f, "root")
              /\ \/ f = "records" /\ N = "chgrp"
                 \/ N = "ok" /\ c.got \ {f} = {}
                 \/ N = "upload" /\ G = c.got \ {f}
    <3>1. /\ c.pc = "upload"
          /\ \/ N = "err"
             \/ /\ Stores(c.vm, f, "root")
                /\ \/ f = "records" /\ N = "chgrp"
                   \/ UploadOr(p, c.got \ {f})
      BY <1>1, <1>14, UploadDoes DEF Takes, Ends
    <3>2. UploadOr(p, c.got \ {f}) => (N = "ok" /\ c.got \ {f} = {}) \/ (N = "upload" /\ G = c.got \ {f})
      BY <1>1, UploadOrDoes DEF Takes, Ends
    <3> QED
      BY <3>1, <3>2
  <2>2. Stores(c.vm, f, "root") => P1 = P \cup ({f} \cap Files)
    BY <1>4
  <2>3. f = "records" => "settings" \notin c.got
    OBVIOUS
  <2> HIDE DEF f
  <2> QED
    BY <1>1, <1>2, <2>1, <2>2, <2>3
<1>15. CASE Chgrp(p)
  <2>1. /\ c.pc = "chgrp" /\ N \in {"ok", "err"}
        /\ Idle \/ Stores(c.vm, "records", "vcap")
    BY <1>1, <1>15, ChgrpDoes DEF Ends
  <2>2. P \subseteq P1
    BY <1>3, <1>4, <2>1
  <2> QED
    BY <1>2, <2>1, <2>2
<1> QED
  BY <1>1, <1>6, <1>7, <1>8, <1>9, <1>10, <1>11, <1>12, <1>13, <1>14, <1>15, WhoseStep
  DEF CallActs, ContainerStep, FactoryStep, DiskStep, RestartOps

LEMMA StepFiles ==
  ASSUME EnvInv, Books, Progress, FilesSafe, NEW p \in Procs, CallActs(p)
  PROVE  FilesSafe'
<1>1. Local(p)
  BY StepIsLocal
<1>2. CASE call[p].op \in RestartOps /\ ~Faulty
  BY <1>1, <1>2, RestartFiles, FilesFrame
<1>3. CASE ~(call[p].op \in RestartOps /\ ~Faulty)
  <2>1. FilesFollow(call[p])'
    BY <1>1, <1>3 DEF FilesFollow, Local, Moves1
  <2> QED
    BY <1>1, <2>1, FilesFrame
<1> QED
  BY <1>2, <1>3

LEMMA BeginsFiles ==
  ASSUME Disciplined, EnvInv, FilesSafe, NEW p \in Procs, Begins(p)
  PROVE  FilesSafe'
<1>1. TypeInv /\ None \notin VMs
  BY CidAssumption DEF EnvInv
<1>2. PICK op, pc : \E v \in VMs \cup {None}, d \in Disks \cup {None} : Opens(p, op, pc, v, d)
  BY <1>1, BeginsDo
<1>3. PICK v \in VMs \cup {None}, d \in Disks \cup {None} : Opens(p, op, pc, v, d)
  BY <1>2
<1>4. /\ call'[p].op = op /\ call'[p].pc = pc /\ call'[p].vm = v /\ Idle
      /\ call'[p].had = (IF v = None THEN {} ELSE Present(v))
      /\ op \in RestartOps => pc = "exists" /\ v \in VMs
      /\ \A q \in Procs : q # p => call'[q] = call[q]
  BY <1>3 DEF Opens, Begun, engine, Idle, RestartOps, VmOps
<1>5. FilesFollow(call[p])'
  BY <1>1, <1>4 DEF FilesFollow, Remakes, Builds, Idle, Present
<1>6. ASSUME NEW q \in Procs, q # p PROVE FilesFollow(call[q])'
  BY <1>4, <1>6 DEF FilesSafe, FilesFollow, Idle, Present
<1> QED
  BY <1>5, <1>6 DEF FilesSafe

LEMMA EndFiles ==
  ASSUME EnvInv, FilesSafe, NEW p \in Procs, NEW ok \in BOOLEAN, End(p, ok), ~At(p, "idle")
  PROVE  FilesSafe'
<1>1. TypeInv /\ call[p].op # "none"
  BY Basics DEF EnvInv, Shape, At
<1>2. call'[p] = NoCall /\ (\A q \in Procs : q # p => call'[q] = call[q]) /\ Idle
  BY <1>1, EndDoes
<1>3. FilesFollow(call[p])'
  BY <1>2 DEF NoCall, FilesFollow, RestartOps
<1>4. ASSUME NEW q \in Procs, q # p PROVE FilesFollow(call[q])'
  BY <1>2, <1>4 DEF FilesSafe, FilesFollow, Idle, Present
<1> QED
  BY <1>3, <1>4 DEF FilesSafe

LEMMA WorldFiles ==
  ASSUME EnvInv, FilesSafe, NEW v \in VMs, AgentWrites(v) \/ LateWrite(v) \/ Dies(v)
  PROVE  FilesSafe'
<1>1. UNCHANGED call /\ Touches(v) /\ TypeInv
  BY WorldDoes DEF EnvInv, Stores, Gets, Stops, Alters
<1>2. Present(v) \subseteq Present(v)'
  <2>1. CASE \E f \in Files : Stores(v, f, "vcap")
    BY <1>1, <2>1, StoresPresent
  <2>2. CASE ctr'[v].files = ctr[v].files
    BY <2>2 DEF Present
  <2> QED
    BY <2>1, <2>2, WorldDoes DEF EnvInv, Gets, Stops, Alters
<1>3. ASSUME NEW q \in Procs PROVE FilesFollow(call[q])'
  <2> DEFINE c == call[q]
  <2>1. FilesFollow(c) /\ call'[q] = c /\ (c.op \in RestartOps => c.vm \in VMs)
    BY <1>1, Basics DEF FilesSafe, EnvInv, Shape, RestartOps, VmOps
  <2>2. \A w \in VMs : Present(w) \subseteq Present(w)'
    BY <1>1, <1>2 DEF Touches, Present
  <2>3. \A w \in VMs : w = c.vm => Present(w) = Present(c.vm) /\ Present(w)' = Present(call[q].vm)'
    BY <2>1 DEF Present
  <2>4. c.op \in RestartOps => Present(c.vm) \subseteq Present(call[q].vm)'
    BY <2>1, <2>2, <2>3
  <2> QED
    BY <2>1, <2>4 DEF FilesFollow
<1> QED
  BY <1>3 DEF FilesSafe

LEMMA InitFiles == Init => FilesSafe
BY DEF Init, DirectorInit, NoCall, FilesSafe, FilesFollow, RestartOps

LEMMA NextFiles ==
  ASSUME Disciplined
  PROVE  EnvInv /\ Books /\ Progress /\ FilesSafe /\ [Next]_vars => FilesSafe'
<1> SUFFICES ASSUME EnvInv, Books, Progress, FilesSafe, [Next]_vars PROVE FilesSafe'
  OBVIOUS
<1>1. ASSUME NEW p \in Procs, Begins(p) PROVE FilesSafe'
  BY <1>1, BeginsFiles
<1>2. ASSUME NEW p \in Procs, CallStep(p) PROVE FilesSafe'
  BY <1>2, StepFiles, EndFiles DEF CallStep, CallActs, Return, At
<1>3. ASSUME NEW p \in Procs, Crash(p) PROVE FilesSafe'
  BY <1>3, EndFiles DEF Crash
<1>4. ASSUME NEW v \in VMs, AgentWrites(v) \/ LateWrite(v) \/ Dies(v) PROVE FilesSafe'
  BY <1>4, WorldFiles
<1>5. CASE UNCHANGED vars
  BY <1>5 DEF vars, engine, FilesSafe, FilesFollow, Present
<1> QED
  BY <1>1, <1>2, <1>3, <1>4, <1>5 DEF Next

\* A restart loses the container's filesystem.  On a machine where nothing fails
\* the settings and the DNS records that were in the VM when the call began are
\* back in it when the call succeeds, in whatever order the agent writes them and
\* the call reads them.
THEOREM FilesAreKept == ASSUME Disciplined, ~Faulty PROVE Spec => []FilesKept
<1>1. Init => FilesSafe
  BY InitFiles
<1>2. EnvInv /\ Books /\ Success /\ Progress /\ FilesSafe /\ [Next]_vars => FilesSafe'
  BY NextFiles
<1>3. FilesSafe => FilesKept
  BY DEF FilesSafe, FilesFollow, FilesKept, Restarts, RestartOps, VM
<1> QED
  BY <1>1, <1>2, <1>3, KeepsProgress, PTL DEF Spec
=============================================================================
