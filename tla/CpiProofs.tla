------------------------------ MODULE CpiProofs ------------------------------
(***************************************************************************)
(* Theorems about Cpi for every number of VMs, disks, networks and calls:  *)
(* its types, and, with a disciplined Director, that an agent env that     *)
(* parses lists exactly the disks that are mounted, whatever fails.        *)
(***************************************************************************)
EXTENDS CpiInvariant, TLAPS

-----------------------------------------------------------------------------
(* Types.                                                                  *)

\* The effect of an API call on one container keeps the engine's types.
LEMMA SetCtrType ==
  ASSUME EngineTypeOK, NEW v \in VMs, NEW c \in Containers, SetCtr(v, c)
  PROVE  EngineTypeOK'
BY DEF EngineTypeOK, SetCtr

\* So does every effect.
LEMMA EffectsType ==
  ASSUME EngineTypeOK, NEW v \in VMs
  PROVE  /\ \A B \in SUBSET Disks, N \in SUBSET Nets : CtrCreate(v, B, N) => EngineTypeOK'
         /\ \A n \in Nets : NetConnect(v, n) => EngineTypeOK'
         /\ CtrStart(v) => EngineTypeOK'
         /\ CtrStop(v) => EngineTypeOK'
         /\ CtrRemove(v) => EngineTypeOK'
         /\ \A S \in SUBSET Disks : PutEnv(v, EnvOf(S)) => EngineTypeOK'
         /\ PutEnv(v, NoEnv) => EngineTypeOK'
         /\ \A S \in SUBSET Disks : PutLate(v, S) => EngineTypeOK'
         /\ \A f, g : g \in {"root", "vcap"} /\ PutFile(v, f, g) => EngineTypeOK'
         /\ ScratchRemove(v) => EngineTypeOK'
         /\ UNCHANGED engine => EngineTypeOK'
<1> USE DEF Containers, NoContainer, NoEnv, EnvOf
<1> ctr[v] \in Containers
  BY DEF EngineTypeOK
<1>1. \A B \in SUBSET Disks, N \in SUBSET Nets : CtrCreate(v, B, N) => EngineTypeOK'
  <2> SUFFICES ASSUME NEW B \in SUBSET Disks, NEW N \in SUBSET Nets, CtrCreate(v, B, N)
               PROVE  EngineTypeOK'
    OBVIOUS
  <2>1. [NoContainer EXCEPT !.st = "created", !.binds = B, !.nets = N] \in Containers
    OBVIOUS
  <2> HIDE DEF Containers, NoContainer
  <2>2. ctr' \in [VMs -> Containers]
    BY <2>1 DEF EngineTypeOK, CtrCreate
  <2>3. scratch' \in SUBSET VMs /\ volume' \in [Disks -> {"none", "made", "blank"}]
    BY DEF EngineTypeOK, CtrCreate
  <2> QED
    BY <2>2, <2>3 DEF EngineTypeOK
<1>2. \A n \in Nets : NetConnect(v, n) => EngineTypeOK'
  BY SetCtrType DEF NetConnect
<1>3. CtrStart(v) => EngineTypeOK'
  BY SetCtrType DEF CtrStart
<1>4. CtrStop(v) => EngineTypeOK'
  BY SetCtrType DEF CtrStop
<1>5. CtrRemove(v) => EngineTypeOK'
  BY SetCtrType DEF CtrRemove
<1>6. \A S \in SUBSET Disks : PutEnv(v, EnvOf(S)) => EngineTypeOK'
  BY SetCtrType DEF PutEnv
<1>7. PutEnv(v, NoEnv) => EngineTypeOK'
  BY SetCtrType DEF PutEnv
<1>8. \A f, g : g \in {"root", "vcap"} /\ PutFile(v, f, g) => EngineTypeOK'
  BY SetCtrType DEF PutFile
<1>9. ScratchRemove(v) => EngineTypeOK'
  BY DEF EngineTypeOK, ScratchRemove
<1>10. UNCHANGED engine => EngineTypeOK'
  BY DEF EngineTypeOK, engine
<1>11. \A S \in SUBSET Disks : PutLate(v, S) => EngineTypeOK'
  BY SetCtrType DEF PutLate
<1> QED
  BY <1>1, <1>2, <1>3, <1>4, <1>5, <1>6, <1>7, <1>8, <1>9, <1>10, <1>11

\* The step of a call: it becomes another call of the right shape.
Moved(p) ==
  /\ call'[p] \in Calls /\ Shaped(call'[p])
  /\ call' = [call EXCEPT ![p] = call'[p]]
  /\ UNCHANGED director

LEMMA MovedType ==
  ASSUME TypeInv, NEW p \in Procs, Moved(p), EngineTypeOK'
  PROVE  TypeInv'
<1>1. DirectorTypeOK'
  BY DEF TypeInv, TypeOK, DirectorTypeOK, Moved, director
<1>2. CallsShaped'
  BY DEF TypeInv, TypeOK, DirectorTypeOK, CallsShaped, Moved, Shaped
<1> QED
  BY <1>1, <1>2 DEF TypeInv, TypeOK

LEMMA NoTries == 0 \in 0..MaxKills
BY MaxKillsAssumption

LEMMA NoCallType == NoCall \in Calls
BY NoTries DEF Calls, NoCall, Pcs

\* What a call becomes, for the ways the actions say it.
LEMMA Moves ==
  ASSUME TypeInv, NEW p \in Procs
  PROVE  /\ call[p] \in Calls /\ Shaped(call[p])
         /\ \A c \in Calls : Shaped(c) /\ Become(p, c) => Moved(p)
         /\ \A pc \in Pcs \ {"idle"} :
              /\ Shape(call[p].op, pc, call[p].vm, call[p].disk)
              /\ Goto(p, pc)
              => Moved(p)
         /\ call[p].op # "none" /\ (Done(p) \/ Fail(p)) => Moved(p)
         /\ call[p].op \in QueryOps /\ (Finish(p, "yes") \/ Finish(p, "no")) => Moved(p)
<1>1. call[p] \in Calls /\ Shaped(call[p])
  BY DEF TypeInv, TypeOK, DirectorTypeOK, CallsShaped
<1>2. \A c \in Calls : Shaped(c) /\ Become(p, c) => Moved(p)
  BY DEF TypeInv, TypeOK, DirectorTypeOK, Become, Moved
<1>3. ASSUME NEW pc \in Pcs \ {"idle"}, Goto(p, pc),
             Shape(call[p].op, pc, call[p].vm, call[p].disk)
      PROVE  Moved(p)
  <2> DEFINE c == [call[p] EXCEPT !.pc = pc]
  <2>1. c \in Calls
    BY <1>1 DEF Calls
  <2>2. Shaped(c)
    BY <1>1, <1>3 DEF Shaped, Calls
  <2> QED
    BY <1>2, <1>3, <2>1, <2>2 DEF Goto
<1>4. ASSUME NEW pc \in {"ok", "err", "yes", "no"}, call[p].op # "none", Finish(p, pc),
             pc \in {"yes", "no"} => call[p].op \in QueryOps
      PROVE  Moved(p)
  <2> DEFINE c == [NoCall EXCEPT !.op = call[p].op, !.pc = pc, !.vm = call[p].vm,
                                 !.disk = call[p].disk, !.had = call[p].had,
                                 !.sure = pc = "err" /\ call[p].sure]
  <2>1. c \in Calls
    <3>1. pc \in Pcs
      BY <1>4 DEF Pcs
    <3> QED
      BY <1>1, <3>1, NoCallType DEF Calls
  <2>2. Shaped(c)
    BY <1>1, <1>4 DEF Shaped, Shape, NoCall
  <2>3. Become(p, c)
    BY <1>4 DEF Finish
  <2> QED
    BY <1>2, <2>1, <2>2, <2>3
<1> QED
  BY <1>1, <1>2, <1>3, <1>4 DEF Done, Fail, QueryOps

\* The steps that attach_disk, detach_disk and create_vm share.
LEMMA CreateStepType ==
  ASSUME TypeInv, NEW p \in Procs, NEW B \in SUBSET Disks, NEW clash \in BOOLEAN,
         CreateStep(p, B, clash)
  PROVE  EngineTypeOK' /\ Moved(p)
<1> DEFINE c == call[p]
<1>1. c \in Calls /\ Shape(c.op, c.pc, c.vm, c.disk) /\ EngineTypeOK
  BY Moves DEF TypeInv, TypeOK, Shaped
<1>2. UNCHANGED engine => EngineTypeOK'
  BY <1>1 DEF EngineTypeOK, engine
<1>3. c.op # "none" /\ c.vm \in VMs /\ c.nets \in SUBSET Nets
  BY <1>1 DEF CreateStep, At, Shape, Calls, RestartOps, VmOps
<1>4. PICK first \in SplitNetworks(c.nets) :
       \/ CtrCreate(c.vm, B, first) /\ Become(p, [c EXCEPT !.pc = IF c.nets = first THEN "start" ELSE "connect",
                                                           !.left = c.nets \ first, !.binds = {}, !.nets = {}])
       \/ UNCHANGED engine /\ Fail(p)
       \/ CtrCreate(c.vm, B, first) /\ Fail(p)
  BY DEF CreateStep, Fault
<1>5. first \in SUBSET Nets
  BY <1>3 DEF SplitNetworks
<1> DEFINE d == [c EXCEPT !.pc = IF c.nets = first THEN "start" ELSE "connect",
                          !.left = c.nets \ first, !.binds = {}, !.nets = {}]
<1>6. d \in Calls /\ Shaped(d)
  <2>1. d \in Calls
    <3>1. d.pc \in Pcs
      BY <1>1 DEF Pcs, Calls
    <3> QED
      BY <1>1, <1>3, <3>1 DEF Calls
  <2>2. d.op = c.op /\ d.vm = c.vm /\ d.disk = c.disk /\ d.pc \in {"start", "connect"}
    BY <1>1 DEF Calls
  <2>3. c.pc \in {"create", "connect"}
    BY DEF CreateStep, At
  <2> HIDE DEF d
  <2> QED
    BY <1>1, <2>1, <2>2, <2>3 DEF Shape, Shaped
<1>7. EngineTypeOK'
  BY <1>1, <1>2, <1>3, <1>4, <1>5, EffectsType DEF Fault
<1>8. Moved(p)
  <2>1. CASE Fail(p)
    BY <1>1, <1>3, <2>1, Moves
  <2>2. CASE Become(p, d)
    <3> HIDE DEF c, d
    <3> QED
      BY <1>6, <2>2, Moves
  <2> QED
    BY <1>4, <2>1, <2>2
<1> QED
  BY <1>7, <1>8

LEMMA ConnectStepType ==
  ASSUME TypeInv, NEW p \in Procs, ConnectStep(p)
  PROVE  EngineTypeOK' /\ Moved(p)
<1> DEFINE c == call[p]
<1>1. c \in Calls /\ Shape(c.op, c.pc, c.vm, c.disk) /\ EngineTypeOK
  BY Moves DEF TypeInv, TypeOK, Shaped
<1>2. UNCHANGED engine => EngineTypeOK'
  BY <1>1 DEF EngineTypeOK, engine
<1>3. c.op # "none" /\ c.vm \in VMs /\ c.left \in SUBSET Nets
  BY <1>1 DEF ConnectStep, At, Shape, Calls, RestartOps, VmOps
<1>4. PICK n \in c.left :
       \/ NetConnect(c.vm, n) /\ Become(p, [c EXCEPT !.pc = IF c.left = {n} THEN "start" ELSE "connect",
                                                     !.left = @ \ {n}])
       \/ UNCHANGED engine /\ Fail(p)
       \/ NetConnect(c.vm, n) /\ Fail(p)
  BY DEF ConnectStep, Fault
<1> DEFINE d == [c EXCEPT !.pc = IF c.left = {n} THEN "start" ELSE "connect",
                          !.left = @ \ {n}]
<1>5. d \in Calls /\ Shaped(d)
  <2>1. d \in Calls
    <3>1. d.pc \in Pcs
      BY <1>1 DEF Pcs, Calls
    <3> QED
      BY <1>1, <1>3, <3>1 DEF Calls
  <2>2. d.op = c.op /\ d.vm = c.vm /\ d.disk = c.disk /\ d.pc \in {"start", "connect"}
    BY <1>1 DEF Calls
  <2>3. c.pc \in {"create", "connect"}
    BY DEF ConnectStep, At
  <2> HIDE DEF d
  <2> QED
    BY <1>1, <2>1, <2>2, <2>3 DEF Shape, Shaped
<1>6. EngineTypeOK'
  BY <1>1, <1>2, <1>3, <1>4, EffectsType DEF Fault
<1>7. Moved(p)
  <2>1. CASE Fail(p)
    BY <1>1, <1>3, <2>1, Moves
  <2>2. CASE Become(p, d)
    <3> HIDE DEF c, d
    <3> QED
      BY <1>5, <2>2, Moves
  <2> QED
    BY <1>4, <2>1, <2>2
<1> QED
  BY <1>6, <1>7

\* The actions of vm/container.go keep the types.
LEMMA ContainerType ==
  ASSUME TypeInv, NEW p \in Procs, ContainerStep(p)
  PROVE  TypeInv'
<1> DEFINE c == call[p]
<1>1. c \in Calls /\ Shape(c.op, c.pc, c.vm, c.disk) /\ EngineTypeOK
  BY Moves DEF TypeInv, TypeOK, Shaped
<1>2. UNCHANGED engine => EngineTypeOK'
  BY <1>1 DEF EngineTypeOK, engine
<1>3. SUFFICES EngineTypeOK' /\ Moved(p)
  BY MovedType
<1> USE DEF At, VM, Fault
<1>4. CASE CheckExists(p)
  <2>1. EngineTypeOK'
    BY <1>1, <1>2, <1>4 DEF CheckExists
  <2>2. Moved(p)
    BY <1>1, <1>4, Moves DEF CheckExists, Shape, Pcs
  <2> QED
    BY <2>1, <2>2
<1>5. CASE Fetch(p)
  <2>1. EngineTypeOK'
    BY <1>1, <1>2, <1>5 DEF Fetch
  <2>2. Moved(p)
    <3>1. LET d == [c EXCEPT !.pc = "settings",
                      !.env = ChangeDisks(c.op, ctr[c.vm].env.disks, c.disk)]
         IN  d \in Calls /\ Shaped(d)
      <4>1. c.op \in RestartOps /\ c.vm \in VMs /\ c.disk \in Disks /\ c.pc = "fetch"
        BY <1>1, <1>5 DEF Fetch, Shape, RestartOps, VmOps
      <4>2. ctr[c.vm].env.disks \in SUBSET Disks
        BY <1>1, <4>1 DEF EngineTypeOK, Containers
      <4>3. ChangeDisks(c.op, ctr[c.vm].env.disks, c.disk) \in SUBSET Disks
        BY <4>1, <4>2 DEF ChangeDisks
      <4> QED
        BY <1>1, <4>1, <4>3 DEF Shape, Shaped, Calls, Pcs, RestartOps, VmOps, DiskOps
    <3> QED
      BY <1>1, <1>5, <3>1, Moves DEF Fetch, Shape, Pcs
  <2> QED
    BY <2>1, <2>2
<1>6. CASE DownloadSettings(p)
  <2>1. EngineTypeOK'
    BY <1>1, <1>2, <1>6 DEF DownloadSettings, Download
  <2>2. Moved(p)
    <3>1. "settings" \in Present(c.vm) =>
           LET d == [c EXCEPT !.pc = "records", !.got = @ \cup {"settings"}]
           IN  d \in Calls /\ Shaped(d)
      BY <1>1, <1>6 DEF DownloadSettings, Present, Shape, Shaped, Calls, Pcs, RestartOps, VmOps
    <3> QED
      BY <1>1, <1>6, <3>1, Moves DEF DownloadSettings, Download, Shape, Pcs
  <2> QED
    BY <2>1, <2>2
<1>7. CASE DownloadRecords(p)
  <2>1. EngineTypeOK'
    BY <1>1, <1>2, <1>7 DEF DownloadRecords, Download
  <2>2. Moved(p)
    <3>1. "records" \in Present(c.vm) =>
           LET d == [c EXCEPT !.pc = "inspect", !.got = @ \cup {"records"}]
           IN  d \in Calls /\ Shaped(d)
      BY <1>1, <1>7 DEF DownloadRecords, Present, Shape, Shaped, Calls, Pcs, RestartOps, VmOps
    <3> QED
      BY <1>1, <1>7, <3>1, Moves DEF DownloadRecords, Download, Shape, Pcs
  <2> QED
    BY <2>1, <2>2
<1>8. CASE Inspect(p)
  <2>1. EngineTypeOK'
    BY <1>1, <1>2, <1>8 DEF Inspect
  <2>2. Moved(p)
    <3>1. LET d == [c EXCEPT !.pc = "delExists", !.binds = ctr[c.vm].binds,
                      !.nets = ctr[c.vm].nets]
         IN  d \in Calls /\ Shaped(d)
      <4>1. c.op \in RestartOps /\ c.vm \in VMs /\ c.disk \in Disks /\ c.pc = "inspect"
        BY <1>1, <1>8 DEF Inspect, Shape, RestartOps, VmOps
      <4>2. ctr[c.vm].binds \in SUBSET Disks /\ ctr[c.vm].nets \in SUBSET Nets
        BY <1>1, <4>1 DEF EngineTypeOK, Containers
      <4> QED
        BY <1>1, <4>1, <4>2 DEF Shape, Shaped, Calls, Pcs, RestartOps, VmOps, DiskOps
    <3> QED
      BY <1>1, <1>8, <3>1, Moves DEF Inspect, Shape, Pcs
  <2> QED
    BY <2>1, <2>2
<1>9. CASE DeleteExists(p)
  <2>1. EngineTypeOK'
    BY <1>1, <1>2, <1>9 DEF DeleteExists
  <2>2. Moved(p)
    BY <1>1, <1>9, Moves DEF DeleteExists, Shape, Pcs, RestartOps
  <2> QED
    BY <2>1, <2>2
<1>10. CASE Kill(p)
  <2>1. EngineTypeOK'
    BY <1>1, <1>2, <1>10, EffectsType DEF Kill, Shape, RestartOps, VmOps
  <2>2. Moved(p)
    <3>1. LET d == [c EXCEPT !.pc = "remove", !.tries = 0]
         IN  d \in Calls /\ Shaped(d)
      BY <1>1, <1>10, NoTries, MaxKillsAssumption DEF Kill, Shape, Shaped, Calls, Pcs, RestartOps, VmOps
    <3>2. c.tries + 1 < MaxKills =>
           LET d == [c EXCEPT !.tries = @ + 1]
           IN  d \in Calls /\ Shaped(d)
      BY <1>1, <1>10, NoTries, MaxKillsAssumption DEF Kill, Shape, Shaped, Calls, Pcs, RestartOps, VmOps
    <3> QED
      BY <1>1, <1>10, <3>1, <3>2, Moves DEF Kill, KillFailed, Shape, Pcs
  <2> QED
    BY <2>1, <2>2
<1>11. CASE Remove(p)
  <2>1. EngineTypeOK'
    BY <1>1, <1>2, <1>11, EffectsType DEF Remove, Shape, RestartOps, VmOps
  <2>2. Moved(p)
    BY <1>1, <1>11, Moves DEF Remove, Shape, Pcs, RestartOps
  <2> QED
    BY <2>1, <2>2
<1>12. CASE RemoveScratch(p)
  <2>1. EngineTypeOK'
    BY <1>1, <1>2, <1>12, EffectsType DEF RemoveScratch, Shape, RestartOps, VmOps
  <2>2. Moved(p)
    BY <1>1, <1>12, Moves DEF RemoveScratch, DeleteDone, Shape, Pcs, RestartOps
  <2> QED
    BY <2>1, <2>2
<1>13. CASE FindNode(p)
  <2>1. EngineTypeOK'
    BY <1>1, <1>2, <1>13 DEF FindNode
  <2>2. Moved(p)
    BY <1>1, <1>13, Moves DEF FindNode, Shape, Pcs
  <2> QED
    BY <2>1, <2>2
<1>14. CASE Recreate(p)
  BY <1>1, <1>14, CreateStepType DEF Recreate, UpdateBinds, DuplicateBind, Calls, Shape, Restarts,
                                   RestartOps
<1>15. CASE Reconnect(p)
  BY <1>15, ConnectStepType DEF Reconnect
<1>16. CASE Restart(p)
  <2>1. EngineTypeOK'
    BY <1>1, <1>2, <1>16, EffectsType DEF Restart, StartStep, Shape, RestartOps, VmOps
  <2>2. Moved(p)
    <3>1. LET d == [c EXCEPT !.pc = "delExists", !.failed = TRUE]
         IN  d \in Calls /\ Shaped(d)
      BY <1>1, <1>16 DEF Restart, StartStep, Restarts, Shape, Shaped, Calls, Pcs, RestartOps, VmOps
    <3> QED
      BY <1>1, <1>16, <3>1, Moves DEF Restart, StartStep, Restarts, Shape, Pcs, RestartOps
  <2> QED
    BY <2>1, <2>2
<1>17. CASE UpdateEnv(p)
  <2>1. EngineTypeOK'
    BY <1>1, <1>2, <1>17, EffectsType DEF UpdateEnv, UpdateStep, Calls, Shape, RestartOps, VmOps
  <2>2. Moved(p)
    <3>1. LET d == [c EXCEPT !.pc = "upload", !.got = c.got]
         IN  d \in Calls /\ Shaped(d)
      BY <1>1, <1>17 DEF UpdateEnv, UpdateStep, Restarts, Shape, Shaped, Calls, Pcs, RestartOps, VmOps
    <3> QED
      BY <1>1, <1>17, <3>1, Moves DEF UpdateEnv, UpdateStep, UploadOr, Restarts, Shape
  <2> QED
    BY <2>1, <2>2
<1>18. CASE Upload(p)
  <2>1. EngineTypeOK'
    BY <1>1, <1>2, <1>18, EffectsType DEF Upload, Shape, RestartOps, VmOps
  <2>2. Moved(p)
    <3>1. LET d == [c EXCEPT !.pc = "chgrp", !.got = {}]
         IN  d \in Calls /\ Shaped(d)
      BY <1>1, <1>18 DEF Upload, Shape, Shaped, Calls, Pcs, RestartOps, VmOps
    <3>2. ASSUME NEW f
          PROVE  LET d == [c EXCEPT !.pc = "upload", !.got = c.got \ {f}]
                 IN  d \in Calls /\ Shaped(d)
      <4> DEFINE d == [c EXCEPT !.pc = "upload", !.got = c.got \ {f}]
      <4>1. d \in Calls
        BY <1>1, <1>18 DEF Upload, Calls, Pcs
      <4>2. d.op = c.op /\ d.pc = "upload" /\ d.vm = c.vm /\ d.disk = c.disk
        BY <1>1 DEF Calls
      <4>3. Shaped(d)
        BY <1>1, <1>18, <4>2 DEF Upload, Shape, Shaped, RestartOps, VmOps
      <4> QED
        BY <4>1, <4>3
    <3> QED
      BY <1>1, <1>18, <3>1, <3>2, Moves DEF Upload, UploadOr, Shape, RestartOps
  <2> QED
    BY <2>1, <2>2
<1>19. CASE Chgrp(p)
  <2>1. EngineTypeOK'
    BY <1>1, <1>2, <1>19, EffectsType DEF Chgrp, Present, Shape, RestartOps, VmOps
  <2>2. Moved(p)
    BY <1>1, <1>19, Moves DEF Chgrp, Shape, RestartOps
  <2> QED
    BY <2>1, <2>2
<1>20. CASE HasVM(p)
  <2>1. EngineTypeOK'
    BY <1>1, <1>2, <1>20 DEF HasVM
  <2>2. Moved(p)
    BY <1>1, <1>20, Moves DEF HasVM, Shape, QueryOps
  <2> QED
    BY <2>1, <2>2
<1> QED
  BY <1>3, <1>4, <1>5, <1>6, <1>7, <1>8, <1>9, <1>10, <1>11, <1>12, <1>13, <1>14, <1>15, <1>16,
     <1>17, <1>18, <1>19, <1>20 DEF ContainerStep

\* Those of vm/factory.go and of the disks.
LEMMA FactoryType ==
  ASSUME TypeInv, NEW p \in Procs, FactoryStep(p)
  PROVE  TypeInv'
<1> DEFINE c == call[p]
<1>1. c \in Calls /\ Shape(c.op, c.pc, c.vm, c.disk) /\ EngineTypeOK
  BY Moves DEF TypeInv, TypeOK, Shaped
<1>2. UNCHANGED engine => EngineTypeOK'
  BY <1>1 DEF EngineTypeOK, engine
<1>3. SUFFICES EngineTypeOK' /\ Moved(p)
  BY MovedType
<1> USE DEF At, VM, Fault
<1>4. CASE Prepare(p)
  <2>1. asked[c.vm] \in SUBSET Nets
    BY <1>1, <1>4 DEF Prepare, TypeInv, TypeOK, DirectorTypeOK, Shape, VmOps
  <2>2. LET d == [c EXCEPT !.pc = "create", !.nets = asked[c.vm]]
        IN  d \in Calls /\ Shaped(d)
    BY <1>1, <1>4, <2>1 DEF Prepare, Shape, Shaped, Calls, Pcs
  <2> QED
    BY <1>1, <1>2, <1>4, <2>2, Moves DEF Prepare, Shape
<1>5. CASE CreateContainer(p)
  BY <1>5, CreateStepType DEF CreateContainer
<1>6. CASE ConnectNetwork(p)
  BY <1>6, ConnectStepType DEF ConnectNetwork
<1>7. CASE StartContainer(p)
  <2>1. EngineTypeOK'
    BY <1>1, <1>2, <1>7, EffectsType DEF StartContainer, StartStep, Shape, RestartOps, VmOps
  <2>2. Moved(p)
    BY <1>1, <1>7, Moves DEF StartContainer, Creates, StartStep, Shape, Pcs
  <2> QED
    BY <2>1, <2>2
<1>8. CASE WriteAgentEnv(p)
  <2>1. EngineTypeOK'
    BY <1>1, <1>2, <1>8, EffectsType
    DEF WriteAgentEnv, UpdateStep, Calls, Shape, RestartOps, VmOps
  <2>2. Moved(p)
    BY <1>1, <1>8, Moves DEF WriteAgentEnv, Creates, UpdateStep, Shape, Pcs
  <2> QED
    BY <2>1, <2>2
<1>9. CASE Abandon(p)
  <2>1. EngineTypeOK'
    BY <1>1, <1>2, <1>9, EffectsType DEF Abandon, Shape, VmOps
  <2>2. Moved(p)
    BY <1>1, <1>9, Moves DEF Abandon, Shape
  <2> QED
    BY <2>1, <2>2
<1> QED
  BY <1>3, <1>4, <1>5, <1>6, <1>7, <1>8, <1>9 DEF FactoryStep

LEMMA DiskType ==
  ASSUME TypeInv, NEW p \in Procs, DiskStep(p)
  PROVE  TypeInv'
<1> DEFINE c == call[p]
<1>1. c \in Calls /\ Shape(c.op, c.pc, c.vm, c.disk) /\ EngineTypeOK
  BY Moves DEF TypeInv, TypeOK, Shaped
<1>2. EngineTypeOK'
  BY <1>1 DEF DiskStep, Locate, VolumeCreate, VolumeRemove, HasDisk, Fault, SetVolume,
              EngineTypeOK, engine
<1>3. Moved(p)
  BY <1>1, Moves
  DEF DiskStep, Locate, VolumeCreate, VolumeRemove, HasDisk, Fault, At, Shape, Pcs, QueryOps
<1> QED
  BY <1>2, <1>3, MovedType

\* The Director's actions: a call that begins has its shape, one that ends is
\* NoCall, and the books keep their types.
LEMMA BeginsType ==
  ASSUME TypeInv, NEW p \in Procs, Begins(p)
  PROVE  TypeInv'
<1>1. EngineTypeOK'
  BY DEF Begins, BeginCreateVM, BeginDeleteVM, BeginAttachDisk, BeginDetachDisk,
         BeginCreateDisk, BeginDeleteDisk, BeginHasVM, BeginHasDisk,
         TypeInv, TypeOK, EngineTypeOK, engine
<1>2. /\ cid' \in [VMs \cup Disks -> {"fresh", "drawn", "known", "deleted"}]
      /\ held' \in [VMs -> SUBSET Disks]
      /\ doubt' \in SUBSET (VMs \cup Disks)
      /\ asked' \in [VMs -> SUBSET Nets]
  BY DEF Begins, BeginCreateVM, BeginDeleteVM, BeginAttachDisk, BeginDetachDisk,
         BeginCreateDisk, BeginDeleteDisk, BeginHasVM, BeginHasDisk,
         TypeInv, TypeOK, DirectorTypeOK, director
<1>3. ASSUME NEW op \in Ops, NEW pc \in Pcs \ {"idle"},
             NEW v \in VMs \cup {None}, NEW d \in Disks \cup {None},
             Shape(op, pc, v, d), Begin(p, op, pc, v, d)
      PROVE  call' \in [Procs -> Calls] /\ CallsShaped'
  <2>0. PICK s \in BOOLEAN :
          call' = [call EXCEPT ![p] =
                    [NoCall EXCEPT !.op = op, !.pc = pc, !.vm = v, !.disk = d,
                                   !.had = IF v = None THEN {} ELSE Present(v), !.sure = s]]
    BY <1>3 DEF Begin
  <2> DEFINE H == IF v = None THEN {} ELSE Present(v)
             c == [NoCall EXCEPT !.op = op, !.pc = pc, !.vm = v, !.disk = d, !.had = H, !.sure = s]
  <2>1. H \in SUBSET Files
    BY DEF Present
  <2>2. c \in Calls
    <3>1. op \in Ops \cup {"none"} /\ pc \in Pcs
      OBVIOUS
    <3> HIDE DEF H
    <3> QED
      BY <2>1, <3>1, NoCallType, Zenon DEF Calls
  <2>3. Shaped(c)
    BY <1>3 DEF Shaped, NoCall
  <2>4. call' = [call EXCEPT ![p] = c]
    BY <2>0
  <2> HIDE DEF c
  <2>5. call \in [Procs -> Calls] /\ CallsShaped
    BY DEF TypeInv, TypeOK, DirectorTypeOK
  <2>6. call' \in [Procs -> Calls]
    BY <2>2, <2>4, <2>5
  <2>7. CallsShaped'
    <3> SUFFICES ASSUME NEW q \in Procs PROVE Shaped(call'[q])
      BY DEF CallsShaped, Shaped
    <3>1. call'[q] = IF q = p THEN c ELSE call[q]
      BY <2>4, <2>5
    <3>2. Shaped(call[q])
      BY <2>5 DEF CallsShaped
    <3> QED
      BY <2>3, <3>1, <3>2
  <2> QED
    BY <2>6, <2>7
<1>4. call' \in [Procs -> Calls] /\ CallsShaped'
  <2> USE DEF Ops, VmOps, DiskOps, QueryOps, RestartOps, Pcs, Shape
  <2>1. CASE BeginCreateVM(p)
    BY <1>3, <2>1 DEF BeginCreateVM
  <2>2. CASE BeginDeleteVM(p)
    BY <1>3, <2>2 DEF BeginDeleteVM
  <2>3. CASE BeginAttachDisk(p)
    BY <1>3, <2>3 DEF BeginAttachDisk
  <2>4. CASE BeginDetachDisk(p)
    BY <1>3, <2>4 DEF BeginDetachDisk
  <2>5. CASE BeginCreateDisk(p)
    BY <1>3, <2>5 DEF BeginCreateDisk
  <2>6. CASE BeginDeleteDisk(p)
    BY <1>3, <2>6 DEF BeginDeleteDisk
  <2>7. CASE BeginHasVM(p)
    BY <1>3, <2>7 DEF BeginHasVM
  <2>8. CASE BeginHasDisk(p)
    BY <1>3, <2>8 DEF BeginHasDisk
  <2> QED
    BY <2>1, <2>2, <2>3, <2>4, <2>5, <2>6, <2>7, <2>8 DEF Begins
<1> QED
  BY <1>1, <1>2, <1>4 DEF TypeInv, TypeOK, DirectorTypeOK

LEMMA EndType ==
  ASSUME TypeInv, NEW p \in Procs, NEW ok \in BOOLEAN, End(p, ok), ~At(p, "idle")
  PROVE  TypeInv'
<1> DEFINE c == call[p]
<1>1. c \in Calls /\ Shape(c.op, c.pc, c.vm, c.disk)
  BY Moves DEF Shaped
<1>2. EngineTypeOK'
  BY DEF End, TypeInv, TypeOK, EngineTypeOK, engine
<1>3. cid' \in [VMs \cup Disks -> {"fresh", "drawn", "known", "deleted"}]
  BY DEF End, CidAfter, TypeInv, TypeOK, DirectorTypeOK
<1>4. held' \in [VMs -> SUBSET Disks] /\ asked' \in [VMs -> SUBSET Nets]
  BY DEF End, HeldAfter, TypeInv, TypeOK, DirectorTypeOK
<1>5. doubt' \in SUBSET (VMs \cup Disks)
  BY <1>1 DEF End, DoubtAfter, TypeInv, TypeOK, DirectorTypeOK, Shape, DiskOps
<1>6. call' \in [Procs -> Calls]
  BY NoCallType DEF End, TypeInv, TypeOK, DirectorTypeOK
<1>7. Shaped(NoCall)
  BY DEF Shaped, Shape, NoCall, VmOps, DiskOps, QueryOps, RestartOps
<1>8. CallsShaped'
  BY <1>7 DEF End, TypeInv, TypeOK, DirectorTypeOK, CallsShaped
<1> QED
  BY <1>2, <1>3, <1>4, <1>5, <1>6, <1>8 DEF TypeInv, TypeOK, DirectorTypeOK

\* What is not a call: the agents and the machine.
LEMMA WorldType ==
  ASSUME TypeInv, NEW v \in VMs, AgentWrites(v) \/ LateWrite(v) \/ Dies(v)
  PROVE  TypeInv'
<1>1. EngineTypeOK'
  <2>1. CASE AgentWrites(v) \/ Dies(v)
    BY <2>1, EffectsType DEF TypeInv, TypeOK, AgentWrites, Dies
  <2>2. CASE LateWrite(v)
    <3>1. PICK S \in ctr[v].late :
            SetCtr(v, [ctr[v] EXCEPT !.env = EnvOf(S), !.late = {}])
      BY <2>2 DEF LateWrite
    <3>2. [ctr[v] EXCEPT !.env = EnvOf(S), !.late = {}] \in Containers
      <4>1. ctr[v] \in Containers /\ S \in SUBSET Disks
        BY DEF TypeInv, TypeOK, EngineTypeOK, Containers
      <4> QED
        BY <4>1 DEF Containers, EnvOf
    <3> QED
      BY <3>1, <3>2, SetCtrType DEF TypeInv, TypeOK
  <2> QED
    BY <2>1, <2>2
<1>2. DirectorTypeOK' /\ CallsShaped'
  BY DEF TypeInv, TypeOK, DirectorTypeOK, CallsShaped, AgentWrites, LateWrite, Dies, director
<1> QED
  BY <1>1, <1>2 DEF TypeInv, TypeOK

LEMMA InitType == Init => TypeInv
<1> SUFFICES ASSUME Init PROVE TypeInv
  OBVIOUS
<1>1. EngineTypeOK
  BY DEF Init, EngineInit, EngineTypeOK, NoContainer, NoEnv, Containers
<1>2. DirectorTypeOK
  BY NoCallType DEF Init, DirectorInit, DirectorTypeOK
<1>3. CallsShaped
  BY DEF Init, DirectorInit, CallsShaped, Shaped, Shape, NoCall, VmOps, DiskOps, QueryOps, RestartOps
<1> QED
  BY <1>1, <1>2, <1>3 DEF TypeInv, TypeOK

LEMMA NextType == TypeInv /\ [Next]_vars => TypeInv'
<1> SUFFICES ASSUME TypeInv, [Next]_vars PROVE TypeInv'
  OBVIOUS
<1>1. ASSUME NEW p \in Procs, Begins(p) PROVE TypeInv'
  BY <1>1, BeginsType
<1>2. ASSUME NEW p \in Procs, CallStep(p) PROVE TypeInv'
  BY <1>2, ContainerType, FactoryType, DiskType, EndType DEF CallStep, Return, At
<1>3. ASSUME NEW p \in Procs, Crash(p) PROVE TypeInv'
  BY <1>3, EndType DEF Crash
<1>4. ASSUME NEW v \in VMs, AgentWrites(v) \/ LateWrite(v) \/ Dies(v) PROVE TypeInv'
  BY <1>4, WorldType
<1>5. CASE UNCHANGED vars
  BY <1>5 DEF TypeInv, TypeOK, EngineTypeOK, DirectorTypeOK, CallsShaped, vars, engine, director
<1> QED
  BY <1>1, <1>2, <1>3, <1>4, <1>5 DEF Next

\* Every reachable state has its types, and every call the arguments that its
\* operation takes: no step reads the VM or the disk of a call that has none.
THEOREM TypeCorrect == Spec => [](TypeOK /\ CallsShaped)
<1> QED
  BY InitType, NextType, PTL DEF Spec, TypeInv

-----------------------------------------------------------------------------
(* A step of a call is local: it changes that call, and the container of   *)
(* its VM.                                                                 *)

Moves1(p) ==
  /\ call' = [call EXCEPT ![p] = call'[p]]
  /\ call'[p].op = call[p].op /\ call'[p].vm = call[p].vm /\ call'[p].disk = call[p].disk
  /\ UNCHANGED director

Touches(v) == \A w \in VMs : w # v => ctr'[w] = ctr[w]

\* What the step has to show of its own call and VM.
Follows(p) == EnvFollows(call[p])'
Lists(v) ==
  v \in VMs => /\ ctr[v].env.ok => ctr[v].env.disks = ctr[v].binds
               /\ \A S \in ctr[v].late : S = ctr[v].binds

LEMMA LocalStep ==
  ASSUME EnvInv, NEW p \in Procs, TypeInv', Moves1(p), Touches(call[p].vm),
         Follows(p), Lists(call[p].vm)'
  PROVE  EnvInv'
<1>1. \A q \in Procs : call'[q].vm = call[q].vm /\ call'[q].disk = call[q].disk
                       /\ (q # p => call'[q] = call[q])
  BY DEF Moves1, EnvInv, TypeInv, TypeOK, DirectorTypeOK
<1>2. cid' = cid
  BY DEF Moves1, director
<1>3. FreshUnused'
  BY <1>1, <1>2 DEF EnvInv, FreshUnused, Busy, Touches
<1>4. OneCallPerVM'
  BY <1>1 DEF EnvInv, OneCallPerVM
<1>5. EnvInMemory'
  <2> SUFFICES ASSUME NEW q \in Procs, q # p PROVE EnvFollows(call[q])'
    BY DEF EnvInMemory, Follows
  <2>1. EnvFollows(call[q])
    BY DEF EnvInv, EnvInMemory
  <2>2. Shape(call[q].op, call[q].pc, call[q].vm, call[q].disk)
    BY Moves DEF EnvInv, Shaped
  <2>3. call[q].op \in RestartOps \/ call[q].pc \in {"connect", "start", "update"}
        => ctr'[call[q].vm] = ctr[call[q].vm]
    BY <2>2 DEF EnvInv, OneCallPerVM, Touches, Shape, RestartOps, VmOps
  <2> QED
    BY <1>1, <2>1, <2>3 DEF EnvFollows
<1>6. EnvListsMounts' /\ LateLists'
  BY <1>1 DEF EnvInv, EnvListsMounts, LateLists, Touches, Lists
<1> QED
  BY <1>3, <1>4, <1>5, <1>6 DEF EnvInv

\* The fields a step of the call leaves alone.
LEMMA GotoMoves ==
  ASSUME TypeInv, NEW p \in Procs, NEW pc, Goto(p, pc)
  PROVE  /\ Moves1(p)
         /\ call'[p].pc = pc
         /\ call'[p].env = call[p].env /\ call'[p].binds = call[p].binds
         /\ call'[p].failed = call[p].failed
BY Moves DEF Goto, Become, Moves1, Calls, TypeInv, TypeOK, DirectorTypeOK

LEMMA BecomeMoves ==
  ASSUME TypeInv, NEW p \in Procs, NEW c, Become(p, c),
         c.op = call[p].op, c.vm = call[p].vm, c.disk = call[p].disk
  PROVE  Moves1(p) /\ call'[p] = c
BY DEF Become, Moves1, TypeInv, TypeOK, DirectorTypeOK

LEMMA FinishMoves ==
  ASSUME TypeInv, NEW p \in Procs,
         Done(p) \/ Fail(p) \/ Finish(p, "yes") \/ Finish(p, "no")
  PROVE  Moves1(p) /\ call'[p].pc \in {"ok", "err", "yes", "no"} /\ Follows(p)
<1>1. PICK pc \in {"ok", "err", "yes", "no"} : Finish(p, pc)
  BY DEF Done, Fail
<1> DEFINE d == [NoCall EXCEPT !.op = call[p].op, !.pc = pc, !.vm = call[p].vm,
                               !.disk = call[p].disk, !.had = call[p].had,
                               !.sure = pc = "err" /\ call[p].sure]
<1>2. d.op = call[p].op /\ d.pc = pc /\ d.vm = call[p].vm /\ d.disk = call[p].disk
      /\ d.failed = FALSE
  BY DEF NoCall
<1>3. Become(p, d)
  BY <1>1 DEF Finish
<1> HIDE DEF d
<1>4. Moves1(p) /\ call'[p] = d
  BY <1>2, <1>3, BecomeMoves
<1> QED
  BY <1>2, <1>4 DEF Follows, EnvFollows

LEMMA UploadMoves ==
  ASSUME TypeInv, NEW p \in Procs, ~call[p].failed, NEW rest, UploadOr(p, rest)
  PROVE  Moves1(p) /\ Follows(p)
<1> DEFINE d == [call[p] EXCEPT !.pc = "upload", !.got = rest]
<1>1. CASE Done(p)
  BY <1>1, FinishMoves
<1>2. CASE Become(p, d)
  <2>1. d.op = call[p].op /\ d.pc = "upload" /\ d.vm = call[p].vm /\ d.disk = call[p].disk
        /\ ~d.failed
    BY Moves DEF Calls
  <2> HIDE DEF d
  <2> QED
    BY <1>2, <2>1, BecomeMoves DEF Follows, EnvFollows
<1> QED
  BY <1>1, <1>2 DEF UploadOr

\* The effect of an API call on v leaves the other containers alone.
LEMMA EffectsTouch ==
  ASSUME EngineTypeOK, NEW v \in VMs
  PROVE  /\ \A c : SetCtr(v, c) => Touches(v) /\ ctr'[v] = c
         /\ \A B, N : CtrCreate(v, B, N) =>
              /\ Touches(v)
              /\ ctr'[v].binds = B /\ ~ctr'[v].env.ok /\ ctr'[v].late = {}
         /\ ScratchRemove(v) => UNCHANGED ctr
         /\ UNCHANGED engine => UNCHANGED ctr
         /\ UNCHANGED ctr => Touches(v)
<1>1. \A c : SetCtr(v, c) => Touches(v) /\ ctr'[v] = c
  BY DEF EngineTypeOK, SetCtr, Touches
<1>2. ASSUME NEW B, NEW N, CtrCreate(v, B, N)
      PROVE  Touches(v) /\ ctr'[v].binds = B /\ ~ctr'[v].env.ok /\ ctr'[v].late = {}
  <2>1. Touches(v) /\ ctr'[v] = [NoContainer EXCEPT !.st = "created", !.binds = B, !.nets = N]
    BY <1>2 DEF EngineTypeOK, CtrCreate, Touches
  <2> QED
    BY <2>1 DEF NoContainer, NoEnv
<1> QED
  BY <1>1, <1>2 DEF ScratchRemove, engine, Touches

\* What the steps have to start from.
LEMMA EnvFacts ==
  ASSUME EnvInv, NEW p \in Procs
  PROVE  /\ call[p] \in Calls /\ EngineTypeOK /\ EnvFollows(call[p]) /\ Lists(call[p].vm)
         /\ Shape(call[p].op, call[p].pc, call[p].vm, call[p].disk)
BY Moves DEF EnvInv, TypeInv, TypeOK, Shaped, EnvInMemory, EnvListsMounts, LateLists, Lists

\* Steps that only read.
LEMMA ReadEnv ==
  ASSUME EnvInv, NEW p \in Procs, call[p].vm \in VMs, UNCHANGED engine,
         Moves1(p), Follows(p), TypeInv'
  PROVE  EnvInv'
<1>1. UNCHANGED ctr
  BY DEF engine
<1>2. Touches(call[p].vm) /\ Lists(call[p].vm)'
  BY <1>1, EnvFacts DEF Touches, Lists, Moves1
<1> QED
  BY <1>2, LocalStep

\* Steps that change a container, but neither its env nor its binds.
LEMMA KeepEnv ==
  ASSUME EnvInv, NEW p \in Procs, call[p].vm \in VMs,
         NEW d, SetCtr(call[p].vm, d),
         d.env = ctr[call[p].vm].env, d.binds = ctr[call[p].vm].binds,
         d.late \subseteq ctr[call[p].vm].late,
         Moves1(p), Follows(p), TypeInv'
  PROVE  EnvInv'
<1>1. Touches(call[p].vm) /\ ctr'[call[p].vm] = d
  BY EnvFacts, EffectsTouch
<1>2. Lists(call[p].vm)'
  BY <1>1, EnvFacts DEF Lists, Moves1
<1> QED
  BY <1>1, <1>2, LocalStep

\* The steps that attach_disk, detach_disk and create_vm share.
LEMMA CreateStepEnv ==
  ASSUME EnvInv, NEW p \in Procs, NEW B \in SUBSET Disks, NEW clash \in BOOLEAN,
         CreateStep(p, B, clash), call[p].env = B, TypeInv'
  PROVE  EnvInv'
<1> DEFINE c == call[p]
<1>1. /\ c \in Calls /\ EngineTypeOK /\ Lists(c.vm) /\ c.vm \in VMs /\ TypeInv
      /\ c.pc = "create" /\ ~c.failed
  BY EnvFacts DEF EnvInv, CreateStep, At, Shape, RestartOps, VmOps, EnvFollows
<1>2. PICK first \in SplitNetworks(c.nets) :
       \/ CtrCreate(c.vm, B, first) /\ Become(p, [c EXCEPT !.pc = IF c.nets = first THEN "start" ELSE "connect",
                                                           !.left = c.nets \ first, !.binds = {}, !.nets = {}])
       \/ UNCHANGED engine /\ Fail(p)
       \/ CtrCreate(c.vm, B, first) /\ Fail(p)
  BY DEF CreateStep, Fault
<1> DEFINE d == [c EXCEPT !.pc = IF c.nets = first THEN "start" ELSE "connect",
                          !.left = c.nets \ first, !.binds = {}, !.nets = {}]
<1>3. d.op = c.op /\ d.pc \in {"start", "connect"} /\ d.vm = c.vm /\ d.disk = c.disk
      /\ d.env = B /\ d.failed = c.failed
  BY <1>1 DEF Calls
<1>4. CASE UNCHANGED engine /\ Fail(p)
  BY <1>1, <1>4, ReadEnv, FinishMoves
<1>5. CASE CtrCreate(c.vm, B, first)
  <2>1. Touches(c.vm) /\ ctr'[c.vm].binds = B /\ ~ctr'[c.vm].env.ok /\ ctr'[c.vm].late = {}
    BY <1>1, <1>5, EffectsTouch
  <2>2. Become(p, d) \/ Fail(p)
    BY <1>2
  <2> HIDE DEF d
  <2>3. Moves1(p) /\ (Fail(p) \/ call'[p] = d)
    BY <1>1, <1>3, <2>2, BecomeMoves, FinishMoves
  <2>4. Follows(p)
    BY <1>1, <1>3, <2>1, <2>3, FinishMoves DEF Follows, EnvFollows
  <2>5. Lists(c.vm)'
    BY <2>1, <2>3 DEF Lists, Moves1
  <2> QED
    BY <2>1, <2>3, <2>4, <2>5, LocalStep
<1> QED
  BY <1>2, <1>4, <1>5

LEMMA ConnectStepEnv ==
  ASSUME EnvInv, NEW p \in Procs, ConnectStep(p), TypeInv'
  PROVE  EnvInv'
<1> DEFINE c == call[p]
<1>1. /\ c \in Calls /\ EngineTypeOK /\ c.vm \in VMs /\ TypeInv /\ ctr[c.vm] \in Containers
      /\ c.pc = "connect" /\ ~c.failed /\ c.env = ctr[c.vm].binds
  BY EnvFacts DEF EnvInv, EngineTypeOK, ConnectStep, At, Shape, RestartOps, VmOps, EnvFollows
<1>2. PICK n \in c.left :
       \/ NetConnect(c.vm, n) /\ Become(p, [c EXCEPT !.pc = IF c.left = {n} THEN "start" ELSE "connect",
                                                     !.left = @ \ {n}])
       \/ UNCHANGED engine /\ Fail(p)
       \/ NetConnect(c.vm, n) /\ Fail(p)
  BY DEF ConnectStep, Fault
<1> DEFINE d == [c EXCEPT !.pc = IF c.left = {n} THEN "start" ELSE "connect",
                          !.left = @ \ {n}]
           e == [ctr[c.vm] EXCEPT !.nets = @ \cup {n}]
<1>3. d.op = c.op /\ d.pc \in {"start", "connect"} /\ d.vm = c.vm /\ d.disk = c.disk
      /\ d.env = c.env /\ d.failed = c.failed
  BY <1>1 DEF Calls
<1>4. CASE UNCHANGED engine /\ Fail(p)
  BY <1>1, <1>4, ReadEnv, FinishMoves
<1>5. CASE NetConnect(c.vm, n)
  <2>1. SetCtr(c.vm, e)
    BY <1>5 DEF NetConnect
  <2>2. e.env = ctr[c.vm].env /\ e.binds = ctr[c.vm].binds /\ e.late = ctr[c.vm].late
    BY <1>1 DEF Containers
  <2>3. Become(p, d) \/ Fail(p)
    BY <1>2
  <2> HIDE DEF d, e
  <2>4. Moves1(p) /\ (Fail(p) \/ call'[p] = d)
    BY <1>1, <1>3, <2>3, BecomeMoves, FinishMoves
  <2>5. ctr'[c.vm] = e
    BY <1>1, <2>1, EffectsTouch
  <2>6. Follows(p)
    BY <1>1, <1>3, <2>2, <2>4, <2>5, FinishMoves DEF Follows, EnvFollows
  <2> QED
    BY <1>1, <2>1, <2>2, <2>4, <2>6, KeepEnv
<1> QED
  BY <1>2, <1>4, <1>5

\* ContainerStart and the upload of the agent env, with what they lead to.
LEMMA StartStepEnv ==
  ASSUME EnvInv, NEW p \in Procs, call[p].vm \in VMs, TypeInv',
         CtrStart(call[p].vm) \/ UNCHANGED engine,
         Moves1(p), call'[p].env = call[p].env,
         call[p].env = ctr[call[p].vm].binds,
         \/ call'[p].pc = "update" /\ ~call'[p].failed
         \/ call'[p].pc = "delExists" /\ call'[p].failed
         \/ call'[p].pc = "abandon" /\ ~call'[p].failed
  PROVE  EnvInv'
<1> DEFINE v == call[p].vm
           e == [ctr[v] EXCEPT !.st = "running"]
<1>1. ctr[v] \in Containers /\ EngineTypeOK
  BY EnvFacts DEF EngineTypeOK
<1>2. e.env = ctr[v].env /\ e.binds = ctr[v].binds /\ e.late = ctr[v].late
  BY <1>1 DEF Containers
<1>3. CASE UNCHANGED engine
  <2>1. Follows(p)
    BY <1>3 DEF Follows, EnvFollows, Moves1, engine
  <2> QED
    BY <1>3, <2>1, ReadEnv
<1>4. CASE CtrStart(v)
  <2>1. SetCtr(v, e)
    BY <1>4 DEF CtrStart
  <2> HIDE DEF e
  <2>2. ctr'[v] = e
    BY <1>1, <2>1, EffectsTouch
  <2>3. Follows(p)
    BY <1>2, <2>2 DEF Follows, EnvFollows, Moves1
  <2> QED
    BY <1>2, <2>1, <2>3, KeepEnv
<1> QED
  BY <1>3, <1>4

LEMMA UpdateStepEnv ==
  ASSUME EnvInv, NEW p \in Procs, call[p].vm \in VMs, TypeInv',
         \/ PutEnv(call[p].vm, EnvOf(call[p].env))
         \/ PutEnv(call[p].vm, NoEnv)
         \/ PutLate(call[p].vm, call[p].env)
         \/ UNCHANGED engine,
         call[p].env = ctr[call[p].vm].binds,
         Moves1(p), Follows(p)
  PROVE  EnvInv'
<1> DEFINE v == call[p].vm
<1>1. ctr[v] \in Containers /\ EngineTypeOK /\ Lists(v)
  BY EnvFacts DEF EngineTypeOK
<1>2. ASSUME NEW x \in {EnvOf(call[p].env), NoEnv}, PutEnv(v, x)
      PROVE  EnvInv'
  <2> DEFINE e == [ctr[v] EXCEPT !.env = x]
  <2>1. e.env = x /\ e.binds = ctr[v].binds /\ e.late = ctr[v].late
    BY <1>1 DEF Containers
  <2>2. SetCtr(v, e)
    BY <1>2 DEF PutEnv
  <2> HIDE DEF e
  <2>3. Touches(v) /\ ctr'[v] = e
    BY <1>1, <2>2, EffectsTouch
  <2>4. Lists(v)'
    BY <1>1, <2>1, <2>3 DEF Lists, Moves1, EnvOf, NoEnv
  <2> QED
    BY <2>3, <2>4, LocalStep
<1>3. CASE PutLate(v, call[p].env)
  <2> DEFINE e == [ctr[v] EXCEPT !.late = {call[p].env}]
  <2>1. e.env = ctr[v].env /\ e.binds = ctr[v].binds /\ e.late = {call[p].env}
    BY <1>1 DEF Containers
  <2>2. SetCtr(v, e)
    BY <1>3 DEF PutLate
  <2> HIDE DEF e
  <2>3. Touches(v) /\ ctr'[v] = e
    BY <1>1, <2>2, EffectsTouch
  <2>4. Lists(v)'
    BY <1>1, <2>1, <2>3 DEF Lists, Moves1
  <2> QED
    BY <2>3, <2>4, LocalStep
<1> QED
  BY <1>2, <1>3, ReadEnv

LEMMA ContainerEnv ==
  ASSUME EnvInv, NEW p \in Procs, ContainerStep(p), TypeInv'
  PROVE  EnvInv'
<1> DEFINE c == call[p]
<1>1. /\ c \in Calls /\ EngineTypeOK /\ EnvFollows(c) /\ Lists(c.vm)
      /\ Shape(c.op, c.pc, c.vm, c.disk) /\ TypeInv
  BY EnvFacts DEF EnvInv
<1>2. c.vm \in VMs
  BY <1>1 DEF ContainerStep, CheckExists, Fetch, DownloadSettings, DownloadRecords, Inspect,
              DeleteExists, Kill, Remove, RemoveScratch, FindNode, Recreate, Reconnect,
              Restart, UpdateEnv, Upload, Chgrp, HasVM, CreateStep, ConnectStep, StartStep,
              UpdateStep, At, Shape, RestartOps, VmOps
<1>3. ctr[c.vm] \in Containers
  BY <1>1, <1>2 DEF EngineTypeOK
<1> USE DEF At, VM, Fault
<1>4. CASE CheckExists(p)
  BY <1>1, <1>2, <1>4, ReadEnv, GotoMoves, FinishMoves DEF CheckExists, Follows, EnvFollows
<1>5. CASE Fetch(p)
  <2>1. CASE Become(p, [c EXCEPT !.pc = "settings",
                                 !.env = ChangeDisks(c.op, ctr[c.vm].env.disks, c.disk)])
             /\ ctr[c.vm].env.ok
    <3>1. Moves1(p) /\ call'[p].pc = "settings" /\ ~call'[p].failed
          /\ call'[p].env = ChangeDisks(c.op, ctr[c.vm].env.disks, c.disk)
      BY <1>1, <1>5, <2>1 DEF Fetch, EnvFollows, Become, Moves1, Calls, TypeInv, TypeOK, DirectorTypeOK
    <3>2. Follows(p)
      BY <1>1, <1>2, <1>5, <2>1, <3>1
      DEF Fetch, Moves1, Follows, EnvFollows, Lists, engine, Shape, RestartOps
    <3> QED
      BY <1>1, <1>2, <1>5, <3>1, <3>2, ReadEnv DEF Fetch
  <2> QED
    BY <1>1, <1>2, <1>5, <2>1, ReadEnv, FinishMoves DEF Fetch
<1>6. CASE DownloadSettings(p)
  <2>1. Moves1(p) /\ call'[p].pc = "records" /\ ~call'[p].failed /\ call'[p].env = c.env
    <3> DEFINE d == [c EXCEPT !.pc = "records", !.got = @ \cup {"settings"}]
    <3>1. d.op = c.op /\ d.pc = "records" /\ d.vm = c.vm /\ d.disk = c.disk
          /\ d.env = c.env /\ d.failed = c.failed
      BY <1>1 DEF Calls
    <3>2. ~c.failed
      BY <1>1, <1>6 DEF DownloadSettings, EnvFollows
    <3>3. Become(p, d) \/ Goto(p, "records")
      BY <1>6 DEF DownloadSettings, Download
    <3> HIDE DEF d
    <3> QED
      BY <1>1, <3>1, <3>2, <3>3, GotoMoves, BecomeMoves
  <2>2. Follows(p)
    BY <1>1, <1>2, <1>6, <2>1 DEF DownloadSettings, Download, Moves1, Follows, EnvFollows, engine
  <2> QED
    BY <1>2, <1>6, <2>1, <2>2, ReadEnv DEF DownloadSettings, Download
<1>7. CASE DownloadRecords(p)
  <2>1. Moves1(p) /\ call'[p].pc = "inspect" /\ ~call'[p].failed /\ call'[p].env = c.env
    <3> DEFINE d == [c EXCEPT !.pc = "inspect", !.got = @ \cup {"records"}]
    <3>1. d.op = c.op /\ d.pc = "inspect" /\ d.vm = c.vm /\ d.disk = c.disk
          /\ d.env = c.env /\ d.failed = c.failed
      BY <1>1 DEF Calls
    <3>2. ~c.failed
      BY <1>1, <1>7 DEF DownloadRecords, EnvFollows
    <3>3. Become(p, d) \/ Goto(p, "inspect")
      BY <1>7 DEF DownloadRecords, Download
    <3> HIDE DEF d
    <3> QED
      BY <1>1, <3>1, <3>2, <3>3, GotoMoves, BecomeMoves
  <2>2. Follows(p)
    BY <1>1, <1>2, <1>7, <2>1 DEF DownloadRecords, Download, Moves1, Follows, EnvFollows, engine
  <2> QED
    BY <1>2, <1>7, <2>1, <2>2, ReadEnv DEF DownloadRecords, Download
<1>8. CASE Inspect(p)
  <2>1. CASE Become(p, [c EXCEPT !.pc = "delExists", !.binds = ctr[c.vm].binds,
                                 !.nets = ctr[c.vm].nets])
    <3>1. Moves1(p) /\ call'[p].pc = "delExists" /\ call'[p].env = c.env
          /\ call'[p].binds = ctr[c.vm].binds
      <4> DEFINE d == [c EXCEPT !.pc = "delExists", !.binds = ctr[c.vm].binds,
                                !.nets = ctr[c.vm].nets]
      <4>1. d.op = c.op /\ d.pc = "delExists" /\ d.vm = c.vm /\ d.disk = c.disk
            /\ d.env = c.env /\ d.binds = ctr[c.vm].binds
        BY <1>1 DEF Calls
      <4>2. Become(p, d)
        BY <2>1
      <4> HIDE DEF d
      <4> QED
        BY <1>1, <4>1, <4>2, BecomeMoves
    <3>2. Follows(p)
      BY <1>1, <1>2, <1>8, <3>1
      DEF Inspect, Moves1, Follows, EnvFollows, ChangeDisks, UpdateBinds, Shape
    <3> QED
      BY <1>2, <1>8, <3>1, <3>2, ReadEnv DEF Inspect
  <2> QED
    BY <1>1, <1>2, <1>8, <2>1, ReadEnv, FinishMoves DEF Inspect
<1>9. CASE DeleteExists(p)
  <2>1. Moves1(p) /\ Follows(p)
    BY <1>1, <1>9, GotoMoves, FinishMoves DEF DeleteExists, Moves1, Follows, EnvFollows
  <2> QED
    BY <1>2, <1>9, <2>1, ReadEnv DEF DeleteExists
<1>10. CASE Kill(p)
  <2>1. Moves1(p) /\ Follows(p)
    <3>1. CASE Become(p, [c EXCEPT !.pc = "remove", !.tries = 0])
      <4> DEFINE d == [c EXCEPT !.pc = "remove", !.tries = 0]
      <4>1. d.op = c.op /\ d.pc = "remove" /\ d.vm = c.vm /\ d.disk = c.disk
            /\ d.env = c.env /\ d.binds = c.binds /\ d.failed = c.failed
        BY <1>1 DEF Calls
      <4>2. Become(p, d)
        BY <3>1
      <4> HIDE DEF d
      <4>3. Moves1(p) /\ call'[p] = d
        BY <1>1, <4>1, <4>2, BecomeMoves
      <4> QED
        BY <1>1, <1>10, <4>1, <4>3 DEF Kill, Follows, EnvFollows
    <3>2. CASE KillFailed(p)
      BY <1>1, <1>10, <3>2, BecomeMoves, FinishMoves DEF Kill, KillFailed, Calls, Follows, EnvFollows
    <3> QED
      BY <1>10, <3>1, <3>2 DEF Kill
  <2>2. CASE CtrStop(c.vm)
    BY <1>1, <1>2, <1>3, <2>1, <2>2, KeepEnv DEF CtrStop, Containers
  <2>3. CASE UNCHANGED engine
    BY <1>2, <2>1, <2>3, ReadEnv
  <2> QED
    BY <1>10, <2>2, <2>3 DEF Kill
<1>11. CASE Remove(p)
  <2>1. Moves1(p) /\ Follows(p)
    BY <1>1, <1>11, GotoMoves, FinishMoves DEF Remove, Moves1, Follows, EnvFollows
  <2>2. CASE CtrStop(c.vm)
    BY <1>1, <1>2, <1>3, <2>1, <2>2, KeepEnv DEF CtrStop, Containers
  <2>3. CASE CtrRemove(c.vm)
    <3>1. Touches(c.vm) /\ ctr'[c.vm] = NoContainer
      BY <1>1, <1>2, <2>3, EffectsTouch DEF CtrRemove
    <3>2. Lists(c.vm)'
      BY <2>1, <3>1 DEF Lists, Moves1, NoContainer, NoEnv
    <3> QED
      BY <2>1, <3>1, <3>2, LocalStep
  <2>4. CASE UNCHANGED engine
    BY <1>2, <2>1, <2>4, ReadEnv
  <2> QED
    BY <1>11, <2>2, <2>3, <2>4 DEF Remove
<1>12. CASE RemoveScratch(p)
  <2>1. Moves1(p) /\ Follows(p)
    BY <1>1, <1>12, GotoMoves, FinishMoves
    DEF RemoveScratch, DeleteDone, Moves1, Follows, EnvFollows, Calls
  <2>2. UNCHANGED ctr
    BY <1>12 DEF RemoveScratch, ScratchRemove, engine
  <2>3. Touches(c.vm) /\ Lists(c.vm)'
    BY <1>1, <2>1, <2>2 DEF Touches, Lists, Moves1
  <2> QED
    BY <2>1, <2>3, LocalStep
<1>13. CASE FindNode(p)
  <2>1. Moves1(p) /\ Follows(p)
    BY <1>1, <1>13, GotoMoves, FinishMoves DEF FindNode, Moves1, Follows, EnvFollows, Shape, RestartOps
  <2> QED
    BY <1>2, <1>13, <2>1, ReadEnv DEF FindNode
<1>14. CASE Recreate(p)
  <2> DEFINE B == UpdateBinds(c.op, c.binds, c.disk)
             clash == DuplicateBind(c.op, c.binds, c.disk)
  <2>1. CreateStep(p, B, clash) /\ c.pc = "create" /\ c.op \in RestartOps
    BY <1>14 DEF Recreate, CreateStep, Restarts, RestartOps
  <2>2. B \in SUBSET Disks /\ clash \in BOOLEAN
    BY <1>1, <2>1 DEF UpdateBinds, DuplicateBind, Calls, Shape
  <2>3. c.env = B
    BY <1>1, <2>1 DEF EnvFollows
  <2> HIDE DEF B, clash
  <2> QED
    BY <2>1, <2>2, <2>3, CreateStepEnv
<1>15. CASE Reconnect(p)
  BY <1>15, ConnectStepEnv DEF Reconnect
<1>16. CASE Restart(p)
  <2>1. CtrStart(c.vm) \/ UNCHANGED engine
    BY <1>16 DEF Restart, StartStep
  <2>2. c.env = ctr[c.vm].binds /\ ~c.failed
    BY <1>1, <1>16 DEF Restart, StartStep, EnvFollows
  <2>3. CASE Goto(p, "update")
    BY <1>1, <1>2, <2>1, <2>2, <2>3, GotoMoves, StartStepEnv
  <2>4. CASE Become(p, [c EXCEPT !.pc = "delExists", !.failed = TRUE])
    <3> DEFINE d == [c EXCEPT !.pc = "delExists", !.failed = TRUE]
    <3>1. d.op = c.op /\ d.pc = "delExists" /\ d.vm = c.vm /\ d.disk = c.disk
          /\ d.env = c.env /\ d.failed
      BY <1>1 DEF Calls
    <3>2. Become(p, d)
      BY <2>4
    <3> HIDE DEF d
    <3>3. Moves1(p) /\ call'[p] = d
      BY <1>1, <3>1, <3>2, BecomeMoves
    <3> QED
      BY <1>2, <2>1, <2>2, <3>1, <3>3, StartStepEnv
  <2> QED
    BY <1>16, <2>3, <2>4 DEF Restart, StartStep
<1>17. CASE UpdateEnv(p)
  <2>1. \/ PutEnv(c.vm, EnvOf(c.env)) \/ PutEnv(c.vm, NoEnv)
        \/ PutLate(c.vm, c.env) \/ UNCHANGED engine
    BY <1>17 DEF UpdateEnv, UpdateStep
  <2>2. c.env = ctr[c.vm].binds /\ ~c.failed
    BY <1>1, <1>17 DEF UpdateEnv, UpdateStep, EnvFollows
  <2>3. UploadOr(p, c.got) \/ Fail(p)
    BY <1>17 DEF UpdateEnv, UpdateStep
  <2>4. Moves1(p) /\ Follows(p)
    BY <1>1, <2>2, <2>3, UploadMoves, FinishMoves
  <2> QED
    BY <1>2, <2>1, <2>2, <2>4, UpdateStepEnv
<1>18. CASE Upload(p)
  <2>1. ~c.failed
    BY <1>1, <1>18 DEF Upload, EnvFollows
  <2>2. Moves1(p) /\ Follows(p)
    <3>1. CASE Become(p, [c EXCEPT !.pc = "chgrp", !.got = {}])
      <4> DEFINE d == [c EXCEPT !.pc = "chgrp", !.got = {}]
      <4>1. d.op = c.op /\ d.pc = "chgrp" /\ d.vm = c.vm /\ d.disk = c.disk /\ ~d.failed
        BY <1>1, <2>1 DEF Calls
      <4>2. Become(p, d)
        BY <3>1
      <4> HIDE DEF d
      <4> QED
        BY <1>1, <4>1, <4>2, BecomeMoves DEF Follows, EnvFollows
    <3>2. ASSUME NEW f, UploadOr(p, c.got \ {f}) PROVE Moves1(p) /\ Follows(p)
      BY <1>1, <2>1, <3>2, UploadMoves
    <3> QED
      BY <1>1, <1>18, <3>1, <3>2, FinishMoves DEF Upload
  <2>3. CASE UNCHANGED engine
    BY <1>2, <2>2, <2>3, ReadEnv
  <2>4. ASSUME NEW f, PutFile(c.vm, f, "root") PROVE EnvInv'
    BY <1>2, <1>3, <2>2, <2>4, KeepEnv DEF PutFile, Containers
  <2> QED
    BY <1>18, <2>3, <2>4 DEF Upload
<1>19. CASE Chgrp(p)
  <2>1. Moves1(p) /\ Follows(p)
    BY <1>1, <1>19, FinishMoves DEF Chgrp
  <2>2. CASE UNCHANGED engine
    BY <1>2, <2>1, <2>2, ReadEnv
  <2>3. CASE PutFile(c.vm, "records", "vcap")
    BY <1>2, <1>3, <2>1, <2>3, KeepEnv DEF PutFile, Containers
  <2> QED
    BY <1>19, <2>2, <2>3 DEF Chgrp
<1>20. CASE HasVM(p)
  <2>1. Moves1(p) /\ Follows(p)
    BY <1>1, <1>20, FinishMoves DEF HasVM
  <2> QED
    BY <1>2, <1>20, <2>1, ReadEnv DEF HasVM
<1> QED
  BY <1>4, <1>5, <1>6, <1>7, <1>8, <1>9, <1>10, <1>11, <1>12, <1>13, <1>14, <1>15, <1>16,
     <1>17, <1>18, <1>19, <1>20 DEF ContainerStep

LEMMA FactoryEnv ==
  ASSUME EnvInv, NEW p \in Procs, FactoryStep(p), TypeInv'
  PROVE  EnvInv'
<1> DEFINE c == call[p]
<1>1. /\ c \in Calls /\ EngineTypeOK /\ EnvFollows(c) /\ Lists(c.vm)
      /\ Shape(c.op, c.pc, c.vm, c.disk) /\ TypeInv
  BY EnvFacts DEF EnvInv
<1>2. c.vm \in VMs
  BY <1>1 DEF FactoryStep, Prepare, CreateContainer, ConnectNetwork, StartContainer,
              WriteAgentEnv, Abandon, CreateStep, ConnectStep, StartStep, UpdateStep, At,
              Shape, RestartOps, VmOps
<1> USE DEF At, VM, Fault
<1>3. CASE Prepare(p)
  <2> DEFINE d == [c EXCEPT !.pc = "create", !.nets = asked[c.vm]]
  <2>1. d.op = c.op /\ d.pc = "create" /\ d.vm = c.vm /\ d.disk = c.disk /\ d.env = c.env
        /\ d.failed = c.failed
    BY <1>1 DEF Calls
  <2>2. c.op = "create_vm" /\ c.env = {} /\ ~c.failed
    BY <1>1, <1>3 DEF Prepare, Shape, EnvFollows
  <2>3. Become(p, d) \/ Fail(p)
    BY <1>3 DEF Prepare
  <2> HIDE DEF d
  <2>4. Moves1(p) /\ Follows(p)
    BY <1>1, <2>1, <2>2, <2>3, BecomeMoves, FinishMoves DEF Follows, EnvFollows, RestartOps
  <2> QED
    BY <1>2, <1>3, <2>4, ReadEnv DEF Prepare
<1>4. CASE CreateContainer(p)
  <2>1. c.env = {}
    BY <1>1, <1>4 DEF CreateContainer, Creates, CreateStep, EnvFollows
  <2> QED
    BY <1>4, <2>1, CreateStepEnv DEF CreateContainer
<1>5. CASE ConnectNetwork(p)
  BY <1>5, ConnectStepEnv DEF ConnectNetwork
<1>6. CASE StartContainer(p)
  <2>1. CtrStart(c.vm) \/ UNCHANGED engine
    BY <1>6 DEF StartContainer, StartStep
  <2>2. c.env = ctr[c.vm].binds /\ ~c.failed
    BY <1>1, <1>6 DEF StartContainer, StartStep, EnvFollows
  <2>3. Goto(p, "update") \/ Goto(p, "abandon")
    BY <1>6 DEF StartContainer, StartStep
  <2> QED
    BY <1>1, <1>2, <2>1, <2>2, <2>3, GotoMoves, StartStepEnv
<1>7. CASE WriteAgentEnv(p)
  <2>1. \/ PutEnv(c.vm, EnvOf(c.env)) \/ PutEnv(c.vm, NoEnv)
        \/ PutLate(c.vm, c.env) \/ UNCHANGED engine
    BY <1>7 DEF WriteAgentEnv, UpdateStep
  <2>2. c.env = ctr[c.vm].binds /\ ~c.failed
    BY <1>1, <1>7 DEF WriteAgentEnv, UpdateStep, EnvFollows
  <2>3. Goto(p, "abandon") \/ Done(p)
    BY <1>7 DEF WriteAgentEnv, UpdateStep
  <2>4. Moves1(p) /\ Follows(p)
    BY <1>1, <2>2, <2>3, GotoMoves, FinishMoves DEF Follows, EnvFollows
  <2> QED
    BY <1>2, <2>1, <2>2, <2>4, UpdateStepEnv
<1>8. CASE Abandon(p)
  <2>1. Moves1(p) /\ Follows(p)
    BY <1>1, <1>8, FinishMoves DEF Abandon
  <2>2. CASE UNCHANGED engine
    BY <1>2, <2>1, <2>2, ReadEnv
  <2>3. CASE CtrRemove(c.vm)
    <3>1. Touches(c.vm) /\ ctr'[c.vm] = NoContainer
      BY <1>1, <1>2, <2>3, EffectsTouch DEF CtrRemove
    <3>2. Lists(c.vm)'
      BY <2>1, <3>1 DEF Lists, Moves1, NoContainer, NoEnv
    <3> QED
      BY <2>1, <3>1, <3>2, LocalStep
  <2> QED
    BY <1>8, <2>2, <2>3 DEF Abandon
<1> QED
  BY <1>3, <1>4, <1>5, <1>6, <1>7, <1>8 DEF FactoryStep

LEMMA DiskEnv ==
  ASSUME EnvInv, NEW p \in Procs, DiskStep(p), TypeInv'
  PROVE  EnvInv'
<1> DEFINE c == call[p]
<1>1. c \in Calls /\ TypeInv /\ Lists(c.vm) /\ EnvFollows(c)
      /\ Shape(c.op, c.pc, c.vm, c.disk)
  BY EnvFacts DEF EnvInv
<1>2. UNCHANGED ctr
  BY DEF DiskStep, Locate, VolumeCreate, VolumeRemove, HasDisk, Fault, SetVolume, engine
<1>3. Goto(p, "volCreate") \/ Done(p) \/ Fail(p) \/ Finish(p, "yes") \/ Finish(p, "no")
  BY DEF DiskStep, Locate, VolumeCreate, VolumeRemove, HasDisk, Fault
<1>4. ~c.failed /\ c.op \notin RestartOps \cup {"create_vm"}
  BY <1>1
  DEF DiskStep, Locate, VolumeCreate, VolumeRemove, HasDisk, At, EnvFollows, Shape, RestartOps
<1>5. Moves1(p) /\ Follows(p)
  BY <1>1, <1>3, <1>4, GotoMoves, FinishMoves DEF Follows, EnvFollows, Moves1
<1>6. Touches(c.vm) /\ Lists(c.vm)'
  BY <1>1, <1>2, <1>5 DEF Touches, Lists, Moves1
<1> QED
  BY <1>5, <1>6, LocalStep

-----------------------------------------------------------------------------
(* The Director, the agents and the machine.                               *)

\* A disciplined Director begins a call on a VM that no call is about.
LEMMA BeginsEnv ==
  ASSUME Disciplined, EnvInv, NEW p \in Procs, Begins(p), TypeInv'
  PROVE  EnvInv'
<1>1. UNCHANGED engine
  BY DEF Begins, BeginCreateVM, BeginDeleteVM, BeginAttachDisk, BeginDetachDisk,
         BeginCreateDisk, BeginDeleteDisk, BeginHasVM, BeginHasDisk
<1>2. PICK op \in Ops, v \in VMs \cup {None}, d \in Disks \cup {None},
           pc \in {"prepare", "exists", "delExists", "volCreate", "locate", "volRemove",
                   "hasVM", "hasDisk"} :
        /\ Begin(p, op, pc, v, d)
        /\ v \in VMs => ~Busy(v) /\ cid'[v] # "fresh"
        /\ pc = "delExists" => op = "delete_vm"
        /\ op \in RestartOps => pc = "exists"
        /\ \A w \in VMs : cid'[w] = "fresh" => cid[w] = "fresh"
        /\ d \in Disks \/ d = None
  <2> USE DEF Ops, VmOps, DiskOps, QueryOps, RestartOps, Target, Asked, director, EnvInv, TypeInv, TypeOK, DirectorTypeOK
  <2>1. CASE BeginCreateVM(p)
    BY <2>1 DEF BeginCreateVM, FreshUnused
  <2>2. CASE BeginDeleteVM(p)
    BY <2>2 DEF BeginDeleteVM
  <2>3. CASE BeginAttachDisk(p)
    BY <2>3 DEF BeginAttachDisk
  <2>4. CASE BeginDetachDisk(p)
    BY <2>4 DEF BeginDetachDisk
  <2>5. CASE BeginCreateDisk(p)
    BY <2>5, CidAssumption DEF BeginCreateDisk
  <2>6. CASE BeginDeleteDisk(p)
    BY <2>6, CidAssumption DEF BeginDeleteDisk
  <2>7. CASE BeginHasVM(p)
    BY <2>7 DEF BeginHasVM
  <2>8. CASE BeginHasDisk(p)
    BY <2>8, CidAssumption DEF BeginHasDisk
  <2> QED
    BY <2>1, <2>2, <2>3, <2>4, <2>5, <2>6, <2>7, <2>8 DEF Begins
<1>0. PICK s \in BOOLEAN :
        call' = [call EXCEPT ![p] =
                  [NoCall EXCEPT !.op = op, !.pc = pc, !.vm = v, !.disk = d,
                                 !.had = IF v = None THEN {} ELSE Present(v), !.sure = s]]
  BY <1>2 DEF Begin
<1> DEFINE H == IF v = None THEN {} ELSE Present(v)
           c == [NoCall EXCEPT !.op = op, !.pc = pc, !.vm = v, !.disk = d, !.had = H, !.sure = s]
<1>3. c.op = op /\ c.pc = pc /\ c.vm = v /\ c.disk = d /\ c.env = {} /\ ~c.failed
  BY DEF NoCall
<1>4. call' = [call EXCEPT ![p] = c] /\ call \in [Procs -> Calls]
  BY <1>0 DEF EnvInv, TypeInv, TypeOK, DirectorTypeOK
<1> HIDE DEF c
<1>5. FreshUnused'
  BY <1>1, <1>2, <1>3, <1>4, CidAssumption DEF EnvInv, FreshUnused, Busy, engine
<1>6. OneCallPerVM'
  BY <1>2, <1>3, <1>4 DEF EnvInv, OneCallPerVM, Busy
<1>7. EnvInMemory'
  <2>1. EnvFollows(call[p])'
    BY <1>2, <1>3, <1>4 DEF EnvFollows, RestartOps
  <2> QED
    BY <1>1, <1>4, <2>1 DEF EnvInv, EnvInMemory, EnvFollows, engine
<1>8. EnvListsMounts' /\ LateLists'
  BY <1>1 DEF EnvInv, EnvListsMounts, LateLists, engine
<1> QED
  BY <1>5, <1>6, <1>7, <1>8 DEF EnvInv

LEMMA EndEnv ==
  ASSUME EnvInv, NEW p \in Procs, NEW ok \in BOOLEAN, End(p, ok), TypeInv'
  PROVE  EnvInv'
<1>1. UNCHANGED ctr /\ call' = [call EXCEPT ![p] = NoCall] /\ call \in [Procs -> Calls]
  BY DEF End, engine, EnvInv, TypeInv, TypeOK, DirectorTypeOK
<1>2. NoCall.vm = None /\ NoCall.disk = None /\ NoCall.op = "none" /\ NoCall.pc = "idle"
      /\ ~NoCall.failed
  BY DEF NoCall
<1>3. \A w \in VMs : cid'[w] = "fresh" => cid[w] = "fresh"
  BY DEF End, CidAfter, EnvInv, TypeInv, TypeOK, DirectorTypeOK
<1>4. FreshUnused'
  BY <1>1, <1>2, <1>3, CidAssumption DEF EnvInv, FreshUnused, Busy
<1>5. OneCallPerVM'
  BY <1>1, <1>2, CidAssumption DEF EnvInv, OneCallPerVM
<1>6. EnvInMemory'
  <2>1. EnvFollows(NoCall)'
    BY <1>2 DEF EnvFollows, RestartOps
  <2> QED
    BY <1>1, <2>1 DEF EnvInv, EnvInMemory, EnvFollows
<1>7. EnvListsMounts' /\ LateLists'
  BY <1>1 DEF EnvInv, EnvListsMounts, LateLists
<1> QED
  BY <1>4, <1>5, <1>6, <1>7 DEF EnvInv

\* An agent, a tar that is late and a dying VM do not change the mounts.
LEMMA WorldEnv ==
  ASSUME EnvInv, NEW v \in VMs, AgentWrites(v) \/ LateWrite(v) \/ Dies(v), TypeInv'
  PROVE  EnvInv'
<1>1. ctr[v] \in Containers /\ ctr \in [VMs -> Containers] /\ Running(v)
  BY DEF EnvInv, TypeInv, TypeOK, EngineTypeOK, AgentWrites, LateWrite, Dies
<1> Lists(v)
  BY DEF EnvInv, EnvListsMounts, LateLists, Lists
<1>2. PICK e : /\ SetCtr(v, e) /\ e.binds = ctr[v].binds /\ e.late \subseteq ctr[v].late
               /\ e.env.ok => e.env.disks = ctr[v].binds
  <2>1. CASE AgentWrites(v)
    <3>1. PICK f \in Files : PutFile(v, f, "vcap")
      BY <2>1 DEF AgentWrites
    <3> DEFINE e == [ctr[v] EXCEPT !.files[f] = "vcap"]
    <3>2. e.env = ctr[v].env /\ e.binds = ctr[v].binds /\ e.late = ctr[v].late
      BY <1>1 DEF Containers
    <3> QED
      BY <1>1, <3>1, <3>2 DEF PutFile, Lists
  <2>2. CASE LateWrite(v)
    <3>1. PICK S \in ctr[v].late :
            SetCtr(v, [ctr[v] EXCEPT !.env = EnvOf(S), !.late = {}])
      BY <2>2 DEF LateWrite
    <3> DEFINE e == [ctr[v] EXCEPT !.env = EnvOf(S), !.late = {}]
    <3>2. e.env = EnvOf(S) /\ e.binds = ctr[v].binds /\ e.late = {}
      BY <1>1 DEF Containers
    <3>3. EnvOf(S).disks = ctr[v].binds
      BY DEF Lists, EnvOf
    <3> QED
      BY <3>1, <3>2, <3>3
  <2>3. CASE Dies(v)
    <3> DEFINE e == [ctr[v] EXCEPT !.st = "exited", !.late = {}]
    <3>1. e.env = ctr[v].env /\ e.binds = ctr[v].binds /\ e.late = {}
      BY <1>1 DEF Containers
    <3> QED
      BY <1>1, <2>3, <3>1 DEF Dies, CtrStop, Lists
  <2> QED
    BY <2>1, <2>2, <2>3
<1>3. \A w \in VMs : ctr'[w].binds = ctr[w].binds /\ Lists(w)'
                     /\ (w # v => ctr'[w] = ctr[w])
  BY <1>1, <1>2 DEF SetCtr, EnvInv, EnvListsMounts, LateLists, Lists
<1>4. UNCHANGED <<call, cid>>
  BY DEF AgentWrites, LateWrite, Dies, director
<1>5. FreshUnused'
  <2>1. cid[v] # "fresh"
    BY <1>1 DEF EnvInv, FreshUnused, Running, NoContainer
  <2> QED
    BY <1>3, <1>4, <2>1 DEF EnvInv, FreshUnused, Busy
<1>6. OneCallPerVM' /\ EnvListsMounts' /\ LateLists'
  BY <1>3, <1>4 DEF EnvInv, OneCallPerVM, EnvListsMounts, LateLists, Lists
<1>7. EnvInMemory'
  <2> SUFFICES ASSUME NEW q \in Procs PROVE EnvFollows(call[q])'
    BY DEF EnvInMemory
  <2>1. EnvFollows(call[q]) /\ Shape(call[q].op, call[q].pc, call[q].vm, call[q].disk)
    BY EnvFacts
  <2>2. call[q].op \in RestartOps \/ call[q].pc \in {"connect", "start", "update"}
        => call[q].vm \in VMs
    BY <2>1 DEF Shape, RestartOps, VmOps
  <2> QED
    BY <1>3, <1>4, <2>1, <2>2 DEF EnvFollows
<1> QED
  BY <1>5, <1>6, <1>7 DEF EnvInv

LEMMA InitEnv == Init => EnvInv
<1> SUFFICES ASSUME Init PROVE EnvInv
  OBVIOUS
<1>1. ctr = [v \in VMs |-> NoContainer] /\ call = [p \in Procs |-> NoCall]
  BY DEF Init, EngineInit, DirectorInit
<1>2. NoCall.vm = None /\ NoCall.disk = None /\ NoCall.op = "none" /\ NoCall.pc = "idle"
      /\ ~NoCall.failed /\ ~NoContainer.env.ok /\ NoContainer.late = {}
  BY DEF NoCall, NoContainer, NoEnv
<1>3. FreshUnused /\ OneCallPerVM
  BY <1>1, <1>2, CidAssumption DEF FreshUnused, OneCallPerVM, Busy
<1>4. EnvFollows(NoCall)
  BY <1>2 DEF EnvFollows, RestartOps
<1>5. EnvInMemory /\ EnvListsMounts /\ LateLists
  BY <1>1, <1>2, <1>4 DEF EnvInMemory, EnvListsMounts, LateLists
<1> QED
  BY <1>3, <1>5, InitType DEF EnvInv

LEMMA NextEnv ==
  ASSUME Disciplined
  PROVE  EnvInv /\ [Next]_vars => EnvInv'
<1> SUFFICES ASSUME EnvInv, [Next]_vars PROVE EnvInv'
  OBVIOUS
<1>1. TypeInv'
  BY NextType DEF EnvInv
<1>2. ASSUME NEW p \in Procs, Begins(p) PROVE EnvInv'
  BY <1>1, <1>2, BeginsEnv
<1>3. ASSUME NEW p \in Procs, CallStep(p) PROVE EnvInv'
  BY <1>1, <1>3, ContainerEnv, FactoryEnv, DiskEnv, EndEnv DEF CallStep, Return
<1>4. ASSUME NEW p \in Procs, Crash(p) PROVE EnvInv'
  BY <1>1, <1>4, EndEnv DEF Crash
<1>5. ASSUME NEW v \in VMs, AgentWrites(v) \/ LateWrite(v) \/ Dies(v) PROVE EnvInv'
  BY <1>1, <1>5, WorldEnv
<1>6. CASE UNCHANGED vars
  BY <1>1, <1>6 DEF EnvInv, FreshUnused, OneCallPerVM, EnvInMemory, EnvFollows, EnvListsMounts,
                    LateLists, Busy, vars, engine, director
<1> QED
  BY <1>2, <1>3, <1>4, <1>5, <1>6 DEF Next

\* Attach- and DetachDisk write the agent env and the mounts in two places of
\* two containers.  With one call per VM at a time they agree in every state
\* in which the agent could read the env, whatever API call fails and wherever
\* the process dies.
THEOREM EnvAgrees == ASSUME Disciplined PROVE Spec => []EnvListsMounts
<1>1. EnvInv => EnvListsMounts
  BY DEF EnvInv
<1> QED
  BY <1>1, InitEnv, NextEnv, PTL DEF Spec
=============================================================================
