--------------------------------- MODULE Cpi ---------------------------------
(***************************************************************************)
(* The CPI: every call it serves, interleaved API call by API call, with   *)
(* the Director, the agents in the VMs and what can go wrong around them.  *)
(***************************************************************************)
EXTENDS DiskFactory

Init == EngineInit /\ DirectorInit

Begins(p) ==
  \/ BeginCreateVM(p) \/ BeginDeleteVM(p)
  \/ BeginAttachDisk(p) \/ BeginDetachDisk(p)
  \/ BeginCreateDisk(p) \/ BeginDeleteDisk(p)
  \/ BeginHasVM(p) \/ BeginHasDisk(p)

CallStep(p) == ContainerStep(p) \/ FactoryStep(p) \/ DiskStep(p) \/ Return(p)

\* The agent saves its settings and its DNS records, readable by group vcap.
AgentWrites(v) ==
  /\ Running(v) /\ ctr[v].env.ok
  /\ \E f \in Files : PutFile(v, f, "vcap")
  /\ UNCHANGED <<call, director>>

\* The tar of an upload that failed by its timeout ends after all.
LateWrite(v) ==
  /\ Running(v)
  /\ \E S \in ctr[v].late : SetCtr(v, [ctr[v] EXCEPT !.env = EnvOf(S), !.late = {}])
  /\ UNCHANGED <<call, director>>

\* The VM's first process ends, or the engine restarts.
Dies(v) ==
  /\ Faulty /\ ~\E p \in Procs : VM(p) = v /\ call[p].sure
  /\ Running(v) /\ CtrStop(v)
  /\ doubt' = doubt \cup {v}
  /\ UNCHANGED <<call, cid, held, asked>>

Next ==
  \/ \E p \in Procs : Begins(p) \/ CallStep(p) \/ Crash(p)
  \/ \E v \in VMs : AgentWrites(v) \/ LateWrite(v) \/ Dies(v)

Spec == Init /\ [][Next]_vars

\* A process that runs is scheduled, and the engine answers or fails every API
\* call: the client has no timeout of its own (context.TODO()).
Fairness == \A p \in Procs : WF_vars(CallStep(p))
FairSpec == Spec /\ Fairness

-----------------------------------------------------------------------------
(* Properties.                                                             *)

\* The engine, the calls and the Director's books have their types.
TypeOK == EngineTypeOK /\ DirectorTypeOK

\* AttachDisk and DetachDisk change the mounts and the agent env in different
\* files of different containers: an agent env that parses never lists a disk
\* that is not mounted, nor misses one that is.
EnvListsMounts == \A v \in VMs : ctr[v].env.ok => ctr[v].env.disks = ctr[v].binds

\* A disk that is detached, or whose VM is deleted, is out of the VM for good
\* when the Director hears of it: it can attach it elsewhere without sharing.
DiskInOneVM ==
  \A v, w \in VMs : v # w => ctr[v].binds \cap ctr[w].binds = {}

\* The engine makes an empty volume for a bind that names none: findNodeWithDisk
\* is what keeps a VM from coming back with an empty persistent disk.
NoBlankDisk == \A d \in Disks : volume[d] # "blank"

\* delete_vm reports success only when the container and the ephemeral volume
\* are gone, and nothing makes them again.  After the aufs error the container may
\* still be there: then it is the volume, which that holds, that delete_vm fails on.
DeletedStaysGone ==
  \A v \in VMs : cid[v] = "deleted" => ~Exists(v) /\ v \notin scratch

\* A VM whose container runs is on all the networks create_vm was asked for: the
\* split in one network to create with and others to connect loses none, over
\* any number of restarts.
OnAllNetworks == \A v \in VMs : Running(v) => ctr[v].nets = asked[v]

\* If every call on a VM was reported to have succeeded, and none runs, the VM
\* runs, and the Director, the agent env and the mounts agree on its disks.
SuccessIsReal ==
  \A v \in VMs : cid[v] = "known" /\ v \notin doubt /\ ~Busy(v) =>
    Running(v) /\ ctr[v].env = EnvOf(held[v]) /\ ctr[v].binds = held[v]

\* As long as nothing fails around the CPI, a disciplined Director never sees a
\* call fail, so it never loses a VM to a recreation.
NothingFails == \A p \in Procs : call[p].pc # "err"

\* A delete_vm around which nothing fails succeeds, whatever failed before it: on a
\* container that is half made, stopped or gone, with a torn agent env, an ephemeral
\* volume without a container or a tar that is late.  The other calls recover only
\* so far: an attach or a detach if the VM runs with an env that parses, the volume
\* is there and, to attach it, not mounted yet; a create_disk for a VM if that
\* exists; a delete_disk if no container has the disk.
CallsRecover == \A p \in Procs : call[p].pc = "err" => ~call[p].sure

\* has_vm and has_disk agree with the Director's books: "no" of a VM or a disk
\* that the Director holds comes only after a call that failed in the midst of
\* its work, and "yes" never of one it deleted.
AnswersAgree ==
  \A p \in Procs :
    LET c == call[p]  x == IF c.op = "has_vm" THEN c.vm ELSE c.disk IN
    /\ c.pc = "no" => cid[x] = "deleted" \/ x \in doubt
    /\ c.pc = "yes" => cid[x] = "known"

\* A call that reports success has kept what update_settings.json and records.json
\* held when the call began.  An empty file holds nothing, and is not put back.
FilesKept ==
  \A p \in Procs :
    call[p].pc = "ok" /\ Restarts(p) => call[p].had \subseteq Present(VM(p))

\* Every call ends, whatever the others do to its VM: the kill loop is bounded
\* and no call waits for another.
CallsReturn == \A p \in Procs : call[p].pc # "idle" ~> call[p].pc = "idle"

-----------------------------------------------------------------------------
(* Refinement: a VM is up when its agent runs with an env; it is being     *)
(* built while a call holds, in memory, an env it may still write, or a    *)
(* tar does that outlived its call.                                        *)

HoldsEnv(p) ==
  \/ Creates(p) /\ call[p].pc \in {"prepare", "create", "connect", "start", "update"}
  \/ /\ Restarts(p) /\ ~call[p].failed
     /\ call[p].pc \in {"settings", "records", "inspect", "delExists", "kill", "remove",
                        "scratch", "findNode", "create", "connect", "start", "update"}
Builder(p, v) == VM(p) = v /\ HoldsEnv(p)
Pending(v) == Running(v) /\ ctr[v].late # {}

AbsState ==
  [v \in VMs |-> IF Up(v) THEN "up"
                 ELSE IF Pending(v) \/ \E p \in Procs : Builder(p, v) THEN "building"
                 ELSE IF cid[v] = "fresh" THEN "absent" ELSE "down"]
AbsDisks ==
  [v \in VMs |-> IF AbsState[v] = "up" \/ Pending(v) THEN ctr[v].binds
                 ELSE IF AbsState[v] = "building"
                 THEN call[CHOOSE p \in Procs : Builder(p, v)].env ELSE {}]

Abstract == INSTANCE Cloud WITH state <- AbsState, disks <- AbsDisks

\* The CPI implements Cloud: a VM's disks change one at a time and only through
\* a rebuild, and a VM that lost its agent env never comes back.
ImplementsCloud == Abstract!Spec
=============================================================================
