---------------------------- MODULE CpiInvariant ----------------------------
(***************************************************************************)
(* The inductive invariants behind the theorems of the proof modules:      *)
(* EnvInv in CpiProofs, Books in CpiBookProofs, Success, Progress and      *)
(* FilesSafe in CpiSuccessProofs, CloudInv in CpiCloudProofs.              *)
(***************************************************************************)
EXTENDS Cpi

RestartOps == {"attach_disk", "detach_disk"}

\* Which operation is where, and which of its arguments it has.
Shape(op, pc, v, d) ==
  /\ op \in VmOps => v \in VMs
  /\ op \in RestartOps \cup DiskOps => d \in Disks
  /\ pc \in {"exists", "fetch", "settings", "records", "inspect", "findNode",
             "upload", "chgrp"} => op \in RestartOps
  /\ pc \in {"delExists", "kill", "remove", "scratch"} => op \in RestartOps \cup {"delete_vm"}
  /\ pc \in {"create", "connect", "start", "update"} => op \in RestartOps \cup {"create_vm"}
  /\ pc \in {"prepare", "abandon"} => op = "create_vm"
  /\ pc \in {"locate", "volCreate"} => op = "create_disk"
  /\ pc = "volRemove" => op = "delete_disk"
  /\ op = "has_vm" => v \in VMs
  /\ op = "has_disk" => d \in Disks
  /\ pc = "hasVM" => op = "has_vm"
  /\ pc = "hasDisk" => op = "has_disk"
  /\ pc \in {"yes", "no"} => op \in QueryOps
  /\ pc = "locate" => v \in VMs
  /\ pc # "idle" => op # "none"

Shaped(c) == Shape(c.op, c.pc, c.vm, c.disk) /\ (c.pc = "idle" => c = NoCall)

CallsShaped == \A p \in Procs : Shaped(call[p])

\* A VM that create_vm has not begun does not exist, and no call is about it.
FreshUnused ==
  \A v \in VMs : cid[v] = "fresh" => ~Busy(v) /\ ctr[v] = NoContainer

\* The Director's lock: one call per VM.
OneCallPerVM ==
  \A p, q \in Procs : call[p].vm \in VMs /\ call[p].vm = call[q].vm => p = q

\* The env in memory follows the mounts of the container it was read from,
\* those of the inspected one, those of the new one.
EnvFollows(c) ==
  /\ c.op \in RestartOps /\ c.pc \in {"settings", "records", "inspect"} =>
       c.env = ChangeDisks(c.op, ctr[c.vm].binds, c.disk)
  /\ c.op \in RestartOps /\ ~c.failed
       /\ c.pc \in {"delExists", "kill", "remove", "scratch", "findNode", "create"} =>
       c.env = UpdateBinds(c.op, c.binds, c.disk)
  /\ c.op = "create_vm" /\ c.pc \in {"prepare", "create"} => c.env = {}
  /\ c.pc \in {"connect", "start", "update"} => c.env = ctr[c.vm].binds
  /\ c.failed => c.pc \in {"delExists", "kill", "remove", "scratch"}

\* A tar that is late writes the list of the container it runs in.
LateLists == \A v \in VMs : \A S \in ctr[v].late : S = ctr[v].binds

EnvInMemory == \A p \in Procs : EnvFollows(call[p])

TypeInv == TypeOK /\ CallsShaped
EnvInv == TypeInv /\ FreshUnused /\ OneCallPerVM /\ EnvInMemory /\ EnvListsMounts /\ LateLists

-----------------------------------------------------------------------------
(* The Director's books: what it may take for granted of its VMs and disks *)
(* while calls on them run, and what a call knows at each of its steps.    *)

\* The steps between reading the VM's state and deleting it, up to the new
\* container, from there to its agent env, and after it.
Reads == {"settings", "records", "inspect"}
Remakes == {"delExists", "kill", "remove", "scratch", "findNode", "create"}
Builds == {"connect", "start", "update"}
Restores == {"upload", "chgrp"}

OneCallPerDisk ==
  \A p, q \in Procs : call[p].disk \in Disks /\ call[p].disk = call[q].disk => p = q

\* A CID stays what it was when the call on it began.
KnowsCids(c) ==
  /\ c.vm \in VMs =>
       /\ c.op = "create_vm" => cid[c.vm] = "drawn"
       /\ c.op = "has_vm" => cid[c.vm] \in {"known", "deleted"}
       /\ c.op \notin {"create_vm", "has_vm"} => cid[c.vm] = "known"
       /\ c.op \notin {"delete_disk", "has_disk"}
  /\ c.disk \in Disks =>
       /\ c.op = "create_disk" => cid[c.disk] = "drawn"
       /\ c.op = "has_disk" => cid[c.disk] \in {"known", "deleted"}
       /\ c.op \notin {"create_disk", "has_disk"} => cid[c.disk] = "known"

\* Where the container is, and is not, while a call replaces or removes it.
Stands(c) ==
  /\ c.pc \in {"kill", "remove", "connect", "start"} => Exists(c.vm)
  /\ c.pc \in {"prepare", "findNode", "create"} => ~Exists(c.vm)
  /\ c.op = "delete_vm" /\ c.pc = "ok" => ~Exists(c.vm) /\ c.vm \notin scratch

\* The networks are carried from the old container to the new one.
NetsFollow(c) ==
  /\ c.pc \in Reads => ctr[c.vm].nets = asked[c.vm]
  /\ c.op \in RestartOps /\ c.pc \in Remakes /\ ~c.failed => c.nets = asked[c.vm]
  /\ c.op = "create_vm" /\ c.pc = "create" => c.nets = asked[c.vm]
  /\ c.pc = "connect" => ctr[c.vm].nets \cup c.left = asked[c.vm]
  /\ c.pc = "start" => ctr[c.vm].nets = asked[c.vm]

\* The Director holds what a call binds, and no disk that a call deletes.
DisksHeld(c) ==
  /\ c.op \in RestartOps => c.disk \in held[c.vm] /\ c.binds \subseteq held[c.vm]
  /\ c.op \notin RestartOps => c.binds = {}
  /\ c.op = "delete_disk" => \A v \in VMs : c.disk \notin held[v]
  /\ c.op = "detach_disk" /\ c.pc \in Builds \cup Restores \cup {"ok"} =>
       c.disk \notin ctr[c.vm].binds

\* The volumes of the old container are there for the new one.
VolumesKept(c) ==
  /\ \A d \in c.binds : volume[d] # "none"
  /\ c.op \in RestartOps /\ c.pc = "create" => volume[c.disk] # "none"
  /\ c.op = "create_disk" /\ c.pc = "ok" => volume[c.disk] # "none"
  /\ c.op = "delete_disk" /\ c.pc = "ok" => volume[c.disk] = "none"

CallBook(c) ==
  KnowsCids(c) /\ Stands(c) /\ NetsFollow(c) /\ DisksHeld(c) /\ VolumesKept(c)

\* What is mounted is held, by one VM; nothing is left of a VM that is gone.
VMBook(v) ==
  /\ ctr[v].binds \subseteq held[v]
  /\ cid[v] # "known" => held[v] = {}
  /\ ~Exists(v) => ctr[v] = NoContainer
  /\ \A d \in ctr[v].binds : volume[d] # "none"
  /\ cid[v] = "deleted" => ~Exists(v) /\ v \notin scratch
  /\ Running(v) => ctr[v].nets = asked[v]

DiskBook(d) ==
  /\ volume[d] # "blank"
  /\ cid[d] = "deleted" => volume[d] = "none"

HeldOnce == \A v, w \in VMs : v # w => held[v] \cap held[w] = {}

Books ==
  /\ OneCallPerDisk /\ HeldOnce
  /\ \A p \in Procs : CallBook(call[p])
  /\ \A v \in VMs : VMBook(v)
  /\ \A d \in Disks : DiskBook(d)

-----------------------------------------------------------------------------
(* Success: a VM or disk on which no call has failed is what the Director  *)
(* takes it to be, and a call that runs on it is about to make it so.      *)

Whole(v, S) == Up(v) /\ ctr[v].binds = S

\* The disks before the call and after it.
Before(c) == IF c.op = "attach_disk" THEN held[c.vm] \ {c.disk} ELSE held[c.vm]
After(c) == IF c.op = "attach_disk" THEN held[c.vm] ELSE held[c.vm] \ {c.disk}

VMSound(c) ==
  c.vm \in VMs \ doubt =>
    /\ c.op \in {"has_vm", "create_disk"} /\ cid[c.vm] = "known" => Whole(c.vm, held[c.vm])
    /\ c.op = "create_vm" /\ c.pc = "ok" => Up(c.vm)
    /\ c.op \in RestartOps =>
         /\ c.pc \in {"exists", "fetch"} => Whole(c.vm, Before(c))
         /\ c.pc \in Reads => ctr[c.vm].binds = Before(c)
         /\ c.pc \in Remakes /\ ~c.failed => c.binds = Before(c)
         /\ c.pc \in Builds => ctr[c.vm].binds = After(c)
         /\ c.pc \in Restores \cup {"ok"} => Whole(c.vm, After(c))

DiskSound(c) ==
  c.disk \in Disks \ doubt /\ c.op # "delete_disk" /\ cid[c.disk] = "known" =>
    volume[c.disk] # "none"

Answers(c) ==
  /\ c.op = "has_vm" /\ c.pc = "no" => cid[c.vm] = "deleted" \/ c.vm \in doubt
  /\ c.op = "has_vm" /\ c.pc = "yes" => cid[c.vm] = "known"
  /\ c.op = "has_disk" /\ c.pc = "no" => cid[c.disk] = "deleted" \/ c.disk \in doubt
  /\ c.op = "has_disk" /\ c.pc = "yes" => cid[c.disk] = "known"

DisksReal ==
  \A d \in Disks : cid[d] = "known" /\ d \notin doubt /\ ~Busy(d) => volume[d] # "none"

Success ==
  /\ SuccessIsReal /\ DisksReal
  /\ \A p \in Procs : VMSound(call[p]) /\ DiskSound(call[p]) /\ Answers(call[p])

-----------------------------------------------------------------------------
(* Progress: around a call that is sure nothing fails, and around no call  *)
(* at all if nothing is faulty.                                            *)

Smooth(c) == c.sure \/ ~Faulty

GoesWell(c) ==
  Smooth(c) =>
    /\ c.pc \notin {"err", "abandon"} /\ ~c.failed
    /\ c.op \in RestartOps /\ c.pc \in {"exists", "fetch"} => Up(c.vm)
    /\ c.pc \in Reads \cup Restores \cup {"update"} => Running(c.vm)
    /\ c.op \in RestartOps /\ c.pc \in {"exists", "fetch"} \cup Reads \cup Remakes =>
         volume[c.disk] # "none"
    /\ c.op = "attach_disk" =>
         /\ c.pc \in {"exists", "fetch"} \cup Reads => c.disk \notin ctr[c.vm].binds
         /\ c.pc \in Remakes => c.disk \notin c.binds
    /\ c.pc = "scratch" => ~Exists(c.vm)
    /\ c.pc = "locate" => Exists(c.vm)
    /\ c.pc = "volRemove" => volume[c.disk] # "none"

NoDoubt == ~Faulty => doubt = {}

Progress == NoDoubt /\ \A p \in Procs : GoesWell(call[p])

\* If nothing is faulty, the files pass from the VM through the call to the VM.
FilesFollow(c) ==
  c.op \in RestartOps /\ ~Faulty =>
    /\ c.pc \in {"exists", "fetch", "settings", "records", "chgrp", "ok"} =>
         c.had \subseteq Present(c.vm)
    /\ c.pc = "records" => c.had \cap {"settings"} \subseteq c.got
    /\ c.pc \in {"inspect"} \cup Remakes \cup Builds => c.had \subseteq c.got
    /\ c.pc = "upload" => c.had \subseteq c.got \cup Present(c.vm)

FilesSafe == \A p \in Procs : FilesFollow(call[p])

-----------------------------------------------------------------------------
(* Cloud: what the refinement needs to know of a call that holds an env.   *)

\* Until the old container is stopped its agent has an env, and the one in
\* memory is one disk away from its mounts.
Standing(c) ==
  /\ c.op \in RestartOps /\ ~c.failed
  /\ c.pc \in Reads \cup {"delExists", "kill", "remove", "scratch"} /\ Running(c.vm)
  => ctr[c.vm].env.ok /\ c.env = ChangeDisks(c.op, ctr[c.vm].binds, c.disk)

\* The new container has none, and no tar in it is late.
Unready(c) == c.pc \in Builds => ~ctr[c.vm].env.ok /\ ctr[c.vm].late = {}

CloudInv == \A p \in Procs : Standing(call[p]) /\ Unready(call[p])
=============================================================================
