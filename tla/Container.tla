------------------------------ MODULE Container ------------------------------
(***************************************************************************)
(* vm/container.go: delete_vm, attach_disk and detach_disk, one action per *)
(* API call.  A disk is attached or detached by recreating the container:  *)
(* what the engine keeps in it is read into the call, the container is     *)
(* deleted, made again with other binds, and what was read is put back.    *)
(***************************************************************************)
EXTENDS Director

\* The locals of a call end with it; had is kept for the properties,
\* and sure, if it failed.
Finish(p, pc) ==
  Become(p, [NoCall EXCEPT !.op = call[p].op, !.pc = pc, !.vm = call[p].vm,
                           !.disk = call[p].disk, !.had = call[p].had,
                           !.sure = pc = "err" /\ call[p].sure])
Done(p) == Finish(p, "ok")
Fail(p) == Finish(p, "err")

VM(p) == call[p].vm

-----------------------------------------------------------------------------
(* What is read before the container is deleted.                           *)

CheckExists(p) ==
  /\ At(p, "exists")
  /\ \/ Exists(VM(p)) /\ Goto(p, "fetch")
     \/ (~Exists(VM(p)) \/ Faults(p)) /\ Fail(p)
  /\ UNCHANGED engine

\* AgentEnv.AttachPersistentDisk and DetachPersistentDisk.
ForgetfulChangeDisks(op, S, d) == IF op = "attach_disk" THEN {d} ELSE S \ {d}
ChangeDisks(op, S, d) == IF op = "attach_disk" THEN S \cup {d} ELSE S \ {d}

\* agentEnvService.Fetch runs tar in the VM.  The disk is added or removed in
\* the copy that is in memory, which no other step reads before the update.
Fetch(p) ==
  LET c == call[p]  e == ctr[c.vm].env IN
  /\ At(p, "fetch")
  /\ \/ /\ Running(c.vm) /\ e.ok
        /\ Become(p, [c EXCEPT !.pc = "settings",
                               !.env = ChangeDisks(c.op, e.disks, c.disk)])
     \/ (~Running(c.vm) \/ ~e.ok \/ Faults(p)) /\ Fail(p)
  /\ UNCHANGED engine

\* Any error is logged as "Unable to find ..., skipping".  An empty file is
\* downloaded, but nothing of it is uploaded: it counts as absent.
SkipDownload(p, f, next) ==
  /\ Goto(p, next)
  /\ UNCHANGED engine
Download(p, f, next) ==
  LET c == call[p]
      there == Running(c.vm) /\ f \in Present(c.vm) IN
  /\ \/ there /\ Become(p, [c EXCEPT !.pc = next, !.got = @ \cup {f}])
     \/ (~there \/ Faults(p)) /\ Goto(p, next)
  /\ UNCHANGED engine

DownloadSettings(p) == At(p, "settings") /\ Download(p, "settings", "records")
DownloadRecords(p) == At(p, "records") /\ Download(p, "records", "inspect")

Inspect(p) ==
  LET c == call[p] IN
  /\ At(p, "inspect")
  /\ \/ /\ Exists(c.vm)
        /\ Become(p, [c EXCEPT !.pc = "delExists", !.binds = ctr[c.vm].binds,
                               !.nets = ctr[c.vm].nets])
     \/ (~Exists(c.vm) \/ Faults(p)) /\ Fail(p)
  /\ UNCHANGED engine

-----------------------------------------------------------------------------
(* Container.Delete.                                                       *)

\* It is all of delete_vm, the first half of a restart, or the clean-up of one.
DeleteDone(p) ==
  IF call[p].op = "delete_vm" THEN Done(p)
  ELSE IF call[p].failed THEN Fail(p)
  ELSE Goto(p, "findNode")

StrictDeleteExists(p) ==
  /\ At(p, "delExists")
  /\ \/ Exists(VM(p)) /\ Goto(p, "kill")
     \/ (~Exists(VM(p)) \/ Faults(p)) /\ Fail(p)
  /\ UNCHANGED engine
DeleteExists(p) ==
  /\ At(p, "delExists")
  /\ \/ Exists(VM(p)) /\ Goto(p, "kill")
     \/ ~Exists(VM(p)) /\ Goto(p, "scratch")
     \/ Faults(p) /\ Fail(p)
  /\ UNCHANGED engine

UncountedKillFailed(p) == Goto(p, "kill")
UnboundedKillFailed(p) == Become(p, [call[p] EXCEPT !.tries = @ + 1])
KillFailed(p) ==
  IF call[p].tries + 1 < MaxKills
  THEN Become(p, [call[p] EXCEPT !.tries = @ + 1])
  ELSE Fail(p)

\* tryKilling: one iteration.  "is not running" is success; that the container
\* is gone is an error like any other.
Kill(p) ==
  LET v == VM(p)
      killed == Become(p, [call[p] EXCEPT !.pc = "remove", !.tries = 0]) IN
  /\ At(p, "kill")
  /\ \/ Running(v) /\ CtrStop(v) /\ killed
     \/ Exists(v) /\ ~Running(v) /\ UNCHANGED engine /\ killed
     \/ ~Exists(v) /\ UNCHANGED engine /\ KillFailed(p)
     \/ Fault(p, Running(v) /\ CtrStop(v)) /\ KillFailed(p)

\* The aufs error is no failure, whether the engine has removed the container but
\* for its files on the host or still has it: Delete goes on to the volume.
Remove(p) ==
  LET v == VM(p) IN
  /\ At(p, "remove")
  /\ \/ Exists(v) /\ CtrRemove(v) /\ Goto(p, "scratch")
     \/ ~Exists(v) /\ UNCHANGED engine /\ Fail(p)
     \/ Fault(p, Exists(v) /\ CtrRemove(v)) /\ Fail(p)
     \/ Faults(p) /\ Exists(v) /\ (CtrStop(v) \/ CtrRemove(v)) /\ Goto(p, "scratch")

\* The engine refuses to remove the volume of a container that still exists;
\* that the volume does not exist is no error.
LenientRemoveScratch(p) ==
  /\ At(p, "scratch")
  /\ \/ ~Exists(VM(p)) /\ ScratchRemove(VM(p))
     \/ (Exists(VM(p)) \/ Faults(p)) /\ UNCHANGED engine
  /\ DeleteDone(p)
RemoveScratch(p) ==
  LET v == VM(p) IN
  /\ At(p, "scratch")
  /\ \/ ~Exists(v) /\ ScratchRemove(v) /\ DeleteDone(p)
     \/ Exists(v) /\ UNCHANGED engine /\ Fail(p)
     \/ Fault(p, ~Exists(v) /\ ScratchRemove(v)) /\ Fail(p)

-----------------------------------------------------------------------------
(* ContainerCreate, NetworkConnect, ContainerStart and the update of the   *)
(* agent env, as restartByRecreating and Factory.Create both call them.    *)

\* splitNetworkSettings: one network goes into the create request, whichever
\* Go's map yields first, and the others are connected one by one.
SplitNetworks(nets) == IF nets = {} THEN {{}} ELSE {{n} : n \in nets}

\* clash: the request has two binds with one mount point, which is refused.
CreateStep(p, B, clash) ==
  LET c == call[p]
      ready == ~Exists(c.vm) /\ ~clash IN
  /\ At(p, "create")
  /\ \E first \in SplitNetworks(c.nets) :
       \/ /\ ready /\ CtrCreate(c.vm, B, first)
          /\ Become(p, [c EXCEPT !.pc = IF c.nets = first THEN "start" ELSE "connect",
                                 !.left = c.nets \ first, !.binds = {}, !.nets = {}])
       \/ ~ready /\ UNCHANGED engine /\ Fail(p)
       \/ Fault(p, ready /\ CtrCreate(c.vm, B, first)) /\ Fail(p)

\* A failure leaves the container as it is.
ConnectOnlyOne(p) ==
  LET c == call[p] IN
  /\ At(p, "connect")
  /\ \E n \in c.left :
       \/ NetConnect(c.vm, n) /\ Become(p, [c EXCEPT !.pc = "start", !.left = {}])
       \/ ~Exists(c.vm) /\ UNCHANGED engine /\ Fail(p)
ConnectStep(p) ==
  LET c == call[p] IN
  /\ At(p, "connect")
  /\ \E n \in c.left :
       \/ /\ Exists(c.vm) /\ NetConnect(c.vm, n)
          /\ Become(p, [c EXCEPT !.pc = IF c.left = {n} THEN "start" ELSE "connect",
                                 !.left = @ \ {n}])
       \/ ~Exists(c.vm) /\ UNCHANGED engine /\ Fail(p)
       \/ Fault(p, Exists(c.vm) /\ NetConnect(c.vm, n)) /\ Fail(p)

StartStep(p, failed) ==
  LET v == VM(p) IN
  /\ At(p, "start")
  /\ \/ Exists(v) /\ CtrStart(v) /\ Goto(p, "update")
     \/ ~Exists(v) /\ UNCHANGED engine /\ failed
     \/ Fault(p, Exists(v) /\ CtrStart(v)) /\ failed

\* An upload that is cut short leaves a file that does not parse; one that times
\* out leaves a tar that may still finish.
UpdateStep(p, done, failed) ==
  LET v == VM(p) IN
  /\ At(p, "update")
  /\ \/ Running(v) /\ PutEnv(v, EnvOf(call[p].env)) /\ done
     \/ ~Running(v) /\ UNCHANGED engine /\ failed
     \/ Fault(p, Running(v) /\ (PutEnv(v, EnvOf(call[p].env)) \/ PutEnv(v, NoEnv)
                           \/ PutLate(v, call[p].env))) /\ failed

-----------------------------------------------------------------------------
(* restartByRecreating after Delete, and the end of Attach- and DetachDisk. *)

\* The disk is looked for only now that the container is gone.
UncheckedFindNode(p) == At(p, "findNode") /\ Goto(p, "create") /\ UNCHANGED engine
FindNode(p) ==
  LET there == volume[call[p].disk] # "none" IN
  /\ At(p, "findNode")
  /\ \/ there /\ Goto(p, "create")
     \/ (~there \/ Faults(p)) /\ Fail(p)
  /\ UNCHANGED engine

\* updateBinds appends on attach, also what is bound already.
KeepBinds(op, B, d) == IF op = "attach_disk" THEN B \cup {d} ELSE B
UpdateBinds(op, B, d) == IF op = "attach_disk" THEN B \cup {d} ELSE B \ {d}
DuplicateBind(op, B, d) == op = "attach_disk" /\ d \in B

Restarts(p) == call[p].op \in {"attach_disk", "detach_disk"}

Recreate(p) ==
  LET c == call[p] IN
  /\ Restarts(p)
  /\ CreateStep(p, UpdateBinds(c.op, c.binds, c.disk), DuplicateBind(c.op, c.binds, c.disk))

Reconnect(p) == Restarts(p) /\ ConnectStep(p)

Restart(p) ==
  /\ Restarts(p)
  /\ StartStep(p, Become(p, [call[p] EXCEPT !.pc = "delExists", !.failed = TRUE]))

UploadOr(p, rest) == IF rest = {} THEN Done(p)
                     ELSE Become(p, [call[p] EXCEPT !.pc = "upload", !.got = rest])

UncheckedUpdateEnv(p) ==
  Restarts(p) /\ UpdateStep(p, UploadOr(p, call[p].got), UploadOr(p, call[p].got))
UpdateEnv(p) == Restarts(p) /\ UpdateStep(p, UploadOr(p, call[p].got), Fail(p))

\* update_settings.json, then records.json, each if it was downloaded.  tar
\* runs as root; only AttachDisk gives records.json its group back.
Upload(p) ==
  LET c == call[p]
      f == IF "settings" \in c.got THEN "settings" ELSE "records"
      next == IF f = "records" /\ c.op = "attach_disk"
              THEN Become(p, [c EXCEPT !.pc = "chgrp", !.got = {}])
              ELSE UploadOr(p, c.got \ {f}) IN
  /\ At(p, "upload")
  /\ \/ Running(c.vm) /\ PutFile(c.vm, f, "root") /\ next
     \/ ~Running(c.vm) /\ UNCHANGED engine /\ Fail(p)
     \/ Fault(p, Running(c.vm) /\ PutFile(c.vm, f, "root")) /\ Fail(p)

\* runInContainer starts the command and does not look at how it ended.
Chgrp(p) ==
  LET v == VM(p)
      works == Running(v) /\ "records" \in Present(v) /\ PutFile(v, "records", "vcap") IN
  /\ At(p, "chgrp")
  /\ \/ works /\ Done(p)
     \/ Running(v) /\ (Faults(p) \/ "records" \notin Present(v)) /\ UNCHANGED engine /\ Done(p)
     \/ ~Running(v) /\ UNCHANGED engine /\ Fail(p)
     \/ Fault(p, works) /\ Fail(p)

-----------------------------------------------------------------------------
(* has_vm: only an error that says that there is no container means "no".  *)

LenientHasVM(p) ==
  /\ At(p, "hasVM")
  /\ \/ Exists(VM(p)) /\ Finish(p, "yes")
     \/ (~Exists(VM(p)) \/ Faults(p)) /\ Finish(p, "no")
  /\ UNCHANGED engine
HasVM(p) ==
  /\ At(p, "hasVM")
  /\ \/ Finish(p, IF Exists(VM(p)) THEN "yes" ELSE "no")
     \/ Faults(p) /\ Fail(p)
  /\ UNCHANGED engine

ContainerStep(p) ==
  \/ CheckExists(p) \/ Fetch(p) \/ DownloadSettings(p) \/ DownloadRecords(p) \/ Inspect(p)
  \/ DeleteExists(p) \/ Kill(p) \/ Remove(p) \/ RemoveScratch(p)
  \/ FindNode(p) \/ Recreate(p) \/ Reconnect(p) \/ Restart(p)
  \/ UpdateEnv(p) \/ Upload(p) \/ Chgrp(p) \/ HasVM(p)
=============================================================================
