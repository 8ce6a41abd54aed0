------------------------------ MODULE Director ------------------------------
(***************************************************************************)
(* The calls in flight, and the BOSH Director that makes them.             *)
(*                                                                         *)
(* The Director starts the CPI's binary once per call (main.go: ServeOnce) *)
(* and learns the result from its output, so a call is a process of its    *)
(* own: call[p] holds the local variables of the one that runs in slot p,  *)
(* and nothing survives it but what it did to the engine.                  *)
(***************************************************************************)
EXTENDS Engine

CONSTANTS
  Procs,        \* slots for CPI processes: how many calls run at once
  None,         \* in the fields vm and disk of a call: there is none
  Disciplined,  \* the Director locks VMs and disks and only uses CIDs it holds
  Faulty,       \* API calls fail, replies are lost, processes and VMs die
  Foretold,     \* it is foretold which calls meet no failure (sure)
  MaxKills      \* container.go:112 tries ContainerKill 20 times

ASSUME CidAssumption == VMs \cap Disks = {} /\ None \notin VMs \cup Disks
ASSUME FlagAssumption == 
  Disciplined \in BOOLEAN /\ Faulty \in BOOLEAN /\ Foretold \in BOOLEAN
ASSUME MaxKillsAssumption == MaxKills \in Nat \ {0}

VARIABLES
  call,   \* call[p]: the CPI process in slot p
  cid,    \* cid[x]: what the Director knows of the CID x
  held,   \* held[v]: the disks the Director takes to be attached to v
  doubt,  \* disciplined: the VMs and disks a call on which failed, and VMs that died
  asked   \* asked[v]: the networks create_vm was asked for
director == <<cid, held, doubt, asked>>
vars == <<engine, call, director>>

VmOps == {"create_vm", "delete_vm", "attach_disk", "detach_disk"}
DiskOps == {"create_disk", "delete_disk"}
QueryOps == {"has_vm", "has_disk"}
Ops == VmOps \cup DiskOps \cup QueryOps

Pcs == {"idle", "ok", "err",
        "exists", "fetch", "settings", "records", "inspect", \* Attach-, DetachDisk
        "delExists", "kill", "remove", "scratch",            \* Delete
        "findNode", "create", "connect", "start",            \* restartByRecreating
        "update", "upload", "chgrp",                         \* and after it
        "prepare", "abandon",                                \* Factory.Create
        "locate", "volCreate", "volRemove",                  \* disks
        "hasVM", "hasDisk", "yes", "no"}                     \* queries

Calls ==
  [op : Ops \cup {"none"}, pc : Pcs,
   vm : VMs \cup {None}, disk : Disks \cup {None},
   env : SUBSET Disks,    \* the disks in the agent env that is in memory
   binds : SUBSET Disks, nets : SUBSET Nets, \* from ContainerInspect
   had : SUBSET Files,    \* files in the VM when the call began (history)
   got : SUBSET Files,    \* downloaded and not yet uploaded again
   left : SUBSET Nets,    \* networks still to be connected
   tries : 0..MaxKills,   \* iterations of tryKilling
   failed : BOOLEAN,      \* this Delete cleans up after a failed start
   sure : BOOLEAN]        \* Able as it starts, and nothing will fail around it

NoCall ==
  [op |-> "none", pc |-> "idle", vm |-> None, disk |-> None, env |-> {},
   binds |-> {}, nets |-> {}, had |-> {}, got |-> {}, left |-> {}, tries |-> 0,
   failed |-> FALSE, sure |-> FALSE]

DirectorTypeOK ==
  /\ call \in [Procs -> Calls]
  /\ cid \in [VMs \cup Disks -> {"fresh", "drawn", "known", "deleted"}]
  /\ held \in [VMs -> SUBSET Disks]
  /\ doubt \in SUBSET (VMs \cup Disks)
  /\ asked \in [VMs -> SUBSET Nets]

DirectorInit ==
  /\ call = [p \in Procs |-> NoCall]
  /\ cid = [x \in VMs \cup Disks |-> "fresh"]
  /\ held = [v \in VMs |-> {}]
  /\ doubt = {}
  /\ asked = [v \in VMs |-> {}]

Busy(x) == \E p \in Procs : x \in {call[p].vm, call[p].disk}

-----------------------------------------------------------------------------
(* Steps of the calls.                                                     *)

At(p, pc) == call[p].pc = pc
Become(p, c) == call' = [call EXCEPT ![p] = c] /\ UNCHANGED director
Goto(p, pc) == Become(p, [call[p] EXCEPT !.pc = pc])

\* Something fails around the call: never around one that is sure.
Faults(p) == Faulty /\ ~call[p].sure

\* An API call fails on the way: before its effect, or its reply is lost.
Fault(p, effect) == Faults(p) /\ (effect \/ UNCHANGED engine)

-----------------------------------------------------------------------------
(* The Director starts a call.                                             *)

\* x is a CID the Director may name in a new call.
Target(x) ==
  IF Disciplined THEN cid[x] = "known" /\ ~Busy(x)
                 ELSE cid[x] \in {"known", "deleted"}

\* What a call needs of the VM and the disk it is about.  An attach or a detach
\* fails on a VM that does not run or whose agent env is torn, and an attach fails
\* of a disk that is mounted there already; delete_vm needs nothing.
Able(op, v, d) ==
  CASE op = "attach_disk" -> Up(v) /\ d \notin ctr[v].binds /\ volume[d] # "none"
    [] op = "detach_disk" -> Up(v) /\ volume[d] # "none"
    [] op = "create_disk" -> v # None => Exists(v)
    [] op = "delete_disk" -> ~InUse(d) /\ volume[d] # "none"
    [] OTHER -> TRUE

\* It is settled here whether the call meets a failure: sure is a prophecy.
Begin(p, op, pc, v, d) ==
  /\ At(p, "idle")
  /\ \E sure \in BOOLEAN :
       /\ sure => Foretold /\ Able(op, v, d)
       /\ call' = [call EXCEPT ![p] =
                     [NoCall EXCEPT !.op = op, !.pc = pc, !.vm = v, !.disk = d,
                                    !.had = IF v = None THEN {} ELSE Present(v),
                                    !.sure = sure]]

\* create_vm draws a fresh UUID, which no one sees before ContainerCreate.
BeginCreateVM(p) ==
  \E v \in VMs, N \in SUBSET Nets \ {{}} :
    /\ cid[v] = "fresh"
    /\ Begin(p, "create_vm", "prepare", v, None)
    /\ cid' = [cid EXCEPT ![v] = "drawn"]
    /\ asked' = [asked EXCEPT ![v] = N]
    /\ UNCHANGED <<engine, held, doubt>>

BeginDeleteVM(p) ==
  \E v \in VMs :
    /\ Target(v)
    /\ Begin(p, "delete_vm", "delExists", v, None)
    /\ UNCHANGED <<engine, director>>

\* A disciplined Director attaches a disk to one VM at a time, and again only
\* when it cannot know that the first attempt succeeded.
BeginAttachDisk(p) ==
  \E v \in VMs, d \in Disks :
    /\ Target(v) /\ Target(d)
    /\ Disciplined => /\ \A w \in VMs \ {v} : d \notin held[w]
                      /\ d \in held[v] => v \in doubt
    /\ Begin(p, "attach_disk", "exists", v, d)
    /\ held' = [held EXCEPT ![v] = @ \cup {d}]
    /\ UNCHANGED <<engine, cid, doubt, asked>>

BeginDetachDisk(p) ==
  \E v \in VMs, d \in Disks :
    /\ Target(v) /\ Target(d)
    /\ Disciplined => d \in held[v]
    /\ Begin(p, "detach_disk", "exists", v, d)
    /\ UNCHANGED <<engine, director>>

\* create_disk may name the VM the disk is for.
BeginCreateDisk(p) ==
  \E d \in Disks, v \in VMs \cup {None} :
    /\ cid[d] = "fresh"
    /\ v # None => Target(v)
    /\ Begin(p, "create_disk", IF v = None THEN "volCreate" ELSE "locate", v, d)
    /\ cid' = [cid EXCEPT ![d] = "drawn"]
    /\ UNCHANGED <<engine, held, doubt, asked>>

BeginDeleteDisk(p) ==
  \E d \in Disks :
    /\ Target(d)
    /\ Disciplined => \A v \in VMs : d \notin held[v]
    /\ Begin(p, "delete_disk", "volRemove", None, d)
    /\ UNCHANGED <<engine, director>>

\* The queries may also be about a CID that is no more.
Asked(x) == cid[x] \in {"known", "deleted"} /\ (Disciplined => ~Busy(x))

BeginHasVM(p) ==
  \E v \in VMs :
    /\ Asked(v)
    /\ Begin(p, "has_vm", "hasVM", v, None)
    /\ UNCHANGED <<engine, director>>

BeginHasDisk(p) ==
  \E d \in Disks :
    /\ Asked(d)
    /\ Begin(p, "has_disk", "hasDisk", None, d)
    /\ UNCHANGED <<engine, director>>

-----------------------------------------------------------------------------
(* The Director learns the result, or that the process is no more.         *)

CidAfter(c, ok) ==
  CASE ok /\ c.op = "create_vm"   -> [cid EXCEPT ![c.vm] = "known"]
    [] ok /\ c.op = "delete_vm"   -> [cid EXCEPT ![c.vm] = "deleted"]
    [] ok /\ c.op = "create_disk" -> [cid EXCEPT ![c.disk] = "known"]
    [] ok /\ c.op = "delete_disk" -> [cid EXCEPT ![c.disk] = "deleted"]
    [] OTHER -> cid

HeldAfter(c, ok) ==
  CASE ok /\ c.op = "detach_disk" -> [held EXCEPT ![c.vm] = @ \ {c.disk}]
    [] ok /\ c.op = "delete_vm"   -> [held EXCEPT ![c.vm] = {}]
    [] OTHER -> held

DoubtAfter(c, ok) ==
  IF ok \/ ~Disciplined         THEN doubt
  ELSE IF c.op \in VmOps        THEN doubt \cup {c.vm}
  ELSE IF c.op = "delete_disk"  THEN doubt \cup {c.disk}
                                ELSE doubt

End(p, ok) ==
  /\ call' = [call EXCEPT ![p] = NoCall]
  /\ cid' = CidAfter(call[p], ok)
  /\ held' = HeldAfter(call[p], ok)
  /\ doubt' = DoubtAfter(call[p], ok)
  /\ UNCHANGED <<engine, asked>>

Return(p) ==
  \/ (At(p, "ok") \/ At(p, "yes") \/ At(p, "no")) /\ End(p, TRUE)
  \/ At(p, "err") /\ End(p, FALSE)

\* The process is killed, or its answer does not reach the Director.
Crash(p) == Faults(p) /\ ~At(p, "idle") /\ End(p, FALSE)
=============================================================================
