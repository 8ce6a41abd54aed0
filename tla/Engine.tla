------------------------------- MODULE Engine -------------------------------
(***************************************************************************)
(* The Docker engine as the CPI uses it: containers, the ephemeral and the *)
(* persistent volumes, and the effect of each API call the CPI makes.      *)
(*                                                                         *)
(* The engine is not in this repository.  Every definition here is what    *)
(* the code in src/src/bosh-docker-cpi relies on; the assumptions are      *)
(* listed in the README ("The engine").                                    *)
(***************************************************************************)
EXTENDS Naturals, FiniteSets

CONSTANTS
  VMs,     \* VM CIDs: "c-" and a fresh UUID; also the container's name
  Disks,   \* disk CIDs: "vol-" and a fresh UUID; also the volume's name
  Nets,    \* the engine's networks
  Files    \* of {"settings", "records"}, the files kept over a restart

ASSUME FilesAssumption == Files \subseteq {"settings", "records"}

VARIABLES
  ctr,      \* ctr[v]: the container named v
  scratch,  \* the VMs whose ephemeral volume vol-eph-v exists
  volume    \* volume[d]: "none", "made" by create_disk, or "blank"
engine == <<ctr, scratch, volume>>

\* warden-cpi-agent-env.json: the persistent disks it lists, or no file that
\* parses (never written, or an upload that was cut short).
NoEnv == [ok |-> FALSE, disks |-> {}]
EnvOf(S) == [ok |-> TRUE, disks |-> S]

NoContainer == [st |-> "none", binds |-> {}, nets |-> {}, env |-> NoEnv, late |-> {},
                files |-> [f \in Files |-> "absent"]]

\* late: the list of an agent env that a tar may still write, whose upload gave
\* up on it.  files[f]: "root" and "vcap" are the group that owns the file;
\* "absent" stands for an empty file too.
Containers ==
  [st : {"none", "created", "running", "exited"},
   binds : SUBSET Disks, nets : SUBSET Nets,
   env : [ok : BOOLEAN, disks : SUBSET Disks], late : SUBSET (SUBSET Disks),
   files : [Files -> {"absent", "root", "vcap"}]]

EngineTypeOK ==
  /\ ctr \in [VMs -> Containers]
  /\ scratch \in SUBSET VMs
  /\ volume \in [Disks -> {"none", "made", "blank"}]

EngineInit ==
  /\ ctr = [v \in VMs |-> NoContainer]
  /\ scratch = {}
  /\ volume = [d \in Disks |-> "none"]

Exists(v) == ctr[v].st # "none"
Running(v) == ctr[v].st = "running"
\* The agent runs and has an env.
Up(v) == Running(v) /\ ctr[v].env.ok
Present(v) == {f \in Files : ctr[v].files[f] # "absent"}
InUse(d) == \E v \in VMs : d \in ctr[v].binds

-----------------------------------------------------------------------------
(* The effects of the API calls.  The caller states when each is refused.  *)

SetCtr(v, c) == ctr' = [ctr EXCEPT ![v] = c] /\ UNCHANGED <<scratch, volume>>

\* POST /containers/create: the root filesystem is new, the ephemeral volume is
\* kept or made, and a bind that names no volume makes an empty one.
CtrCreate(v, B, N) ==
  /\ ctr' = [ctr EXCEPT ![v] = [NoContainer EXCEPT !.st = "created",
                                                   !.binds = B, !.nets = N]]
  /\ scratch' = scratch \cup {v}
  /\ volume' = [d \in Disks |-> IF d \in B /\ volume[d] = "none"
                                THEN "blank" ELSE volume[d]]

NetConnect(v, n) == SetCtr(v, [ctr[v] EXCEPT !.nets = @ \cup {n}])
CtrStart(v) == SetCtr(v, [ctr[v] EXCEPT !.st = "running"])
CtrStop(v) == SetCtr(v, [ctr[v] EXCEPT !.st = "exited", !.late = {}])
CtrRemove(v) == SetCtr(v, NoContainer)
PutEnv(v, e) == SetCtr(v, [ctr[v] EXCEPT !.env = e])
PutLate(v, S) == SetCtr(v, [ctr[v] EXCEPT !.late = {S}])
PutFile(v, f, group) == SetCtr(v, [ctr[v] EXCEPT !.files[f] = group])

ScratchRemove(v) == scratch' = scratch \ {v} /\ UNCHANGED <<ctr, volume>>
SetVolume(d, s) == volume' = [volume EXCEPT ![d] = s] /\ UNCHANGED <<ctr, scratch>>
=============================================================================
