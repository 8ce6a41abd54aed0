-------------------------------- MODULE Cloud --------------------------------
(***************************************************************************)
(* What the CPI promises of a VM, without containers, files and API calls. *)
(*                                                                         *)
(* A VM that is up has an agent that knows exactly the disks that are      *)
(* mounted.  The set only changes by one disk at a time, through a rebuild *)
(* in which the VM is not up; a rebuild ends with the VM up with the disks *)
(* it was begun for, or with the VM down; and a VM that is down stays so.  *)
(***************************************************************************)
CONSTANTS VMs, Disks

VARIABLES state, disks
cloud == <<state, disks>>

States == {"absent", "building", "up", "down"}

TypeOK ==
  /\ state \in [VMs -> States]
  /\ disks \in [VMs -> SUBSET Disks]

Init ==
  /\ state = [v \in VMs |-> "absent"]
  /\ disks = [v \in VMs |-> {}]

Set(v, s, D) ==
  /\ state' = [state EXCEPT ![v] = s]
  /\ disks' = [disks EXCEPT ![v] = D]

Create(v) == state[v] = "absent" /\ Set(v, "building", {})

\* A rebuild for the disks there are, one more, or one less.
Rebuild(v) ==
  /\ state[v] = "up"
  /\ \E d \in Disks : \E D \in {disks[v] \cup {d}, disks[v] \ {d}} :
       Set(v, "building", D)

Finish(v) == state[v] = "building" /\ Set(v, "up", disks[v])

Lose(v) == state[v] \in {"building", "up"} /\ Set(v, "down", {})

Next == \E v \in VMs : Create(v) \/ Rebuild(v) \/ Finish(v) \/ Lose(v)

Spec == Init /\ [][Next]_cloud
=============================================================================
