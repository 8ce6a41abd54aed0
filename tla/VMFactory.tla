------------------------------ MODULE VMFactory ------------------------------
(***************************************************************************)
(* vm/factory.go: create_vm.                                               *)
(***************************************************************************)
EXTENDS Container

Creates(p) == call[p].op = "create_vm"

\* Networks.Enable (module Networks) and, when the Director names disks, a
\* VolumeList for the node of the first one: nothing to undo when they fail.
Prepare(p) ==
  /\ At(p, "prepare")
  /\ \/ Become(p, [call[p] EXCEPT !.pc = "create", !.nets = asked[VM(p)]])
     \/ Faults(p) /\ Fail(p)
  /\ UNCHANGED engine

\* No persistent disk is bound; the Director attaches them later.
CreateContainer(p) == Creates(p) /\ CreateStep(p, {}, FALSE)

ConnectNetwork(p) == Creates(p) /\ ConnectStep(p)

StartContainer(p) == Creates(p) /\ StartStep(p, Goto(p, "abandon"))

WriteAgentEnv(p) == Creates(p) /\ UpdateStep(p, Done(p), Goto(p, "abandon"))

\* cleanUpContainer logs an error of its own and keeps the ephemeral volume.
Abandon(p) ==
  LET v == VM(p) IN
  /\ At(p, "abandon")
  /\ \/ Exists(v) /\ CtrRemove(v)
     \/ (~Exists(v) \/ Faults(p)) /\ UNCHANGED engine
  /\ Fail(p)

FactoryStep(p) ==
  \/ Prepare(p) \/ CreateContainer(p) \/ ConnectNetwork(p) \/ StartContainer(p)
  \/ WriteAgentEnv(p) \/ Abandon(p)
=============================================================================
