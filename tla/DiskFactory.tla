----------------------------- MODULE DiskFactory -----------------------------
(***************************************************************************)
(* disk/factory.go and disk/volume.go: create_disk, delete_disk, has_disk. *)
(***************************************************************************)
EXTENDS VMFactory

\* possiblyFindNodeWithContainer.
Locate(p) ==
  /\ At(p, "locate")
  /\ \/ Exists(VM(p)) /\ Goto(p, "volCreate")
     \/ (~Exists(VM(p)) \/ Faults(p)) /\ Fail(p)
  /\ UNCHANGED engine

VolumeCreate(p) ==
  LET made == SetVolume(call[p].disk, "made") IN
  /\ At(p, "volCreate")
  /\ \/ made /\ Done(p)
     \/ Fault(p, made) /\ Fail(p)

\* The engine refuses to remove a volume a container has; it may or may not
\* take a forced removal of a missing one for an error.
VolumeRemove(p) ==
  LET d == call[p].disk
      removed == ~InUse(d) /\ SetVolume(d, "none") IN
  /\ At(p, "volRemove")
  /\ \/ removed /\ Done(p)
     \/ (InUse(d) \/ volume[d] = "none") /\ UNCHANGED engine /\ Fail(p)
     \/ Fault(p, removed) /\ Fail(p)

HasDisk(p) ==
  /\ At(p, "hasDisk")
  /\ \/ Finish(p, IF volume[call[p].disk] = "none" THEN "no" ELSE "yes")
     \/ Faults(p) /\ Fail(p)
  /\ UNCHANGED engine

DiskStep(p) == Locate(p) \/ VolumeCreate(p) \/ VolumeRemove(p) \/ HasDisk(p)
=============================================================================
