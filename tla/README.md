# A TLA+ model of the BOSH Docker CPI

The CPI (Cloud Provider Interface) is a Go program of about 2,000 lines that the
BOSH Director starts once per request. It keeps no state: everything is in the
Docker engine (containers, volumes, networks, images) and in files inside the
containers. What makes it hard is that one request is up to twenty API calls, any
of which can fail or lose its reply, that nothing is rolled back, and that
attaching a disk to a VM means to delete the VM's container and to make it again.

Paths below are relative to `src/src/bosh-docker-cpi/`.

## 1. Inventory

| Part | State | Operations | Hard behaviour |
|---|---|---|---|
| VM container (`vm/container.go`) | a container: binds, networks, root filesystem with the agent env, `update_settings.json`, `records.json`; the ephemeral volume | delete_vm, attach_disk, detach_disk (`restartByRecreating`) | delete-then-create without roll-back; stale inspections; retries; crashes |
| VM factory (`vm/factory.go`, `vm/net_config.go`) | the same | create_vm | clean-up after some failures only; networks connected one by one |
| Disk factory (`disk/`) | volumes | create_disk, delete_disk | races with a restart, in which the volume is in use by no container |
| File service (`vm/file_service.go`) | an exec of `tar`, a hijacked connection, a pipe, two goroutines | Upload, Download | bounded buffers, deadlines, early exits, an exit status that is not there yet |
| Agent env service (`vm/fs_agent_env_service.go`) | the agent env file | Fetch, Update | a file that is cut short does not parse, for ever |
| Networks (`vm/networks.go`) | engine networks | Enable | two create_vms make one network; errors recognised by text |
| Light stemcells (`stemcell/light_importer.go`, `image.go`) | the engine's images and tags | create_stemcell, delete_stemcell | two inspections of a tag that moves; a forced removal of a CID that stemcells share |
| File-system stemcells (`stemcell/fs_importer.go`, `composite_importer.go`) | images | create_stemcell | a stream of events that ends early; a lost reply |
| Stemcell metadata (`stemcell/metadata.go`) | none | which importer a path is for | manifests in any place, torn archives |
| Configuration (`config/`) and dispatch (`main/`, `cpi/factory.go`) | none | one call per process; the engine of a call | the process dies; a context that is wrong |
| Queries (`cpi/has_vm.go`, `cpi/has_disk.go`) | none | has_vm, has_disk | asked after a call has failed half-way |
| Calls without effect (`cpi/reboot_vm.go`, `get_disks.go`, `disks.go`, `snapshots.go`, ...) | none | constants | none |

They interact only through the engine: create_vm uses Networks, the file service
and the agent env service; attach_disk and detach_disk use delete_vm's `Delete`,
the file service twice, the agent env service, and the volumes the disk factory
makes. Two CPI processes meet in the engine. The Director (outside the repository)
serialises the calls on one VM and on one disk; the CPI itself locks nothing.

## 2. Modules

| Module | Models | Role |
|---|---|---|
| `Engine` | the Docker engine as the CPI uses it | effects of API calls |
| `Director` | the processes that run, and what the Director knows and does | starts and ends calls |
| `Container` | `vm/container.go`, `vm/fs_agent_env_service.go` | one action per API call |
| `VMFactory` | `vm/factory.go`, `vm/net_config.go` | create_vm |
| `DiskFactory` | `disk/factory.go`, `disk/volume.go` | create_disk, delete_disk |
| `Cpi` | their interleaving with agents and failures; the properties; the refinement mapping | specification |
| `Cloud` | what the CPI promises of a VM | abstract specification |
| `CpiInvariant` | the inductive invariants of the proofs | strengthenings |
| `MCCpi` | symmetry | model checking |
| `CpiProofs` | theorems on types and on the agent env | proofs |
| `CpiBookProofs` | lemmas on each step; theorems on VMs, disks and networks | proofs |
| `CpiSuccessProofs` | theorems on calls that succeed, and that they do | proofs |
| `CpiCloudProofs` | `Cpi` implements `Cloud` | proofs |
| `FileUpload`, `FileUploadProofs` | `fileService.Upload`, `dockerExecWithStdin` | one exec, finer grain |
| `FileDownload`, `FileDownloadProofs` | `fileService.Download` | one exec, finer grain |
| `Networks`, `MCNetworks`, `NetworksProofs` | `Networks.Enable` | concurrent create_vms |
| `Options` | `config/config.go`, options and TLS client of `cpi/factory.go`, `main/` | operators |
| `Metadata` | `stemcell/metadata.go`, `validateImageReference` | operators |
| `Stemcells`, `MCStemcells` | `stemcell/`: import by pull or from a file, removal of images, on several engines | concurrent imports |
| `StemcellProofs` | theorems on `Stemcells` | proofs |

`Engine`, `Director`, `Container`, `VMFactory`, `DiskFactory` and `Cpi` extend one
another in this order. `call[p]` is the CPI process in slot `p` with its locals
and a program counter that names the next API call; an action is one API call
with the local code up to the next, and its disjuncts are: the call succeeds, the
engine refuses it in that state, or it fails around the engine (`Fault`: before
its effect, or after it with the reply lost). `Restarts(p)` and `Creates(p)` tell
the two users of `ContainerCreate`, `NetworkConnect`, `ContainerStart` and `Update`
apart.

`FileUpload` and `FileDownload` open what is one step in `Cpi`. The outcomes a
failed `UpdateStep` has there are the ones a failed upload leaves in `FileUpload`:
the old file (in a new container: none), a part of the new one, all of it, or any
of these with a `tar` that is still there and finishes later (`late`, `LateWrite`).
`upload_atomic` shows that a part does occur. `Networks` opens `Prepare`.

`Stemcells` has its own engines, each a set of images and one tag. What the operator
uploads is a record: a path (a file named `image` beside a manifest, a directory, an
archive or nothing, and the files there), the content of the root filesystem, and the
context its calls have. `New` computes the options of the call from the context and
the configuration; `ImportFromPath` reads the manifest and chooses the importer; the
rest is one action per API call. `loose` is history: images that a delete has removed,
or whose import reported success although its events ended early. It is what a
stemcell's presence cannot be promised against: `HeldPresent` says nothing of those
images. `pulling` holds the pulls that an engine has not given up although their events or
their call have ended; `PullEnds` finishes one, at any time or never. `Late` is the set of
engines that do it, `Serial` of those to which light stemcells are imported one at a time.

Some definitions named like a mistake (`KeepBinds`, `InspectOnce`,
`DrainAfterCopy`, ...) stand beside the ones they would replace. They are no part of
the specifications; each makes one property fail, which shows that the property
depends on that line of the code. `PROJECT.json` pairs them.

### The engine

`Engine.tla` and the external actions assume of Docker:

- container and volume names are unique; create fails if the name is taken;
- create makes a missing volume that a bind names, empty, and refuses two binds
  with one mount point;
- a kill of a container that does not run is refused with "is not running";
- removing a container deletes its filesystem and keeps its named volumes;
- a volume that a container has, running or not, cannot be removed; a forced
  removal of a missing one may or may not be an error;
- the aufs error comes before the container is gone or after;
- stopping a container ends its execs; an exec survives the client that left it;
- a connection to an exec breaks, or is hung up by the other end: then reading it ends
  without an error, which `StdCopy` takes for the end of the output, and what was on
  the way may be lost in both directions (`conn = "hungUp"`);
- GNU `tar -x` ends with status 0 only if it has read the whole file: an archive that is
  empty or ends within the header or the contents gives status 2 (tar 1.34: "This does
  not look like a tar archive", "Unexpected EOF in archive"). One that lacks only its end
  marks is accepted;
- a network has one subnet; overlapping subnets are refused, as is a taken name;
- `ContainerExecInspect` has status 0 for an exec that still runs;
- an engine and a client that use TLS accept each other if the certificates are those
  of that engine, and an engine behind a socket accepts anyone;
- a pulled image has a repository digest, by which it can be inspected and removed;
  pulling a tag that has moved leaves the image that had it;
- a pull whose events or whose call ended early is given up, or finished later with the
  content it began with.

On a single engine: Swarm's node names, which the code still looks at, are left
out, so that `findNodeWithDisk` only tells whether the volume exists.

### The Director

`Disciplined` is what the code relies on: one call at a time on a VM or disk; only
CIDs that a successful call returned and none has deleted; a disk attached to one
VM at a time; and an attach that may have succeeded is repeated only on a VM one
of whose calls failed. `Disciplined = FALSE` drops all of it. has_vm and has_disk are
asked of anything that was ever created, under the same locks.

`Foretold` lets a call be chosen, when it begins, as one around which nothing fails
(`sure`): the process does not die, every API call and its reply get through, and the
container does not exit by itself. Calls before it may have failed in any way, and left
a `tar` that is late. `CallsRecover` is about these calls. `Able` is what such a call
needs: to attach or detach, a VM that runs and whose env parses, and a disk that is
there and, to attach, not mounted already; to create a disk for a VM, that the VM exists;
to delete a disk, that it is there and no container has it; to delete a VM, nothing. So
it is delete_vm alone that recovers from everything: an attach or a detach does fail on a
VM that an earlier failure has left half made, stopped or with a torn env, and an attach
fails of a disk that an attach with a lost reply has mounted already
(`container.go:138-141`, `306`). There the Director has to make the VM again.

## 3. Runs

| Run | Shows | Bounds |
|---|---|---|
| `restart_faults` | types; agent env and mounts agree (`EnvListsMounts`); no VM gets an empty volume for a disk (`NoBlankDisk`); a deleted VM is gone (`DeletedStaysGone`); a running VM is on all its networks (`OnAllNetworks`); what was reported as done is so, as long as no call on the VM has failed (`SuccessIsReal`); a delete_vm that meets no failure succeeds after any other, and so do the other calls that find what they need (`CallsRecover`, `Able`); has_vm and has_disk agree with the books (`AnswersAgree`) | 1 VM, 2 disks, 3 networks, 2 processes, every fault |
| `shared_disk` | a disk that moves between VMs is never in two (`DiskInOneVM`) | 2 VMs, 1 disk, 2 processes, every fault |
| `healthy` | without faults no call fails (`NothingFails`) and files survive restarts (`FilesKept`) | 1 VM, 2 disks, 2 networks, both files |
| `contention` | every call returns, whoever else works on the VM (`CallsReturn`) | 1 VM, 1 disk, 2 processes, no Director's lock |
| `implements_cloud` | `Cpi` refines `Cloud` (`ImplementsCloud`) | 1 VM, 2 disks, both files, every fault |
| `upload` | success means the whole file (`UploadedWhole`); no deadlock (`UploadEnds`); a `tar` that hangs is timed out (`UploadTimesOut`) | 3 blocks, buffers of 2, 3 messages |
| `download` | the same of Download (`DownloadedWhole`, `DownloadEnds`, `DownloadTimesOut`) | 3 blocks, 2 frames; regular, other and missing files |
| `stemcells` | the CID names the verified content on an engine where imports are orderly (`OrderlyVerified`); a held stemcell has its image (`HeldPresent`); the manifest decides the importer (`RoutedByManifest`); other engines are left alone (`OnlyIntendedEngine`) | 2 engines, one orderly (`Serial`) and one with late pulls (`Late`), 2 contents, 2 stemcells out of 29, 2 processes, 2 configurations |
| `networks` | each network has its endpoint and subnet (`OwnNetworks`); no call fails because a network is there already (`NoneRefused`); a VM that loses its IPv4 addresses has IPv6 everywhere (`AddressesLeft`) | 2 processes, 3 subnets (2 of IPv6), 15 requests and a wrong one |
| `settings_skipped` | fails: a failed download loses `update_settings.json` | 1 VM, 1 disk |
| `upload_atomic` | fails: an upload is not atomic | as `upload` |
| `stemcells_race` | fails: two imports of one tag | as `stemcells`, with no order and no late pull |

Why the bounds are enough. CIDs are never used again, so one VM goes through its whole
life (created, restarted any number of times by two disks, failed, deleted); calls on
different VMs touch each other only through a disk, for which there are two VMs and one
disk. Two disks make a restart keep one while it changes another. Three networks are the
least for which one is connected first, one later and one is still missing. `sure` needs
no more than this: the calls before it leave every state a failure can leave. Two
stemcells are one and whatever shares its tag, CID or engine; the 29 submissions have
each kind of path with a context and without, and each way in which a path or a context
is wrong. One engine is behind a socket and one behind TLS, so that falling back from
one to the other would show. Two processes are a call and whatever runs beside it; under
the Director's lock a third would be a call on something else. `MaxKills` stands for the
20 attempts of `tryKilling`, and 2 tells the first attempt, a later one and the last
apart. In the file service every buffer is full, empty and between with a capacity of
two, and the file is longer than a buffer. `Files` is empty where no property of the run
reads the files; TLC covers them in `healthy` and `implements_cloud`.

The runs of `Cpi`, `FileUpload` and `FileDownload` switch the deadlock check off: they
stop when the Director has used and deleted its finite supply of CIDs, and when
the call has returned. Deadlocks of the calls are what `CallsReturn`, `UploadEnds`
and `DownloadEnds` exclude. `Stemcells` and `Networks` are checked for deadlock.

Fairness. `Cpi!Fairness` is weak fairness of the steps of each process: Go and the
operating system schedule it, and the engine answers or fails every API call. The
latter is an assumption: the calls in `container.go` have no timeout
(`context.TODO()`). The Director, the agents and the failures are not fair. In the
file service the client's goroutines are weakly fair (`ClientFairness`); the two
liveness properties of each state what else they need, that `tar` goes on while
nothing blocks it, or that the timer of `execTimeout` fires, and neither needs both.

## 4. What is proved

TLAPS proves every safety property that a passing run checks, and the refinement, for
every value of the constants.

| Theorem | States | Needs |
|---|---|---|
| `CpiProofs!TypeCorrect` | `TypeOK`, `CallsShaped` | |
| `CpiProofs!EnvAgrees` | `EnvListsMounts` | `Disciplined` |
| `CpiBookProofs!DisksAreReal` | `NoBlankDisk` | `Disciplined` |
| `CpiBookProofs!DeletedIsGone` | `DeletedStaysGone` | `Disciplined` |
| `CpiBookProofs!NetworksSurvive` | `OnAllNetworks` | `Disciplined` |
| `CpiBookProofs!DisksNotShared` | `DiskInOneVM` | `Disciplined` |
| `CpiSuccessProofs!SuccessMeansWhatItSays` | `SuccessIsReal` | `Disciplined` |
| `CpiSuccessProofs!AnswersAreTrue` | `AnswersAgree` | `Disciplined` |
| `CpiSuccessProofs!CallsDoRecover` | `CallsRecover` | `Disciplined` |
| `CpiSuccessProofs!HealthyNeverFails` | `NothingFails` | `Disciplined`, `~Faulty` |
| `CpiSuccessProofs!FilesAreKept` | `FilesKept` | `Disciplined`, `~Faulty` |
| `CpiCloudProofs!CpiIsCloud` | `ImplementsCloud` | `Disciplined` |
| `FileUploadProofs!UploadIsWhole` | `UploadedWhole` | |
| `FileDownloadProofs!DownloadIsWhole` | `DownloadedWhole` | |
| `NetworksProofs!NetworksAreOwn` | `OwnNetworks` | `Consistent` |
| `NetworksProofs!AddressesAreLeft` | `AddressesLeft` | `Consistent` |
| `NetworksProofs!NobodyRefused` | `NoneRefused` | `Consistent` |
| `StemcellProofs!VerifiedIfSerial` | `OrderlyVerified` | |
| `StemcellProofs!HeldStaysPresent` | `HeldPresent` | |
| `StemcellProofs!ManifestRoutes` | `RoutedByManifest` | |
| `StemcellProofs!OnlyIntended` | `OnlyIntendedEngine` | |

Besides what the last column says there are the named `ASSUME`s on the constants, which
TLC evaluates in the runs. `Disciplined` is the Director's lock and is what the runs of
these properties have; `Faulty` is FALSE in `healthy`, where `settings_skipped` shows that
`FilesKept` does fail with faults, and any lost connection fails a call. `OrderlyVerified` is
about the engines of `Serial` that are not in `Late`; `stemcells_race` shows that the first
is needed, and `VerifiedContent` fails with `Serial = Hosts` too once `Late` is not empty.
`Consistent` is written out in `Networks.tla` and holds of the
requests of `MCNetworks`, which says so with an `ASSUME`: without it `createManualNetwork`
refuses a named network on purpose.

### The calls on VMs and disks

Each invariant below is in `CpiInvariant.tla`, rests on the ones before it, and was
checked by TLC on the small instances before it was proved.

- `TypeInv`. `TypeOK` alone is not inductive: an action at `"fetch"` reads `ctr[c.vm]`, so
  it must be known that a process there has a VM. `CallsShaped` says which operation can
  be at which program counter with which arguments.
- `EnvInv`. The mounts and the env are set in different steps of a call from values read
  in earlier ones, with the container deleted in between. An env in memory agrees with
  the mounts of the container it was read from, then with the binds from the inspection as
  the new container will have them, then with that container's mounts (`EnvInMemory`); a
  `tar` that is late writes what the container it runs in has mounted (`LateLists`); two
  calls never have one VM (`OneCallPerVM`), without which an inspection could be of another
  container than the fetch; a VM nobody has created does not exist (`FreshUnused`).
- `Books`, what the Director may take for granted while calls run. Per call: a CID keeps
  its status (`KnowsCids`), where the container must be and must not be (`Stands`), that
  the networks are carried from the old container through the call to the new one
  (`NetsFollow`), and that the volumes it is going to bind are held by its VM, are there,
  and are deleted by no call beside it (`DisksHeld`, `VolumesKept`). The last is the
  argument for `NoBlankDisk`: in the window between delete and create the engine would
  allow the volume to go, and only the Director's books forbid it. Per VM and disk
  (`VMBook`, `DiskBook`): mounts are held by that VM alone, and nothing is left of what is
  deleted.
- `Success`. A VM on which no call has failed is what the Director takes it to be; while a
  call runs on it, the call's locals are on the way from its disks before to those after
  (`VMSound`); a query's answer stays true until it is heard (`Answers`).
- `Progress`. Around a call that is `sure`, or if nothing is faulty, every precondition
  the engine has holds when the call comes to it (`GoesWell`): the container stands or is
  gone, the volume is there, the disk is not bound twice.
- `FilesSafe`. Without faults, the files a VM had are in it, or in the call's memory while
  there is no container.
- `CloudInv`. Until the old container is stopped its agent has an env that lists its
  mounts, and the new one has none before `Update` (`Standing`, `Unready`).

The proofs have three levels. For each action a lemma says what it does to the call, the
container and the volumes, field by field (`KillDoes`, `CreateDoes`, ...). A step is
`Local`: it touches its own call, VM and disk, so that frame lemmas carry what is known of
all others. What is left is one lemma per action and invariant, about one call. The
Director's steps and those of the agents and the machine have lemmas of their own.

### The refinement

`CpiIsCloud` shows that the initial states map to `Cloud`'s, and that every step maps to
a step of `Cloud` on one VM or changes nothing of it. `Images` says how the abstract VM is
computed from the concrete one. A step of a call either leaves the abstract VM (`Rests`)
or moves it as one action of `Cloud` (`Advances`). The hard places are the kill, where the abstract VM
stops with its container, the new agent env, where it comes up with one disk more or
fewer, and a late `tar`, which can do the same after the call has failed.

### The parts

- `UploadIsWhole`: neither that the copy has come to its end nor that the output has
  says that `tar` has read the archive, as a connection that is hung up ends both. What
  does is the status: success waits until `tar` has exited with 0 (`Success`), with
  which it only ends if it has read all the contents (`EndedWhole`), and the file is what
  it has read (`FileRead`).
- `DownloadIsWhole`: the caller gets past the contents with all the blocks that the header
  announced or with an error that it keeps (`ContentsRead`), and a `tar` that has ended
  with status 0 has not warned and cannot any more (`EndedWell`).
- The theorems of `NetworksProofs` rest on `NetInv`. An engine network has the subnet that
  its name has in every request (`Meant`); what a call has enabled has exactly one
  endpoint, on a network with its subnet (`Enabling`). Two networks of one request are
  then never served by one engine network (`Apart`), so no endpoint replaces another.
- `VerifiedIfSerial`: `SInv` says that at `"cid"` the tag names what was verified or
  nothing (`Checked`). Only a pull could give it to another content; none is late, and no
  other light import is under way (`Lone`), while deletes and file imports may go on. Every step of a
  call is shown to be a `Move`, and a `Move` keeps what is known of the others.
- `OnlyIntended`: a call that has a client has the options that its context or the
  configuration names (`Booked`, `ClientEngine`).
- `HeldStaysPresent`: what has the tag is stored under its digest (`TagStored`), and no UUID
  is drawn twice (`Fresh`).
- `ManifestRoutes`: a call at `"import"` has read a path that is no light stemcell
  (`Importable`), and CIDs remember which way they came (`Routed`). That the first of
  several files is one of them (`FirstIsNamed`) needs that a set of numbers has a least
  element, which the library's `WFMin` says.

### Checked by TLC only

`CallsReturn`, `UploadEnds`, `UploadTimesOut`, `DownloadEnds` and `DownloadTimesOut` are
liveness under fairness, which is out of the prover's reach.

What the proofs changed in the model: three `CASE`s of `Director`, `Cpi` and
`FileDownload` had arms that overlap, which TLA+ leaves open, and are now `IF`s; the
first manifest in a path is chosen by its place instead of with `SelectSeq`, and endpoints
are added without `@@`, which the provers do not know.

## 5. Divergences found

- `settings_skipped`: `container.go:146` takes every error of `Download` for a file that
  is not there ("Unable to find update_settings.json skipping"), goes on to delete
  the container with the only copy, and reports success.
- `upload_atomic`: `file_service.go:232` calls the upload atomic. A failed one leaves
  part of a file. For the agent env this makes every later attach_disk and
  detach_disk fail in `Fetch`: the VM has to be made again (in `Cloud`: it is down
  and stays so).
- `stemcells_race`: `README.md:66` promises images that match the expected digest. The
  tag is inspected once to verify and once more to name the stemcell.
  The same happens with imports one at a time if an engine finishes a pull of which the
  events, or an earlier call, had ended: `light_importer.go:94` takes the end of the
  events for the end of the pull.
- Without a run, as there is no code to model: `README.md:57` and `67` describe
  `disable_light_stemcells`, which no option of the job or of `config.LightStemcellOpts`
  reads.

`README.md:7-10` of the repository itself says that attaching disks does not work in
`bosh deploy` because the Director does not wait for the agent after attach_disk.
The model has no agent that answers, and claims nothing about it.

## 6. Not modelled

- Swarm placement (`constraint:node==`, the node prefix in `findNodeWithDisk`, the answer
  of `possiblyFindNodeWithContainer`). It is written for classic Swarm, whose engine
  reports the node in front of a name; Docker's API, which the vendored client speaks,
  has no such answer, so what the code would see there cannot be read from this
  repository. On one engine the prefix is empty.
- The start command, mounts, cgroups, lxcfs and cloud properties of a VM, the drivers of
  networks, and the assignment of addresses: configuration that no later step of the
  CPI reads, passed through to the engine (`vm/props.go` is a record of it).
- The branch of `getImageDigestCID` for an image without repository digests: a pull from
  a registry gives one, and the importer has just pulled.
- The metadata of a light stemcell is parsed twice, by the composite and by the light
  importer; a file that changes in between is not in the model.
- Validation of the agent's options, which is in bosh-cpi-go; the check of paths in the
  file service: pure.
- Calls that return a constant; packaging and scripts.
- What is left of a root filesystem on the host after the aufs error. The container
  itself is in the model, as removed or as still there.
- Files of the agent that are empty. `container.go:168`, `174`, `227` and `233` do not put
  them back; `"absent"` in `Engine` stands for them too, so that `FilesKept` is about
  contents, not about the existence of a file.
- An import from a file that the engine finishes after its events have ended: its image
  stays absent (`loose`), and `HeldPresent` says nothing of it in either case.

## 7. Plan

Done: the core (modules of the first table), the file service, networks, stemcells with
their metadata and options, queries; the runs of section 3; the theorems of section 4.

1. Prove. The type invariants of `FileDownload`; `Atomic`'s weaker form, that a failed
   upload leaves the old file, a part of the new one or all of it, which links `FileUpload` to
   `UpdateStep`; that weaker forms of `Disciplined` suffice for single theorems.
2. Extend. Versions of the agent's files, for the write that a restart overwrites; what
   create_vm and an import leak, with a bound; addresses, as a pool that two restarts
   compete for.
