------------------------------ MODULE Stemcells ------------------------------
(***************************************************************************)
(* stemcell/: create_stemcell, which imports a light stemcell by a pull    *)
(* from a registry and any other from a file, and delete_stemcell.  All    *)
(* light stemcells here are about one image reference with a tag, which    *)
(* its owner may publish again.                                            *)
(*                                                                         *)
(* The registry, the image stores of the engines and the Director are      *)
(* outside the repository.                                                 *)
(***************************************************************************)
EXTENDS Options, Metadata

CONSTANTS
  Contents,    \* image contents; a content stands for its ID and its digest
  Uuids,       \* what the UUID generator returns
  Submissions, \* stemcells: [path, rootfs, ctx], ctx that of all their calls
  Defaults,    \* the Docker options in the CPI's configuration
  Stems,       \* the Director's stemcells
  Procs,       \* slots for CPI processes
  RequireImageVerification, \* config.LightStemcellOpts
  Serial,      \* the engines to which light stemcells are imported one at a time
  Faulty,      \* calls fail, and streams of events end early
  Late         \* the engines that may finish a pull after its events or its call ended

ASSUME IdAssumption == Contents \cap Uuids = {} /\ None \notin Contents \cup Uuids \cup Stems
ASSUME InputAssumption ==
  /\ Defaults \subseteq DockerOpts
  /\ \A x \in Submissions : x.ctx \in DockerOpts /\ x.rootfs \in Contents
\* Exactly the files of the two names hold a manifest.
ASSUME PathAssumption ==
  \A x \in Submissions :
    /\ x.path.kind \in {"missing", "image", "directory", "archive"}
    /\ DOMAIN x.path.files \subseteq Nat
    /\ \A k \in DOMAIN x.path.files :
         x.path.files[k].manifest # None <=> x.path.files[k].name \in Names
ASSUME FlagAssumption ==
  /\ RequireImageVerification \in BOOLEAN /\ Faulty \in BOOLEAN
  /\ Serial \subseteq Hosts /\ Late \subseteq Hosts

\* CIDs: <repository>@<digest> of a pulled image, bosh.io/stemcells:img-<UUID>.
Ids == Contents \cup Uuids

VARIABLES
  published, \* the content the registry has under the tag
  tagged,    \* tagged[h]: the content the engine has under it
  store,     \* store[h][i]: the content of the engine's image i, or None
  pulling,   \* pulling[h]: the contents of the pulls it has still to finish
  call,      \* the CPI processes
  defaults,  \* the CPI's configuration
  stem,      \* stem[s]: what the operator uploads as s
  cid,       \* cid[s]: the CID the Director has for s; None: not imported
  loose      \* <<h, i>>: an image that was removed, or whose import was torn
inputs == <<defaults, stem>>
images == <<tagged, store, pulling>>
vars == <<published, images, call, inputs, cid, loose>>

Idle == [pc |-> "idle", stem |-> None, opts |-> None]

Init ==
  /\ published \in Contents
  /\ tagged = [h \in Hosts |-> None]
  /\ store = [h \in Hosts |-> [i \in Ids |-> None]]
  /\ pulling = [h \in Hosts |-> {}]
  /\ call = [p \in Procs |-> Idle]
  /\ defaults \in Defaults /\ stem \in [Stems -> Submissions]
  /\ cid = [s \in Stems |-> None] /\ loose = {}

At(p, pc) == call[p].pc = pc
Goto(p, pc) == call' = [call EXCEPT ![p].pc = pc] /\ UNCHANGED <<cid, loose>>
Fails(p) == call' = [call EXCEPT ![p] = Idle] /\ UNCHANGED <<cid, loose>>
Succeeds(p, i) ==
  call' = [call EXCEPT ![p] = Idle] /\ cid' = [cid EXCEPT ![call[p].stem] = i]

Path(p) == stem[call[p].stem].path
Meta(p) == ParseFromPath(Path(p)).meta
\* The engine of the call's client, if they accept each other.
Engines(p) == IF Accepts(call[p].opts) THEN {call[p].opts.host} ELSE {}

-----------------------------------------------------------------------------
\* The engine an operator means: that of the context or, without one, of the
\* configuration.
Intended(s) == IF stem[s].ctx.host = None THEN defaults.host ELSE stem[s].ctx.host

IsLight(s) == ParseFromPath(stem[s].path).is = "light"
Importing(h) == {s \in Stems : /\ IsLight(s) /\ Intended(s) = h /\ cid[s] = None
                               /\ \E p \in Procs : call[p].stem = s}

Begin(p, s, pc) ==
  /\ At(p, "idle") /\ \A q \in Procs : call[q].stem # s
  /\ call' = [call EXCEPT ![p] = [pc |-> pc, stem |-> s, opts |-> None]]
  /\ UNCHANGED <<published, images, inputs, cid, loose>>
BeginCreate(p) ==
  \E s \in Stems :
    /\ cid[s] = None /\ Begin(p, s, "create_stemcell")
    /\ IsLight(s) /\ Intended(s) \in Serial => Importing(Intended(s)) = {}
BeginDelete(p) == \E s \in Stems : cid[s] # None /\ Begin(p, s, "delete_stemcell")

\* main and Factory.New.
New(p) ==
  LET choices == ClientOpts(stem[call[p].stem].ctx, defaults)
      next == IF At(p, "create_stemcell") THEN "detect" ELSE "remove" IN
  /\ call[p].pc \in {"create_stemcell", "delete_stemcell"}
  /\ \/ \E o \in choices : /\ call' = [call EXCEPT ![p].pc = next, ![p].opts = o]
                           /\ UNCHANGED <<cid, loose>>
     \/ choices = {} /\ Fails(p)
  /\ UNCHANGED <<published, images, inputs>>

-----------------------------------------------------------------------------
(* create_stemcell.                                                        *)

\* CompositeImporter.ImportFromPath, and what the importer it chooses does
\* before it calls the engine.
ImportFromPath(p) ==
  LET found == ParseFromPath(Path(p)).is
      reference == found = "light" /\ ValidateImageReference(Meta(p).ref)
      archive == found = "traditional" /\ Path(p).gzip IN
  /\ At(p, "detect")
  /\ \/ reference /\ Goto(p, "pull")
     \/ archive /\ Goto(p, "import")
     \/ ~reference /\ ~archive /\ Fails(p)
  /\ UNCHANGED <<published, images, inputs>>

\* The content c is on the engine h, and has the tag.
Pulled(h, c) ==
  tagged' = [tagged EXCEPT ![h] = c] /\ store' = [store EXCEPT ![h][c] = c]

\* The events of a pull end with io.EOF, whether or not it was complete.  One whose
\* events or whose call ended early is given up by the engine, or may be finished later.
Pull(p) ==
  /\ At(p, "pull")
  /\ \/ \E h \in Engines(p) :
          /\ Pulled(h, published) /\ UNCHANGED pulling
          /\ Goto(p, "verify") \/ (Faulty /\ Fails(p))
     \/ /\ Faulty /\ UNCHANGED <<tagged, store>>
        /\ \E h \in Engines(p) :
             pulling' \in {pulling} \cup
               IF h \in Late THEN {[pulling EXCEPT ![h] = @ \cup {published}]} ELSE {}
        /\ Goto(p, "verify") \/ Fails(p)
     \/ Engines(p) = {} /\ UNCHANGED images /\ Fails(p)
  /\ UNCHANGED <<published, inputs>>

PullEnds ==
  /\ \E h \in Hosts : \E c \in pulling[h] :
       /\ pulling' = [pulling EXCEPT ![h] = @ \ {c}]
       /\ Pulled(h, c)
  /\ UNCHANGED <<published, call, inputs, cid, loose>>

\* verifyImageDigest inspects the reference.
SkipVerify(p) ==
  At(p, "verify") /\ Goto(p, "cid") /\ UNCHANGED <<published, images, inputs>>
VerifyImageDigest(p) ==
  LET want == Meta(p).digest
      good == RequireImageVerification => want # None /\ \E h \in Engines(p) : tagged[h] = want IN
  /\ At(p, "verify")
  /\ \/ good /\ Goto(p, "cid")
     \/ (~good \/ (RequireImageVerification /\ Faulty)) /\ Fails(p)
  /\ UNCHANGED <<published, images, inputs>>

\* getImageDigestCID inspects it again.
GetImageDigestCID(p) ==
  /\ At(p, "cid")
  /\ \/ \E h \in Engines(p) : /\ tagged[h] # None /\ Succeeds(p, tagged[h])
                              /\ loose' = loose \ {<<h, tagged[h]>>}
     \/ (Faulty \/ \A h \in Engines(p) : tagged[h] = None) /\ Fails(p)
  /\ UNCHANGED <<published, images, inputs>>

\* No generated UUID was generated before.
Fresh == {u \in Uuids : /\ \A h \in Hosts : store[h][u] = None /\ <<h, u>> \notin loose
                        /\ \A s \in Stems : cid[s] # u}
Imported(p, h, u) == store' = [store EXCEPT ![h][u] = stem[call[p].stem].rootfs]

\* The rest of FSImporter.ImportFromPath.  An event may tell of an error; the
\* events end with io.EOF, whether or not the import was complete.
DeafImageImport(p) ==
  /\ At(p, "import")
  /\ \E u \in Fresh, h \in Engines(p) :
       /\ Imported(p, h, u) \/ UNCHANGED store
       /\ Succeeds(p, u) /\ UNCHANGED loose
  /\ UNCHANGED <<published, tagged, pulling, inputs>>
ImageImport(p) ==
  /\ At(p, "import")
  /\ \/ \E u \in Fresh, h \in Engines(p) :
          \/ Imported(p, h, u) /\ Succeeds(p, u) /\ UNCHANGED loose
          \/ Faulty /\ Imported(p, h, u) /\ Fails(p)
          \/ Faulty /\ Succeeds(p, u) /\ loose' = loose \cup {<<h, u>>} /\ UNCHANGED store
     \/ (Faulty \/ Engines(p) = {}) /\ Fails(p) /\ UNCHANGED store
  /\ UNCHANGED <<published, tagged, pulling, inputs>>

-----------------------------------------------------------------------------
(* delete_stemcell, by a forced ImageRemove of the CID.                    *)

Removed(p, h, i) ==
  /\ store' = [store EXCEPT ![h][i] = None]
  /\ tagged' = IF tagged[h] = i THEN [tagged EXCEPT ![h] = None] ELSE tagged
  /\ loose' = loose \cup {<<h, i>>}
Delete(p) ==
  LET i == cid[call[p].stem] IN
  /\ At(p, "remove")
  /\ \/ \E h \in Engines(p) :
          /\ store[h][i] # None /\ Removed(p, h, i)
          /\ \/ Succeeds(p, None)
             \/ Faulty /\ call' = [call EXCEPT ![p] = Idle] /\ UNCHANGED cid
     \/ /\ Faulty \/ \A h \in Engines(p) : store[h][i] = None
        /\ Fails(p) /\ UNCHANGED <<tagged, store>>
  /\ UNCHANGED <<published, pulling, inputs>>

\* The owner of the image moves the tag.
Publish ==
  /\ \E c \in Contents : c # published /\ published' = c
  /\ UNCHANGED <<images, call, inputs, cid, loose>>

Next ==
  \/ Publish \/ PullEnds
  \/ \E p \in Procs : \/ BeginCreate(p) \/ BeginDelete(p) \/ New(p)
                      \/ ImportFromPath(p) \/ Pull(p) \/ VerifyImageDigest(p)
                      \/ GetImageDigestCID(p) \/ ImageImport(p) \/ Delete(p)

Spec == Init /\ [][Next]_vars

-----------------------------------------------------------------------------
(* Properties.                                                             *)

Manifests(s) == {f.manifest : f \in {stem[s].path.files[k] : k \in DOMAIN stem[s].path.files}}
                  \ {None}

Verified(s) == cid[s] \in Contents => cid[s] = ParseFromPath(stem[s].path).meta.digest

\* With verification required, the CID of a light stemcell names the content
\* whose digest its metadata has ("ensure images match expected digests").
VerifiedContent == RequireImageVerification => \A s \in Stems : Verified(s)

\* So it does, although the image is verified and named by two inspections of a
\* tag, on an engine on which no two imports meet and no pull is late: whatever
\* the owner of the tag, deletes, imports from files and events that end early do.
OrderlyVerified ==
  RequireImageVerification =>
    \A s \in Stems : Intended(s) \in Serial \ Late => Verified(s)

\* A stemcell the Director has is on the engine it means, with the content that
\* was uploaded or named, as long as no import was torn and no delete_stemcell of
\* a stemcell with the same CID has removed it.
HeldPresent ==
  \A s \in Stems :
    cid[s] # None /\ <<Intended(s), cid[s]>> \notin loose =>
      store[Intended(s)][cid[s]] = IF cid[s] \in Contents THEN cid[s] ELSE stem[s].rootfs

\* A stemcell with one manifest is pulled from the registry exactly if the manifest
\* says that it is light, wherever in the archive or directory that is.
RoutedByManifest ==
  \A s \in Stems : \A m \in Manifests(s) :
    cid[s] # None /\ Manifests(s) = {m} => (m.light <=> cid[s] \in Contents)

\* The images of an engine change, and a pull begins there, only by a step of a
\* call that is meant for it, whatever is wrong with the options in its context,
\* or at the end of a pull that such a call has begun.
OnlyIntendedEngine ==
  [][\A h \in Hosts :
       \/ tagged'[h] # tagged[h] \/ store'[h] # store[h]
       \/ ~(pulling'[h] \subseteq pulling[h])
       =>
       \/ \E p \in Procs : /\ call[p].stem # None /\ Intended(call[p].stem) = h
                           /\ call'[p] # call[p]
       \/ ~(pulling[h] \subseteq pulling'[h])]_vars
=============================================================================
