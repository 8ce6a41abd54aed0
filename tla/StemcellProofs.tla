--------------------------- MODULE StemcellProofs ---------------------------
(***************************************************************************)
(* Proofs about Stemcells, for any engines, contents, stemcells and calls. *)
(***************************************************************************)
EXTENDS Stemcells, WellFoundedInduction, TLAPS

CreatePcs == {"create_stemcell", "detect", "pull", "verify", "cid", "import"}
Started == {"detect", "pull", "verify", "cid", "import", "remove"}
Pcs == {"idle", "delete_stemcell", "remove"} \cup CreatePcs
Stores == [Ids -> Contents \cup {None}]
CallSet == [pc : Pcs, stem : Stems \cup {None}, opts : DockerOpts \cup {None}]

Types ==
  /\ published \in Contents
  /\ tagged \in [Hosts -> Contents \cup {None}]
  /\ store \in [Hosts -> Stores]
  /\ pulling \in [Hosts -> SUBSET Contents] /\ \A h \in Hosts \ Late : pulling[h] = {}
  /\ call \in [Procs -> CallSet]
  /\ defaults \in Defaults /\ stem \in [Stems -> Submissions]
  /\ cid \in [Stems -> Ids \cup {None}]

\* What is true of a call wherever it is.
Booked(p) ==
  LET c == call[p] IN
  /\ c.pc = "idle" <=> c.stem = None
  /\ c.pc \in CreatePcs => cid[c.stem] = None
  /\ c.pc \in Started => c.opts \in ClientOpts(stem[c.stem].ctx, defaults)
  /\ c.pc \in {"pull", "verify", "cid"} => IsLight(c.stem)

\* No two calls are about one stemcell.
Owned == \A p, q \in Procs : p # q /\ call[p].stem = call[q].stem => call[p].stem = None

\* Two imports of light stemcells do not meet on an engine of Serial.
Imports(p, h) ==
  call[p].pc \in CreatePcs /\ IsLight(call[p].stem) /\ Intended(call[p].stem) = h
Lone == \A h \in Serial, p, q \in Procs : Imports(p, h) /\ Imports(q, h) => p = q

\* Nothing else moves the tag during an import of s.
Orderly(s) == Intended(s) \in Serial \ Late

\* What was verified is what the tag names, or nothing has the tag.
Checked(p) ==
  Orderly(call[p].stem) /\ RequireImageVerification /\ At(p, "cid") =>
    \A h \in Engines(p) : tagged[h] \in {Meta(p).digest, None}

SInv ==
  /\ Types /\ Owned /\ Lone
  /\ \A p \in Procs : Booked(p) /\ Checked(p)
  /\ OrderlyVerified

\* What a step of one call may do to the others.
Move(p) ==
  /\ Types' /\ UNCHANGED inputs
  /\ \A q \in Procs : q # p => call'[q] = call[q]
  /\ \A s \in Stems : cid'[s] # cid[s] => s = call[p].stem
  /\ OrderlyVerified'
  /\ \A h \in Hosts : \/ At(p, "pull") /\ h = Intended(call[p].stem)
                      \/ tagged'[h] \in {tagged[h], None}
  /\ \/ call'[p].stem \in {call[p].stem, None}
     \/ \A q \in Procs : call[q].stem # call'[p].stem
  /\ \A h \in Serial : Imports(p, h)' => Imports(p, h) \/ Importing(h) = {}
  /\ Booked(p)' /\ Checked(p)'

-----------------------------------------------------------------------------
(* The images, and the engine of a call.                                   *)

LEMMA Stored ==
  ASSUME Types, NEW h \in Hosts, NEW i, NEW c \in Contents \cup {None},
         store' = [store EXCEPT ![h][i] = c]
  PROVE  store' \in [Hosts -> Stores]
<1>1. store[h] \in Stores BY DEF Types
<1>2. [store[h] EXCEPT ![i] = c] \in Stores BY <1>1 DEF Stores
<1> QED BY <1>2 DEF Types

LEMMA ClientEngine ==
  ASSUME Types, NEW s \in Stems, NEW o \in ClientOpts(stem[s].ctx, defaults)
  PROVE  o \in DockerOpts /\ o.host = Intended(s) /\ o.host \in Hosts
<1>1. o \in OptsFor(stem[s].ctx, defaults) /\ Validate(defaults) BY DEF ClientOpts
<1>2. stem[s] \in Submissions /\ defaults \in DockerOpts BY InputAssumption DEF Types
<1>3. stem[s].ctx \in DockerOpts BY <1>2, InputAssumption
<1>4. CASE stem[s].ctx.host = None
  <2>1. o = defaults BY <1>1, <1>4, Zenon DEF OptsFor
  <2> QED BY <1>1, <1>2, <1>4, <2>1 DEF Intended, Validate, DockerOpts, Pems
<1>5. CASE stem[s].ctx.host # None
  <2>1. o = stem[s].ctx /\ Validate(o) BY <1>1, <1>5, Zenon DEF OptsFor
  <2> QED BY <1>3, <1>5, <2>1 DEF Intended, Validate, DockerOpts, Pems
<1> QED BY <1>4, <1>5

LEMMA OnEngine ==
  ASSUME Types, NEW p \in Procs, Booked(p), call[p].pc \in Started, NEW h \in Engines(p)
  PROVE  h = Intended(call[p].stem) /\ h \in Hosts /\ call[p].stem \in Stems
<1>1. call[p] \in CallSet BY DEF Types
<1>2. call[p].pc # "idle" BY DEF Started
<1>3. call[p].stem \in Stems BY <1>1, <1>2 DEF Booked, CallSet
<1>4. call[p].opts \in ClientOpts(stem[call[p].stem].ctx, defaults) BY DEF Booked
<1>5. call[p].opts.host = Intended(call[p].stem) /\ call[p].opts.host \in Hosts
  BY <1>3, <1>4, ClientEngine
<1>6. h = call[p].opts.host BY DEF Engines
<1> QED BY <1>3, <1>5, <1>6

-----------------------------------------------------------------------------
(* SInv is inductive.                                                      *)

LEMMA MoveKeeps ==
  ASSUME SInv, NEW p \in Procs, Move(p)
  PROVE  SInv'
<1>1. /\ Types /\ Types' /\ UNCHANGED inputs /\ Owned /\ Lone
      /\ \A q \in Procs : Booked(q) /\ Checked(q)
  BY DEF SInv, Move
<1>2. \A q \in Procs : call[q] \in CallSet BY <1>1 DEF Types
<1>3. Owned'
  BY <1>1 DEF Owned, Move
<1>4. \A s : (IsLight(s)' <=> IsLight(s)) /\ Intended(s)' = Intended(s)
  BY <1>1 DEF IsLight, Intended, inputs
<1>5. \A q \in Procs, h \in Serial : q # p => (Imports(q, h)' <=> Imports(q, h))
  BY <1>4 DEF Imports, Move
<1>6. ASSUME NEW h \in Serial, NEW q \in Procs, q # p, Imports(q, h) PROVE ~Imports(p, h)'
  <2>1. call[q].stem \in Stems /\ cid[call[q].stem] = None
    BY <1>1, <1>2, <1>6 DEF Booked, Imports, CreatePcs, CallSet
  <2>2. call[q].stem \in Importing(h)
    BY <1>6, <2>1 DEF Imports, Importing
  <2>3. ~Imports(p, h) BY <1>1, <1>6 DEF Lone
  <2> QED BY <1>6, <2>2, <2>3 DEF Move
<1>7. Lone'
  <2>1. SUFFICES ASSUME NEW h \in Serial, NEW q \in Procs, NEW r \in Procs,
                        Imports(q, h)', Imports(r, h)', q # r
                 PROVE  FALSE
    BY DEF Lone
  <2> QED BY <1>1, <1>5, <1>6, <2>1 DEF Lone
<1>8. ASSUME NEW q \in Procs, q # p PROVE Booked(q)' /\ Checked(q)'
  <2>1. call'[q] = call[q] BY <1>8 DEF Move
  <2>2. Booked(q)'
    <3>1. call[q].pc \in CreatePcs => cid'[call[q].stem] = None
      <4>1. SUFFICES ASSUME call[q].pc \in CreatePcs PROVE cid'[call[q].stem] = None
        OBVIOUS
      <4>2. call[q].stem \in Stems /\ call[q].stem # None /\ cid[call[q].stem] = None
        BY <1>1, <1>2, <4>1 DEF Booked, CreatePcs, CallSet
      <4>3. call[q].stem # call[p].stem BY <1>1, <1>8, <4>2 DEF Owned
      <4> QED BY <4>2, <4>3 DEF Move
    <3> QED BY <1>1, <1>4, <2>1, <3>1 DEF Booked, inputs
  <2>3. Checked(q)'
    <3>1. SUFFICES ASSUME Orderly(call[q].stem), RequireImageVerification, At(q, "cid"),
                          NEW h \in Engines(q)
                   PROVE  tagged'[h] \in {Meta(q).digest, None}
      BY <1>1, <1>4, <2>1 DEF Checked, Orderly, At, Engines, Meta, Path, inputs
    <3>2. tagged[h] \in {Meta(q).digest, None} BY <1>1, <3>1 DEF Checked
    <3>3. h \in Hosts /\ h = Intended(call[q].stem) BY <1>1, <3>1, OnEngine DEF At, Started
    <3>4. h \in Serial /\ Imports(q, h)
      BY <1>1, <3>1, <3>3 DEF Imports, Booked, Orderly, At, CreatePcs
    <3>5. ~(At(p, "pull") /\ h = Intended(call[p].stem))
      BY <1>1, <1>8, <3>4 DEF Lone, Imports, Booked, At, CreatePcs
    <3> QED BY <3>2, <3>3, <3>5 DEF Move
  <2> QED BY <2>2, <2>3
<1> QED BY <1>1, <1>3, <1>7, <1>8 DEF SInv, Move

-----------------------------------------------------------------------------
(* Every step of a call is a Move.                                         *)

LEMMA CallFacts ==
  ASSUME SInv, NEW p \in Procs
  PROVE  /\ Types /\ Booked(p) /\ Checked(p) /\ call[p] \in CallSet
         /\ ~At(p, "idle") => call[p].stem \in Stems /\ call[p].stem # None
BY DEF SInv, Types, Booked, CallSet, At

\* A call that goes on and changes nothing but its own state.
LEMMA Quiet ==
  ASSUME SInv, NEW p \in Procs,
         call' \in [Procs -> CallSet], \A q \in Procs : q # p => call'[q] = call[q],
         UNCHANGED <<images, inputs, cid>>, published' \in Contents,
         \/ call'[p].stem \in {call[p].stem, None}
         \/ \A q \in Procs : call[q].stem # call'[p].stem,
         \A h \in Serial : Imports(p, h)' => Imports(p, h) \/ Importing(h) = {},
         Booked(p)', Checked(p)'
  PROVE  Move(p)
<1>1. Types' BY DEF SInv, Types, inputs, images
<1>2. OrderlyVerified' BY DEF SInv, OrderlyVerified, Verified, Intended, inputs
<1> QED BY <1>1, <1>2 DEF Move, images

LEMMA FailMoves ==
  ASSUME SInv, NEW p \in Procs, Fails(p), UNCHANGED <<published, images, inputs>>
  PROVE  Move(p)
<1>1. Types BY DEF SInv
<1>2. Idle \in CallSet BY DEF Idle, CallSet, Pcs
<1>3. call' = [call EXCEPT ![p] = Idle] /\ UNCHANGED cid BY DEF Fails
<1>4. call'[p] = Idle BY <1>1, <1>3 DEF Types
<1>5. Booked(p)' /\ (\A h : ~Imports(p, h)') /\ Checked(p)'
  BY <1>4 DEF Booked, Imports, Checked, At, Idle, CreatePcs, Started
<1>6. call' \in [Procs -> CallSet] /\ \A q \in Procs : q # p => call'[q] = call[q]
  BY <1>1, <1>2, <1>3 DEF Types
<1> QED BY <1>1, <1>3, <1>4, <1>5, <1>6, Quiet DEF Idle, Types

LEMMA BeginMoves ==
  ASSUME SInv, NEW p \in Procs, BeginCreate(p) \/ BeginDelete(p)
  PROVE  Move(p)
<1>1. PICK s \in Stems, pc \in {"create_stemcell", "delete_stemcell"} :
        /\ Begin(p, s, pc)
        /\ pc = "create_stemcell" =>
             /\ cid[s] = None
             /\ IsLight(s) /\ Intended(s) \in Serial => Importing(Intended(s)) = {}
  BY DEF BeginCreate, BeginDelete
<1> DEFINE c == [pc |-> pc, stem |-> s, opts |-> None]
<1>2. Types BY DEF SInv
<1>3. c \in CallSet BY DEF CallSet, Pcs, CreatePcs
<1>4. /\ call' = [call EXCEPT ![p] = c] /\ \A q \in Procs : call[q].stem # s
      /\ UNCHANGED <<published, images, inputs, cid>>
  BY <1>1 DEF Begin
<1>5. call'[p] = c BY <1>2, <1>4 DEF Types
<1>6. Booked(p)'
  BY <1>1, <1>4, <1>5, IdAssumption DEF Booked, CreatePcs, Started
<1>7. Checked(p)' BY <1>5 DEF Checked, At
<1>8. \A h \in Serial : Imports(p, h)' => Importing(h) = {}
  BY <1>1, <1>4, <1>5 DEF Imports, IsLight, Intended, CreatePcs, inputs
<1>9. call' \in [Procs -> CallSet] /\ \A q \in Procs : q # p => call'[q] = call[q]
  BY <1>2, <1>3, <1>4 DEF Types
<1> QED BY <1>2, <1>4, <1>5, <1>6, <1>7, <1>8, <1>9, Quiet DEF Types

\* A call that goes on with the same stemcell.
LEMMA OnMoves ==
  ASSUME SInv, NEW p \in Procs, NEW pc \in Pcs, NEW o \in DockerOpts \cup {None},
         ~At(p, "idle"), pc # "idle", pc \in CreatePcs <=> call[p].pc \in CreatePcs,
         call' = [call EXCEPT ![p].pc = pc, ![p].opts = o],
         pc \in Started => o \in ClientOpts(stem[call[p].stem].ctx, defaults),
         pc \in {"pull", "verify", "cid"} => IsLight(call[p].stem),
         UNCHANGED <<published, images, inputs, cid>>, Checked(p)'
  PROVE  Move(p)
<1>1. Types /\ Booked(p) /\ call[p] \in CallSet /\ call[p].stem # None
  BY CallFacts
<1>2. /\ call'[p].pc = pc /\ call'[p].stem = call[p].stem /\ call'[p].opts = o
      /\ call' \in [Procs -> CallSet] /\ \A q \in Procs : q # p => call'[q] = call[q]
  BY <1>1 DEF Types, CallSet
<1>3. Booked(p)' BY <1>1, <1>2 DEF Booked, IsLight, inputs
<1>4. \A h : Imports(p, h)' => Imports(p, h) BY <1>2 DEF Imports, IsLight, Intended, inputs
<1> QED BY <1>1, <1>2, <1>3, <1>4, Quiet DEF Types

LEMMA NewMoves ==
  ASSUME SInv, NEW p \in Procs, New(p)
  PROVE  Move(p)
<1>1. Types /\ call[p] \in CallSet /\ ~At(p, "idle") /\ call[p].stem \in Stems
  BY CallFacts DEF New, At
<1>2. CASE \E o \in ClientOpts(stem[call[p].stem].ctx, defaults) :
             /\ call' = [call EXCEPT ![p].pc = IF At(p, "create_stemcell") THEN "detect" ELSE "remove",
                                     ![p].opts = o]
             /\ UNCHANGED <<cid, loose>>
  <2> DEFINE pc == IF At(p, "create_stemcell") THEN "detect" ELSE "remove"
  <2>1. PICK o \in ClientOpts(stem[call[p].stem].ctx, defaults) :
          call' = [call EXCEPT ![p].pc = pc, ![p].opts = o] /\ UNCHANGED cid
    BY <1>2
  <2>2. o \in DockerOpts BY <1>1, <2>1, ClientEngine
  <2>3. /\ call[p].pc \in {"create_stemcell", "delete_stemcell"}
        /\ UNCHANGED <<published, images, inputs>>
    BY DEF New
  <2>4. /\ pc \in Pcs /\ pc # "idle" /\ (pc \in CreatePcs <=> call[p].pc \in CreatePcs)
        /\ pc \notin {"pull", "verify", "cid"}
    BY <2>3 DEF Pcs, CreatePcs, At
  <2>5. call'[p].pc = pc BY <1>1, <2>1 DEF Types, CallSet
  <2>6. Checked(p)' BY <2>4, <2>5 DEF Checked, At
  <2> HIDE DEF pc
  <2> QED BY <1>1, <2>1, <2>2, <2>3, <2>4, <2>6, OnMoves
<1>3. CASE Fails(p) BY <1>3, FailMoves DEF New
<1> QED BY <1>2, <1>3 DEF New

\* The steps of an import that only go on.
LEMMA GotoMoves ==
  ASSUME SInv, NEW p \in Procs, NEW pc \in CreatePcs \cap Started,
         call[p].pc \in CreatePcs \cap Started, Goto(p, pc),
         pc \in {"pull", "verify", "cid"} => IsLight(call[p].stem),
         UNCHANGED <<published, images, inputs>>, Checked(p)'
  PROVE  Move(p)
<1>1. Types /\ Booked(p) /\ call[p] \in CallSet /\ ~At(p, "idle")
  BY CallFacts DEF At, CreatePcs
<1>2. call' = [call EXCEPT ![p].pc = pc, ![p].opts = call[p].opts] /\ UNCHANGED cid
  BY <1>1 DEF Goto, Types, CallSet
<1>3. call[p].opts \in DockerOpts \cup {None} BY <1>1 DEF CallSet
<1>4. pc \in Pcs /\ pc # "idle" BY DEF Pcs, CreatePcs
<1> QED BY <1>1, <1>2, <1>3, <1>4, OnMoves DEF Booked
LEMMA DetectMoves ==
  ASSUME SInv, NEW p \in Procs, ImportFromPath(p)
  PROVE  Move(p)
<1>1. UNCHANGED <<published, images, inputs>> /\ call[p].pc \in CreatePcs \cap Started
  BY DEF ImportFromPath, At, CreatePcs, Started
<1>2. Types /\ call[p] \in CallSet BY CallFacts
<1>3. ASSUME NEW pc \in {"pull", "import"}, Goto(p, pc) PROVE Checked(p)'
  <2>1. call'[p].pc = pc BY <1>2, <1>3 DEF Goto, Types, CallSet
  <2> QED BY <2>1 DEF Checked, At
<1>4. CASE IsLight(call[p].stem) /\ Goto(p, "pull")
  BY <1>1, <1>3, <1>4, GotoMoves DEF CreatePcs, Started
<1>5. CASE Goto(p, "import")
  BY <1>1, <1>3, <1>5, GotoMoves DEF CreatePcs, Started
<1>6. CASE Fails(p) BY <1>1, <1>6, FailMoves
<1> QED BY <1>4, <1>5, <1>6 DEF ImportFromPath, IsLight, Path

LEMMA PullMoves ==
  ASSUME SInv, NEW p \in Procs, Pull(p)
  PROVE  Move(p)
<1>1. /\ UNCHANGED <<published, inputs>> /\ At(p, "pull")
      /\ call[p].pc \in CreatePcs \cap Started /\ call[p].pc \in {"pull", "verify", "cid"}
  BY DEF Pull, At, CreatePcs, Started
<1>2. Types /\ Booked(p) /\ call[p] \in CallSet BY CallFacts
<1>3. IsLight(call[p].stem) BY <1>1, <1>2 DEF Booked
<1>4. ASSUME Goto(p, "verify") PROVE Checked(p)'
  <2>1. call'[p].pc = "verify" BY <1>2, <1>4 DEF Goto, Types, CallSet
  <2> QED BY <2>1 DEF Checked, At
<1>5. CASE Goto(p, "verify") /\ UNCHANGED images
  BY <1>1, <1>3, <1>4, <1>5, GotoMoves DEF CreatePcs, Started
<1>6. CASE Fails(p) /\ UNCHANGED images BY <1>1, <1>6, FailMoves
<1>7. ASSUME Goto(p, "verify") \/ Fails(p), tagged' \in [Hosts -> Contents \cup {None}],
             store' \in [Hosts -> Stores],
             pulling' \in [Hosts -> SUBSET Contents],
             \A h \in Hosts \ Late : pulling'[h] = pulling[h],
             \A h \in Hosts : h = Intended(call[p].stem) \/ tagged'[h] = tagged[h]
      PROVE  Move(p)
  <2>1. Idle \in CallSet BY DEF Idle, CallSet, Pcs
  <2>2. /\ \/ /\ call'[p].pc = "verify" /\ call'[p].stem = call[p].stem
              /\ call'[p].opts = call[p].opts
           \/ call'[p] = Idle
        /\ call' \in [Procs -> CallSet]
        /\ \A q \in Procs : q # p => call'[q] = call[q]
    BY <1>2, <1>7, <2>1 DEF Goto, Fails, Types, CallSet, Pcs, CreatePcs
  <2>3. UNCHANGED <<cid, inputs, published>> BY <1>1, <1>7 DEF Goto, Fails
  <2>4. Types' BY <1>2, <1>7, <2>2, <2>3 DEF Types, inputs
  <2>5. OrderlyVerified' BY <2>3 DEF SInv, OrderlyVerified, Verified, Intended, inputs
  <2>6. Booked(p)' /\ Checked(p)'
    BY <1>1, <1>2, <2>2, <2>3 DEF Booked, Checked, IsLight, inputs, CreatePcs, Started, At, Idle
  <2>7. \A h : Imports(p, h)' => Imports(p, h)
    BY <1>1, <2>2, <2>3 DEF Imports, IsLight, Intended, inputs, Idle, CreatePcs
  <2> QED BY <1>1, <1>7, <2>2, <2>3, <2>4, <2>5, <2>6, <2>7 DEF Move, Idle
<1>8. CASE /\ \E h \in Engines(p) : Pulled(h, published)
           /\ UNCHANGED pulling
           /\ Goto(p, "verify") \/ Fails(p)
  <2>1. PICK h \in Hosts : Pulled(h, published) /\ h = Intended(call[p].stem)
    BY <1>1, <1>2, <1>8, OnEngine
  <2>2. store' \in [Hosts -> Stores] BY <1>2, <2>1, Stored DEF Pulled, Types
  <2>3. /\ tagged' \in [Hosts -> Contents \cup {None}]
        /\ \A g \in Hosts : g = h \/ tagged'[g] = tagged[g]
    BY <1>2, <2>1 DEF Pulled, Types
  <2> QED BY <1>2, <1>7, <1>8, <2>1, <2>2, <2>3 DEF Types
<1>9. CASE /\ \E h \in Late : pulling' = [pulling EXCEPT ![h] = @ \cup {published}]
           /\ UNCHANGED <<tagged, store>>
           /\ Goto(p, "verify") \/ Fails(p)
  <2>1. /\ pulling' \in [Hosts -> SUBSET Contents]
        /\ \A h \in Hosts \ Late : pulling'[h] = pulling[h]
    BY <1>2, <1>9 DEF Types
  <2> QED BY <1>2, <1>7, <1>9, <2>1 DEF Types
<1>10. (\E h \in Engines(p) :
         pulling' \in {pulling} \cup
           IF h \in Late THEN {[pulling EXCEPT ![h] = @ \cup {published}]} ELSE {})
      => \/ UNCHANGED pulling
         \/ \E h \in Late : pulling' = [pulling EXCEPT ![h] = @ \cup {published}]
  BY Zenon
<1> QED BY <1>5, <1>6, <1>8, <1>9, <1>10 DEF Pull, images

LEMMA VerifyMoves ==
  ASSUME SInv, NEW p \in Procs, VerifyImageDigest(p)
  PROVE  Move(p)
<1>1. /\ UNCHANGED <<published, images, inputs>> /\ At(p, "verify")
      /\ call[p].pc \in CreatePcs \cap Started /\ call[p].pc \in {"pull", "verify", "cid"}
  BY DEF VerifyImageDigest, At, CreatePcs, Started
<1>2. Types /\ Booked(p) /\ call[p] \in CallSet BY CallFacts
<1>3. IsLight(call[p].stem) BY <1>1, <1>2 DEF Booked
<1>4. CASE Fails(p) BY <1>1, <1>4, FailMoves
<1>5. CASE /\ RequireImageVerification => \E h \in Engines(p) : tagged[h] = Meta(p).digest
           /\ Goto(p, "cid")
  <2>1. /\ call'[p].stem = call[p].stem /\ call'[p].opts = call[p].opts
    BY <1>2, <1>5 DEF Goto, Types, CallSet
  <2>2. Engines(p)' = Engines(p) /\ Meta(p)' = Meta(p)
    BY <1>1, <2>1 DEF Engines, Meta, Path, inputs
  <2>3. \A g, h \in Engines(p) : g = h BY DEF Engines
  <2>4. Checked(p)' BY <1>1, <1>5, <2>2, <2>3 DEF Checked, images
  <2> QED BY <1>1, <1>3, <1>5, <2>4, GotoMoves DEF CreatePcs, Started
<1> QED BY <1>4, <1>5, Zenon DEF VerifyImageDigest

\* A call that succeeds with the CID i, or has removed it.
LEMMA SuccessMoves ==
  ASSUME SInv, NEW p \in Procs, ~At(p, "idle"), NEW i \in Ids \cup {None},
         Succeeds(p, i) \/ (call' = [call EXCEPT ![p] = Idle] /\ UNCHANGED cid),
         UNCHANGED <<published, inputs>>, tagged' \in [Hosts -> Contents \cup {None}],
         store' \in [Hosts -> Stores], UNCHANGED pulling,
         \A h \in Hosts : tagged'[h] \in {tagged[h], None},
         Orderly(call[p].stem) /\ RequireImageVerification /\ i \in Contents =>
           i = ParseFromPath(stem[call[p].stem].path).meta.digest
  PROVE  Move(p)
<1>1. Types /\ call[p].stem \in Stems BY CallFacts
<1>2. Idle \in CallSet BY DEF Idle, CallSet, Pcs
<1>3. /\ call'[p] = Idle /\ call' \in [Procs -> CallSet]
      /\ \A q \in Procs : q # p => call'[q] = call[q]
  BY <1>1, <1>2 DEF Types, Succeeds
<1>4. /\ cid' \in [Stems -> Ids \cup {None}]
      /\ \A s \in Stems : cid'[s] = cid[s] \/ (s = call[p].stem /\ cid'[s] = i)
  BY <1>1 DEF Types, Succeeds
<1>5. Booked(p)' /\ (\A h : ~Imports(p, h)') /\ Checked(p)'
  BY <1>3 DEF Booked, Imports, Checked, At, Idle, CreatePcs, Started
<1>6. Types' BY <1>1, <1>3, <1>4 DEF Types, inputs
<1>7. OrderlyVerified'
  BY <1>4 DEF SInv, OrderlyVerified, Verified, Orderly, Intended, inputs
<1> QED BY <1>3, <1>4, <1>5, <1>6, <1>7 DEF Move, Idle

LEMMA NameMoves ==
  ASSUME SInv, NEW p \in Procs, GetImageDigestCID(p)
  PROVE  Move(p)
<1>1. /\ UNCHANGED <<published, images, inputs>> /\ At(p, "cid") /\ ~At(p, "idle")
      /\ call[p].pc \in Started
  BY DEF GetImageDigestCID, At, Started
<1>2. Types /\ Booked(p) /\ Checked(p) BY CallFacts
<1>3. CASE Fails(p) BY <1>1, <1>3, FailMoves
<1>4. CASE \E h \in Engines(p) : tagged[h] # None /\ Succeeds(p, tagged[h])
  <2>1. PICK h \in Engines(p) : tagged[h] # None /\ Succeeds(p, tagged[h]) BY <1>4
  <2>2. h \in Hosts BY <1>1, <1>2, OnEngine
  <2>3. tagged[h] \in Contents BY <1>2, <2>1, <2>2 DEF Types
  <2>4. Orderly(call[p].stem) /\ RequireImageVerification =>
          tagged[h] = ParseFromPath(stem[call[p].stem].path).meta.digest
    BY <1>1, <1>2, <2>1 DEF Checked, Meta, Path
  <2> QED BY <1>1, <1>2, <2>1, <2>3, <2>4, SuccessMoves DEF Ids, Types, images
<1> QED BY <1>3, <1>4 DEF GetImageDigestCID

LEMMA ImportMoves ==
  ASSUME SInv, NEW p \in Procs, ImageImport(p)
  PROVE  Move(p)
<1>1. /\ UNCHANGED <<published, tagged, pulling, inputs>>
      /\ ~At(p, "idle") /\ call[p].pc \in Started
  BY DEF ImageImport, At, Started
<1>2. Types /\ Booked(p) /\ call[p].stem \in Stems BY <1>1, CallFacts
<1>3. store' \in [Hosts -> Stores]
  <2>1. CASE UNCHANGED store BY <1>2, <2>1 DEF Types
  <2>2. CASE \E u \in Fresh, h \in Engines(p) : Imported(p, h, u)
    <3>1. stem[call[p].stem].rootfs \in Contents BY <1>2, InputAssumption DEF Types
    <3>2. \A h \in Engines(p) : h \in Hosts BY <1>1, <1>2, OnEngine
    <3> QED BY <1>2, <2>2, <3>1, <3>2, Stored DEF Imported
  <2> QED BY <2>1, <2>2 DEF ImageImport
<1>4. CASE Fails(p)
  <2>1. None \in Ids \cup {None} /\ None \notin Contents BY IdAssumption
  <2> QED BY <1>1, <1>2, <1>3, <1>4, <2>1, SuccessMoves DEF Fails, Types
<1>5. CASE \E u \in Fresh : Succeeds(p, u)
  <2>1. PICK u \in Uuids : Succeeds(p, u) BY <1>5 DEF Fresh
  <2>2. u \in Ids /\ u \notin Contents BY IdAssumption DEF Ids
  <2> QED BY <1>1, <1>2, <1>3, <2>1, <2>2, SuccessMoves DEF Types
<1> QED BY <1>4, <1>5 DEF ImageImport

LEMMA DeleteMoves ==
  ASSUME SInv, NEW p \in Procs, Delete(p)
  PROVE  Move(p)
<1>1. UNCHANGED <<published, pulling, inputs>> /\ ~At(p, "idle") /\ call[p].pc \in Started
  BY DEF Delete, At, Started
<1>2. Types /\ Booked(p) BY CallFacts
<1>3. CASE Fails(p) /\ UNCHANGED <<tagged, store>> BY <1>1, <1>3, FailMoves DEF images
<1>4. CASE \E h \in Engines(p) :
             /\ Removed(p, h, cid[call[p].stem])
             /\ Succeeds(p, None) \/ (call' = [call EXCEPT ![p] = Idle] /\ UNCHANGED cid)
  <2>1. PICK h \in Engines(p) : Removed(p, h, cid[call[p].stem]) BY <1>4
  <2>2. /\ tagged' \in [Hosts -> Contents \cup {None}]
        /\ \A k \in Hosts : tagged'[k] \in {tagged[k], None}
    BY <1>2, <2>1 DEF Removed, Types
  <2>3. store' \in [Hosts -> Stores]
    BY <1>1, <1>2, <2>1, OnEngine, Stored DEF Removed
  <2>4. None \notin Contents BY IdAssumption
  <2> QED BY <1>1, <1>4, <2>2, <2>3, <2>4, SuccessMoves
<1> QED BY <1>3, <1>4 DEF Delete

-----------------------------------------------------------------------------
(* The theorems.                                                           *)

LEMMA Start == Init => SInv
<1> SUFFICES ASSUME Init PROVE SInv OBVIOUS
<1>1. Idle \in CallSet BY DEF Idle, CallSet, Pcs
<1>2. \A p \in Procs : call[p] = Idle BY DEF Init
<1>3. Types BY <1>1 DEF Init, Types, Stores
<1>4. Owned BY <1>2 DEF Owned, Idle
<1>5. Lone BY <1>2 DEF Lone, Imports, Idle, CreatePcs
<1>6. ASSUME NEW p \in Procs PROVE Booked(p) /\ Checked(p)
  BY <1>2 DEF Booked, Checked, At, Idle, CreatePcs, Started
<1>7. OrderlyVerified BY IdAssumption DEF Init, OrderlyVerified, Verified
<1> QED BY <1>3, <1>4, <1>5, <1>6, <1>7 DEF SInv

LEMMA Stutter == SInv /\ UNCHANGED vars => SInv'
<1> SUFFICES ASSUME SInv, UNCHANGED vars PROVE SInv' OBVIOUS
<1>1. UNCHANGED <<published, tagged, store, pulling, call, defaults, stem, cid>>
  BY DEF vars, images, inputs
<1>2. Types' BY <1>1 DEF SInv, Types
<1>3. Owned' /\ Lone' BY <1>1 DEF SInv, Owned, Lone, Imports, IsLight, Intended
<1>4. \A p \in Procs : Booked(p)' /\ Checked(p)'
  BY <1>1 DEF SInv, Booked, Checked, Orderly, Intended, At, Engines, Meta, Path, IsLight
<1>5. OrderlyVerified' BY <1>1 DEF SInv, OrderlyVerified, Verified, Intended
<1> QED BY <1>2, <1>3, <1>4, <1>5 DEF SInv

LEMMA PublishKeeps == SInv /\ Publish => SInv'
<1> SUFFICES ASSUME SInv, Publish PROVE SInv' OBVIOUS
<1>1. UNCHANGED <<tagged, store, pulling, call, defaults, stem, cid>> /\ published' \in Contents
  BY DEF Publish, images, inputs
<1>2. Types' BY <1>1 DEF SInv, Types
<1>3. Owned' /\ Lone' BY <1>1 DEF SInv, Owned, Lone, Imports, IsLight, Intended
<1>4. \A p \in Procs : Booked(p)' /\ Checked(p)'
  BY <1>1 DEF SInv, Booked, Checked, Orderly, Intended, At, Engines, Meta, Path, IsLight
<1>5. OrderlyVerified' BY <1>1 DEF SInv, OrderlyVerified, Verified, Intended
<1> QED BY <1>2, <1>3, <1>4, <1>5 DEF SInv

LEMMA PullEndsKeeps == SInv /\ PullEnds => SInv'
<1> SUFFICES ASSUME SInv, PullEnds PROVE SInv' OBVIOUS
<1>1. PICK h \in Hosts, c \in Contents :
        /\ c \in pulling[h] /\ Pulled(h, c)
        /\ pulling' = [pulling EXCEPT ![h] = @ \ {c}]
  BY DEF PullEnds, SInv, Types
<1>2. UNCHANGED <<published, call, defaults, stem, cid>> BY DEF PullEnds, inputs
<1>3. Types BY DEF SInv
<1>4. h \in Late /\ c \in Contents BY <1>1, <1>3 DEF Types
<1>5. Types'
  <2>1. store' \in [Hosts -> Stores] BY <1>1, <1>3, <1>4, Stored DEF Pulled
  <2>2. tagged' \in [Hosts -> Contents \cup {None}] BY <1>1, <1>3, <1>4 DEF Pulled, Types
  <2>3. pulling' \in [Hosts -> SUBSET Contents] BY <1>1, <1>3 DEF Types
  <2>4. \A g \in Hosts \ Late : pulling'[g] = {} BY <1>1, <1>3, <1>4 DEF Types
  <2> QED BY <1>2, <1>3, <2>1, <2>2, <2>3, <2>4 DEF Types
<1>6. Owned' /\ Lone' BY <1>2 DEF SInv, Owned, Lone, Imports, IsLight, Intended
<1>7. ASSUME NEW p \in Procs PROVE Booked(p)' /\ Checked(p)'
  <2>1. Booked(p) /\ Checked(p) BY DEF SInv
  <2>2. Booked(p)' BY <1>2, <2>1 DEF Booked, IsLight
  <2>3. SUFFICES ASSUME Orderly(call[p].stem), RequireImageVerification, At(p, "cid"),
                        NEW g \in Engines(p)
                 PROVE  tagged'[g] \in {Meta(p).digest, None}
    BY <1>2, <2>2 DEF Checked, Orderly, Intended, At, Engines, Meta, Path
  <2>4. g = Intended(call[p].stem) /\ g \in Hosts
    BY <1>3, <2>1, <2>3, OnEngine DEF At, Started
  <2>5. g # h BY <1>4, <2>3, <2>4 DEF Orderly
  <2>6. tagged'[g] = tagged[g] BY <1>1, <1>3, <2>5 DEF Pulled, Types
  <2> QED BY <2>1, <2>3, <2>6 DEF Checked
<1>8. OrderlyVerified' BY <1>2 DEF SInv, OrderlyVerified, Verified, Intended
<1> QED BY <1>5, <1>6, <1>7, <1>8 DEF SInv

LEMMA NextKeeps == SInv /\ [Next]_vars => SInv'
<1> SUFFICES ASSUME SInv, [Next]_vars PROVE SInv' OBVIOUS
<1>1. CASE UNCHANGED vars BY <1>1, Stutter
<1>2. CASE Publish \/ PullEnds BY <1>2, PublishKeeps, PullEndsKeeps
<1>3. ASSUME NEW p \in Procs,
             \/ BeginCreate(p) \/ BeginDelete(p) \/ New(p)
             \/ ImportFromPath(p) \/ Pull(p) \/ VerifyImageDigest(p)
             \/ GetImageDigestCID(p) \/ ImageImport(p) \/ Delete(p)
      PROVE  SInv'
  BY <1>3, MoveKeeps, BeginMoves, NewMoves, DetectMoves, PullMoves, VerifyMoves,
     NameMoves, ImportMoves, DeleteMoves
<1> QED BY <1>1, <1>2, <1>3 DEF Next

LEMMA Inductive == Spec => []SInv
<1> QED BY Start, NextKeeps, PTL DEF Spec

\* On an engine to which light stemcells are imported one at a time, and that
\* finishes no pull after its events or its call have ended, a light stemcell's CID
\* names the content whose digest its metadata has: for any engines and contents, any
\* deletes and imports of files beside it, and a tag that its owner moves at any time.
THEOREM VerifiedIfSerial == Spec => []OrderlyVerified
<1>1. SInv => OrderlyVerified BY DEF SInv
<1> QED BY <1>1, Inductive, PTL

\* Only calls that mean an engine, and the pulls that they have begun there, change
\* what it has, whatever their contexts are and however many calls there are.
THEOREM OnlyIntended == Spec => OnlyIntendedEngine
<1> DEFINE Changes(h) == \/ tagged'[h] # tagged[h] \/ store'[h] # store[h]
                         \/ ~(pulling'[h] \subseteq pulling[h])
           Moves(p, h) == /\ call[p].stem # None /\ Intended(call[p].stem) = h
                          /\ call'[p] # call[p]
           Step == \A h \in Hosts : Changes(h) =>
                     \/ \E p \in Procs : Moves(p, h)
                     \/ ~(pulling[h] \subseteq pulling'[h])
<1>1. SInv /\ Next => Step
  <2> SUFFICES ASSUME SInv, Next, NEW h \in Hosts, Changes(h),
                      pulling[h] \subseteq pulling'[h]
               PROVE  \E p \in Procs : Moves(p, h)
    OBVIOUS
  <2>0. ASSUME NEW g, NEW i, NEW c, g # h, store' = [store EXCEPT ![g][i] = c]
        PROVE  store'[h] = store[h]
    BY <2>0 DEF SInv, Types
  <2>10. ASSUME NEW g, NEW c, g # h, tagged' = [tagged EXCEPT ![g] = c]
         PROVE  tagged'[h] = tagged[h]
    BY <2>10 DEF SInv, Types
  <2>11. ASSUME NEW g, NEW c, g # h, pulling' = [pulling EXCEPT ![g] = c]
         PROVE  pulling'[h] = pulling[h]
    BY <2>11 DEF SInv, Types
  <2>12. ~PullEnds
    <3> SUFFICES ASSUME PullEnds PROVE FALSE OBVIOUS
    <3>1. PICK g \in Hosts, c \in Contents :
            /\ c \in pulling[g] /\ Pulled(g, c)
            /\ pulling' = [pulling EXCEPT ![g] = @ \ {c}]
      BY DEF PullEnds, SInv, Types
    <3>2. g # h BY <3>1 DEF SInv, Types
    <3> QED BY <2>0, <2>10, <2>11, <3>1, <3>2 DEF Pulled
  <2>1. PICK p \in Procs : Pull(p) \/ ImageImport(p) \/ Delete(p)
    BY <2>12 DEF Next, Publish, BeginCreate, BeginDelete, Begin, New, ImportFromPath,
           VerifyImageDigest, GetImageDigestCID, images
  <2>2. Types /\ Booked(p) BY CallFacts
  <2>3. call[p].pc \in Started /\ ~At(p, "idle")
    BY <2>1 DEF Pull, ImageImport, Delete, At, Started
  <2>4. call[p].stem # None BY <2>3, CallFacts
  <2>5. call'[p] # call[p]
    <3>1. call'[p].pc # call[p].pc
      BY <2>1, <2>2 DEF Pull, ImageImport, Delete, At, Goto, Fails, Succeeds, Idle, Types,
                        CallSet
    <3> QED BY <3>1
  <2>6. h \in Engines(p)
    <3>3. CASE Pull(p)
      <4>1. \/ \E g \in Engines(p) : Pulled(g, published) /\ UNCHANGED pulling
            \/ /\ UNCHANGED <<tagged, store>>
               /\ \E g \in Engines(p) : \/ UNCHANGED pulling
                                        \/ pulling' = [pulling EXCEPT ![g] = @ \cup {published}]
            \/ UNCHANGED images
        BY <3>3, Zenon DEF Pull
      <4> QED BY <2>0, <2>10, <2>11, <4>1 DEF Pulled, images
    <3>4. CASE ImageImport(p)
      <4>1. UNCHANGED <<tagged, pulling>> BY <3>4 DEF ImageImport
      <4>2. PICK u \in Fresh, g \in Engines(p) : Imported(p, g, u)
        BY <3>4, <4>1 DEF ImageImport
      <4> QED BY <2>0, <4>1, <4>2 DEF Imported
    <3>5. CASE Delete(p)
      <4>1. PICK g \in Engines(p) : Removed(p, g, cid[call[p].stem])
        BY <3>5 DEF Delete
      <4>2. UNCHANGED pulling BY <3>5 DEF Delete
      <4> QED BY <2>0, <2>10, <4>1, <4>2 DEF Removed
    <3> QED BY <2>1, <3>3, <3>4, <3>5
  <2> QED BY <2>2, <2>3, <2>4, <2>5, <2>6, OnEngine
<1>2. SInv /\ [Next]_vars => [Step]_vars BY <1>1
<1>3. OnlyIntendedEngine <=> [][Step]_vars BY DEF OnlyIntendedEngine
<1> QED BY <1>2, <1>3, Inductive, PTL DEF Spec

-----------------------------------------------------------------------------
(* A stemcell the Director has is on its engine.                            *)

\* What has the tag is there, under its digest.
TagStored == \A h \in Hosts : tagged[h] # None => store[h][tagged[h]] = tagged[h]
\* A stemcell means an engine that exists, once it is held.
Meant == \A s \in Stems : cid[s] # None => Intended(s) \in Hosts
HInv == HeldPresent /\ TagStored /\ Meant

\* The image a stemcell should have.
Image(s) == IF cid[s] \in Contents THEN cid[s] ELSE stem[s].rootfs

LEMMA Cell ==
  ASSUME Types, NEW g \in Hosts, NEW i, NEW c, store' = [store EXCEPT ![g][i] = c]
  PROVE  \A k \in Hosts, j \in Ids : k # g \/ j # i => store'[k][j] = store[k][j]
<1>1. store[g] \in Stores /\ store'[g] = [store[g] EXCEPT ![i] = c] BY DEF Types
<1>2. \A j \in Ids : j # i => store'[g][j] = store[g][j] BY <1>1 DEF Stores
<1>3. \A k \in Hosts : k # g => store'[k] = store[k] BY DEF Types
<1> QED BY <1>2, <1>3

LEMMA NewCell ==
  ASSUME Types, NEW g \in Hosts, NEW i \in Ids, NEW c, store' = [store EXCEPT ![g][i] = c]
  PROVE  store'[g][i] = c
<1>1. store[g] \in Stores /\ store'[g] = [store[g] EXCEPT ![i] = c] BY DEF Types
<1> QED BY <1>1 DEF Stores

LEMMA Unmoved ==
  ASSUME HInv, UNCHANGED <<tagged, store, inputs, cid, loose>>
  PROVE  HInv'
BY DEF HInv, HeldPresent, TagStored, Meant, Intended, inputs

\* The end of a pull, within its call or after it.
LEMMA PulledHeld ==
  ASSUME Types, HInv, NEW h \in Hosts, NEW c \in Contents, Pulled(h, c),
         UNCHANGED <<inputs, cid, loose>>
  PROVE  HInv'
<1>1. tagged' = [tagged EXCEPT ![h] = c] /\ store' = [store EXCEPT ![h][c] = c]
  BY DEF Pulled
<1>2. c \in Ids BY DEF Ids
<1>3. \A k \in Hosts, j \in Ids :
        store'[k][j] = store[k][j] \/ (j = c /\ store'[k][j] = c)
  BY <1>1, <1>2, Cell, NewCell
<1>4. TagStored'
  <2>1. SUFFICES ASSUME NEW k \in Hosts, tagged'[k] # None
                 PROVE  store'[k][tagged'[k]] = tagged'[k]
    BY DEF TagStored
  <2>2. CASE k = h
    <3>1. tagged'[h] = c BY <1>1, <1>2 DEF Types
    <3>2. store'[h][c] = c BY <1>1, <1>2, NewCell
    <3> QED BY <2>2, <3>1, <3>2
  <2>3. CASE k # h
    <3>1. tagged'[k] = tagged[k] /\ tagged[k] \in Ids
      BY <1>1, <2>1, <2>3 DEF Types, Ids
    <3> QED BY <1>3, <2>1, <3>1 DEF HInv, TagStored
  <2> QED BY <2>2, <2>3
<1>5. HeldPresent'
  <2>1. SUFFICES ASSUME NEW s \in Stems, cid[s] # None, <<Intended(s), cid[s]>> \notin loose
                 PROVE  store'[Intended(s)][cid[s]] = Image(s)
    BY DEF HeldPresent, Intended, Image, inputs
  <2>2. cid[s] \in Ids /\ Intended(s) \in Hosts /\ store[Intended(s)][cid[s]] = Image(s)
    BY <2>1 DEF HInv, HeldPresent, Meant, Image, Types
  <2> QED BY <1>2, <1>3, <2>2 DEF Image
<1>6. Meant' BY DEF HInv, Meant, Intended, inputs
<1> QED BY <1>4, <1>5, <1>6 DEF HInv

LEMMA PullHeld ==
  ASSUME SInv, HInv, NEW p \in Procs, Pull(p)
  PROVE  HInv'
<1>1. Types /\ Booked(p) /\ UNCHANGED inputs /\ call[p].pc \in Started
  BY CallFacts DEF Pull, At, Started
<1>2. UNCHANGED <<cid, loose>> BY DEF Pull, Goto, Fails
<1>3. CASE UNCHANGED <<tagged, store>> BY <1>1, <1>2, <1>3, Unmoved
<1>4. CASE \E h \in Engines(p) : Pulled(h, published)
  BY <1>1, <1>2, <1>4, OnEngine, PulledHeld DEF Types
<1> QED BY <1>3, <1>4 DEF Pull, images

LEMMA NameHeld ==
  ASSUME SInv, HInv, NEW p \in Procs, GetImageDigestCID(p)
  PROVE  HInv'
<1>1. Types /\ Booked(p) /\ UNCHANGED <<tagged, store, inputs>> /\ call[p].pc \in Started
  BY CallFacts DEF GetImageDigestCID, images, At, Started
<1>2. CASE UNCHANGED <<cid, loose>> BY <1>1, <1>2, Unmoved
<1>3. CASE \E h \in Engines(p) : /\ tagged[h] # None /\ Succeeds(p, tagged[h])
                                 /\ loose' = loose \ {<<h, tagged[h]>>}
  <2>1. PICK h \in Engines(p) : /\ tagged[h] # None /\ Succeeds(p, tagged[h])
                                /\ loose' = loose \ {<<h, tagged[h]>>}
    BY <1>3
  <2>2. h \in Hosts /\ h = Intended(call[p].stem) BY <1>1, OnEngine
  <2>3. tagged[h] \in Contents /\ store[h][tagged[h]] = tagged[h]
    BY <1>1, <2>1, <2>2 DEF HInv, TagStored, Types
  <2>4. \A s \in Stems : cid'[s] = cid[s] \/ (s = call[p].stem /\ cid'[s] = tagged[h])
    BY <1>1, <2>1 DEF Succeeds, Types
  <2>5. ASSUME NEW s \in Stems, cid'[s] # None, <<Intended(s), cid'[s]>> \notin loose'
        PROVE  store[Intended(s)][cid'[s]] = Image(s)'
    <3>1. CASE Intended(s) = h /\ cid'[s] = tagged[h] BY <2>3, <3>1 DEF Image
    <3>2. CASE ~(Intended(s) = h /\ cid'[s] = tagged[h])
      <4>1. cid'[s] = cid[s] BY <2>2, <2>4, <3>2
      <4>2. <<Intended(s), cid[s]>> \notin loose
        BY <2>1, <2>5, <3>2, <4>1
      <4> QED BY <1>1, <2>5, <4>1, <4>2 DEF HInv, HeldPresent, Image, inputs
    <3> QED BY <3>1, <3>2
  <2>6. HeldPresent' BY <1>1, <2>5 DEF HeldPresent, Image, Intended, inputs
  <2>7. TagStored' BY <1>1 DEF HInv, TagStored
  <2>8. Meant' BY <1>1, <2>2, <2>4 DEF HInv, Meant, Intended, inputs
  <2> QED BY <2>6, <2>7, <2>8 DEF HInv
<1> QED BY <1>2, <1>3 DEF GetImageDigestCID, Fails

LEMMA ImportHeld ==
  ASSUME SInv, HInv, NEW p \in Procs, ImageImport(p)
  PROVE  HInv'
<1>1. /\ Types /\ Booked(p) /\ UNCHANGED <<tagged, inputs>> /\ call[p].pc \in Started
  BY CallFacts DEF ImageImport, At, Started
<1>2. CASE UNCHANGED <<store, cid, loose>> BY <1>1, <1>2, Unmoved
<1>3. CASE \E u \in Fresh, h \in Engines(p) :
        \/ Imported(p, h, u) /\ UNCHANGED loose /\ (Succeeds(p, u) \/ UNCHANGED cid)
        \/ UNCHANGED store /\ Succeeds(p, u) /\ loose' = loose \cup {<<h, u>>}
  <2>1. PICK u \in Fresh, h \in Engines(p) :
        \/ Imported(p, h, u) /\ UNCHANGED loose /\ (Succeeds(p, u) \/ UNCHANGED cid)
        \/ UNCHANGED store /\ Succeeds(p, u) /\ loose' = loose \cup {<<h, u>>}
    BY <1>3
  <2>2. /\ u \in Ids /\ u \notin Contents /\ \A s \in Stems : cid[s] # u
        /\ h \in Hosts /\ h = Intended(call[p].stem)
    BY <1>1, IdAssumption, OnEngine DEF Fresh, Ids
  <2>3. \A k \in Hosts, j \in Ids : j # u => store'[k][j] = store[k][j]
    <3>1. CASE Imported(p, h, u) BY <1>1, <2>2, <3>1, Cell DEF Imported
    <3> QED BY <2>1, <3>1
  <2>4. \A s \in Stems : cid'[s] = cid[s] \/ (s = call[p].stem /\ cid'[s] = u)
    BY <1>1, <2>1 DEF Succeeds, Types
  <2>5. ASSUME NEW s \in Stems, cid'[s] # None, <<Intended(s), cid'[s]>> \notin loose'
        PROVE  store'[Intended(s)][cid'[s]] = Image(s)'
    <3>1. CASE cid'[s] = u
      <4>1. s = call[p].stem /\ Intended(s) = h BY <2>2, <2>4, <3>1
      <4>2. Imported(p, h, u)
        <5>1. <<h, u>> \notin loose' BY <2>5, <3>1, <4>1
        <5> QED BY <2>1, <5>1
      <4>3. store'[h][u] = stem[s].rootfs
        BY <1>1, <2>2, <4>1, <4>2, NewCell DEF Imported
      <4> QED BY <1>1, <2>2, <3>1, <4>1, <4>3 DEF Image, inputs
    <3>2. CASE cid'[s] # u
      <4>1. cid'[s] = cid[s] /\ cid[s] \in Ids BY <1>1, <2>4, <2>5, <3>2 DEF Types
      <4>2. <<Intended(s), cid[s]>> \notin loose BY <2>1, <2>5, <4>1
      <4>3. Intended(s) \in Hosts BY <2>5, <4>1 DEF HInv, Meant
      <4>4. store[Intended(s)][cid[s]] = Image(s)
        BY <2>5, <4>1, <4>2 DEF HInv, HeldPresent, Image
      <4> QED BY <1>1, <2>3, <3>2, <4>1, <4>3, <4>4 DEF Image, inputs
    <3> QED BY <3>1, <3>2
  <2>6. HeldPresent' BY <1>1, <2>5 DEF HeldPresent, Image, Intended, inputs
  <2>7. TagStored'
    <3>1. SUFFICES ASSUME NEW k \in Hosts, tagged[k] # None
                   PROVE  store'[k][tagged[k]] = tagged[k]
      BY <1>1 DEF TagStored
    <3>2. tagged[k] \in Ids /\ tagged[k] # u BY <1>1, <2>2, <3>1 DEF Types, Ids
    <3> QED BY <2>3, <3>1, <3>2 DEF HInv, TagStored
  <2>8. Meant' BY <1>1, <2>2, <2>4 DEF HInv, Meant, Intended, inputs
  <2> QED BY <2>6, <2>7, <2>8 DEF HInv
<1> QED BY <1>2, <1>3 DEF ImageImport, Fails

LEMMA DeleteHeld ==
  ASSUME SInv, HInv, NEW p \in Procs, Delete(p)
  PROVE  HInv'
<1>1. Types /\ Booked(p) /\ UNCHANGED inputs /\ call[p].pc \in Started
  BY CallFacts DEF Delete, At, Started
<1>2. CASE UNCHANGED <<tagged, store, cid, loose>> BY <1>1, <1>2, Unmoved
<1> DEFINE i == cid[call[p].stem]
<1>3. CASE \E h \in Engines(p) : Removed(p, h, i) /\ (Succeeds(p, None) \/ UNCHANGED cid)
  <2>1. PICK h \in Engines(p) : Removed(p, h, i) /\ (Succeeds(p, None) \/ UNCHANGED cid)
    BY <1>3
  <2>2. h \in Hosts BY <1>1, OnEngine
  <2> HIDE DEF i
  <2>3. \A k \in Hosts, j \in Ids : k # h \/ j # i => store'[k][j] = store[k][j]
    BY <1>1, <2>1, <2>2, Cell DEF Removed
  <2>4. \A s \in Stems : cid'[s] \in {cid[s], None} BY <1>1, <2>1 DEF Succeeds, Types
  <2>5. ASSUME NEW s \in Stems, cid'[s] # None, <<Intended(s), cid'[s]>> \notin loose'
        PROVE  store'[Intended(s)][cid'[s]] = Image(s)'
    <3>1. cid'[s] = cid[s] /\ cid[s] \in Ids BY <1>1, <2>4, <2>5 DEF Types
    <3>2. /\ <<Intended(s), cid[s]>> \notin loose
          /\ Intended(s) # h \/ cid[s] # i
      BY <2>1, <2>5, <3>1 DEF Removed
    <3>3. Intended(s) \in Hosts BY <2>5, <3>1 DEF HInv, Meant
    <3>4. store[Intended(s)][cid[s]] = Image(s)
      BY <2>5, <3>1, <3>2 DEF HInv, HeldPresent, Image
    <3> QED BY <1>1, <2>3, <3>1, <3>2, <3>3, <3>4 DEF Image, inputs
  <2>6. HeldPresent' BY <1>1, <2>5 DEF HeldPresent, Image, Intended, inputs
  <2>7. TagStored'
    <3>1. SUFFICES ASSUME NEW k \in Hosts, tagged'[k] # None
                   PROVE  store'[k][tagged'[k]] = tagged'[k]
      BY DEF TagStored
    <3>2. tagged'[k] = tagged[k] /\ (k # h \/ tagged[k] # i)
      BY <1>1, <2>1, <2>2, <3>1 DEF Removed, Types
    <3>3. tagged[k] \in Ids BY <1>1, <3>1, <3>2 DEF Types, Ids
    <3> QED BY <2>3, <3>1, <3>2, <3>3 DEF HInv, TagStored
  <2>8. Meant' BY <1>1, <2>4 DEF HInv, Meant, Intended, inputs
  <2> QED BY <2>6, <2>7, <2>8 DEF HInv
<1> QED BY <1>2, <1>3 DEF Delete, Fails

LEMMA HeldStep == SInv /\ HInv /\ [Next]_vars => HInv'
<1> SUFFICES ASSUME SInv, HInv, [Next]_vars PROVE HInv' OBVIOUS
<1>1. CASE UNCHANGED vars BY <1>1, Unmoved DEF vars, images, inputs
<1>2. CASE Publish \/ PullEnds
  <2>1. CASE Publish BY <2>1, Unmoved DEF Publish, images
  <2>2. CASE PullEnds
    <3>1. PICK h \in Hosts, c \in Contents : Pulled(h, c)
      BY <2>2 DEF PullEnds, SInv, Types
    <3> QED BY <2>2, <3>1, PulledHeld DEF PullEnds, SInv
  <2> QED BY <1>2, <2>1, <2>2
<1>3. ASSUME NEW p \in Procs,
             \/ BeginCreate(p) \/ BeginDelete(p) \/ New(p)
             \/ ImportFromPath(p) \/ VerifyImageDigest(p)
      PROVE  HInv'
  BY <1>3, Unmoved DEF BeginCreate, BeginDelete, Begin, New, ImportFromPath,
                       VerifyImageDigest, Goto, Fails, images
<1> QED BY <1>1, <1>2, <1>3, PullHeld, NameHeld, ImportHeld, DeleteHeld DEF Next

\* A stemcell the Director has is on its engine with its content, unless its import
\* was torn or a delete_stemcell of the same CID has removed it: for any engines,
\* contents, stemcells and calls that run at once.
THEOREM HeldStaysPresent == Spec => []HeldPresent
<1>1. Init => HInv
  <2> SUFFICES ASSUME Init PROVE HInv OBVIOUS
  <2>1. (\A s \in Stems : cid[s] = None) /\ \A h \in Hosts : tagged[h] = None BY DEF Init
  <2> QED BY <2>1 DEF HInv, HeldPresent, TagStored, Meant
<1>2. HInv => HeldPresent BY DEF HInv
<1> QED BY <1>1, <1>2, HeldStep, Inductive, PTL DEF Spec

-----------------------------------------------------------------------------
(* The manifest decides how a stemcell is imported.                        *)

\* What its path says of a stemcell that is imported from a file.
FromFile(s) == ParseFromPath(stem[s].path).is = "traditional" /\ stem[s].path.gzip
Importable(p) == At(p, "import") => FromFile(call[p].stem)
Routed(s) == cid[s] # None => IF cid[s] \in Contents THEN IsLight(s) ELSE FromFile(s)
RInv == (\A p \in Procs : Importable(p)) /\ \A s \in Stems : Routed(s)

LEMMA FirstIsNamed ==
  ASSUME NEW files, NEW names, DOMAIN files \subseteq Nat, Named(files, names) # {}
  PROVE  \E k \in DOMAIN files : First(files, names) = files[k] /\ files[k].name \in names
<1> DEFINE T == Named(files, names)
<1>1. T \subseteq Nat /\ T # {}
  BY DEF Named
<1>2. PICK k \in T : \A j \in T : <<j, k>> \notin OpToRel(<, Nat)
  BY <1>1, NatLessThanWellFounded, WFMin
<1>3. \A j \in T : k <= j
  <2> SUFFICES ASSUME NEW j \in T PROVE k <= j
    OBVIOUS
  <2>1. k \in Nat /\ j \in Nat
    BY <1>1
  <2>2. ~(j < k)
    BY <1>2, <2>1 DEF OpToRel
  <2> QED
    BY <2>1, <2>2
<1> QED
  BY <1>3 DEF First, Named

\* A path with one manifest, of which the importer has found out what to do.
LEMMA ManifestDecides ==
  ASSUME Types, NEW s \in Stems, NEW m, Manifests(s) = {m}
  PROVE  /\ IsLight(s) => m.light
         /\ FromFile(s) => ~m.light
<1> DEFINE path == stem[s].path
<1> DEFINE f == path.files
<1>1. /\ path.kind \in {"missing", "image", "directory", "archive"}
      /\ DOMAIN f \subseteq Nat
      /\ \A k \in DOMAIN f : f[k].manifest # None <=> f[k].name \in Names
  BY PathAssumption DEF Types
<1>2. \A k \in DOMAIN f : f[k].name \in Names => f[k].manifest = m
  BY <1>1 DEF Manifests
<1>3. Named(f, Names) # {}
  BY <1>1 DEF Manifests, Named
<1>4. \A g : Unmarshal(g).is = "light" => g.light
  BY DEF Unmarshal, Failed, Traditional, Light
<1>5. \A g : Unmarshal(g).is = "traditional" => ~g.light
  BY DEF Unmarshal, Failed, Traditional, Light
<1> HIDE DEF f
<1>6. ParseFromDirectory(f) = Unmarshal(m)
  <2> DEFINE names == IF Named(f, {"stemcell.MF"}) = {} THEN Names ELSE {"stemcell.MF"}
  <2>1. names \subseteq Names /\ Named(f, names) # {}
    BY <1>3 DEF Names
  <2>2. First(f, names).manifest = m
    BY <1>1, <1>2, <2>1, FirstIsNamed
  <2> QED
    BY <2>1, <2>2 DEF ParseFromDirectory
<1>7. path.gzip => ParseFromArchive(path) \in {Failed, Unmarshal(m)}
  <2> DEFINE names == Names \cup {"torn"}
  <2>1. Named(f, names) # {}
    BY <1>3 DEF Named
  <2>2. PICK k \in DOMAIN f : First(f, names) = f[k] /\ f[k].name \in names
    BY <1>1, <2>1, FirstIsNamed
  <2> QED
    BY <1>2, <2>1, <2>2 DEF ParseFromArchive, f
<1>8. ~path.gzip => ParseFromArchive(path) = Traditional
  BY DEF ParseFromArchive
<1>9. CASE path.kind = "missing"
  BY <1>9 DEF IsLight, FromFile, ParseFromPath, Failed
<1>10. CASE path.kind \in {"image", "directory"}
  BY <1>4, <1>5, <1>6, <1>10 DEF IsLight, FromFile, ParseFromPath, f
<1>11. CASE path.kind = "archive"
  <2>1. ParseFromPath(path) = ParseFromArchive(path)
    BY <1>11 DEF ParseFromPath
  <2> QED
    BY <1>4, <1>5, <1>7, <1>8, <2>1 DEF IsLight, FromFile, Failed, Traditional
<1> QED
  BY <1>1, <1>9, <1>10, <1>11

LEMMA RoutedFrame ==
  ASSUME Types, RInv, NEW p \in Procs, UNCHANGED inputs,
         \A q \in Procs : q # p => call'[q] = call[q], Importable(p)',
         \A s \in Stems : cid'[s] # cid[s] /\ cid'[s] # None =>
           IF cid'[s] \in Contents THEN IsLight(s) ELSE FromFile(s)
  PROVE  RInv'
BY DEF RInv, Importable, Routed, At, FromFile, IsLight, inputs

LEMMA RoutedStep == SInv /\ RInv /\ [Next]_vars => RInv'
<1> SUFFICES ASSUME SInv, RInv, [Next]_vars PROVE RInv'
  OBVIOUS
<1>1. CASE UNCHANGED vars \/ Publish \/ PullEnds
  BY <1>1 DEF vars, inputs, images, Publish, PullEnds, RInv, Importable, Routed, At, FromFile, IsLight
<1>2. ASSUME NEW p \in Procs,
             \/ BeginCreate(p) \/ BeginDelete(p) \/ New(p)
             \/ Pull(p) \/ VerifyImageDigest(p)
      PROVE  RInv'
  <2>1. Types BY CallFacts
  <2>2. /\ UNCHANGED <<inputs, cid>> /\ \A q \in Procs : q # p => call'[q] = call[q]
        /\ ~At(p, "import")'
    BY <1>2, <2>1 DEF BeginCreate, BeginDelete, Begin, New, Pull, VerifyImageDigest,
                      Goto, Fails, Idle, At, Types, CallSet
  <2> QED BY <2>1, <2>2, RoutedFrame DEF Importable
<1>3. ASSUME NEW p \in Procs, ImportFromPath(p) PROVE RInv'
  <2>1. Types BY CallFacts
  <2>2. /\ UNCHANGED <<inputs, cid>> /\ \A q \in Procs : q # p => call'[q] = call[q]
    BY <1>3, <2>1 DEF ImportFromPath, Goto, Fails, Types
  <2>3. Importable(p)'
    <3>1. /\ call'[p].pc = "import" => FromFile(call[p].stem)
          /\ call'[p].pc = "import" => call'[p].stem = call[p].stem
      BY <1>3, <2>1 DEF ImportFromPath, Goto, Fails, Idle, Types, CallSet, FromFile, Path
    <3> QED BY <2>2, <3>1 DEF Importable, At, FromFile, inputs
  <2> QED BY <2>1, <2>2, <2>3, RoutedFrame
<1>4. ASSUME NEW p \in Procs, GetImageDigestCID(p) \/ ImageImport(p) \/ Delete(p)
      PROVE  RInv'
  <2>1. Types /\ Booked(p) /\ call[p] \in CallSet /\ Importable(p) BY CallFacts DEF RInv
  <2>2. /\ UNCHANGED inputs /\ \A q \in Procs : q # p => call'[q] = call[q]
        /\ ~At(p, "import")'
    BY <1>4, <2>1 DEF GetImageDigestCID, ImageImport, Delete, Succeeds, Fails, Idle, At, Types
  <2>3. ASSUME NEW s \in Stems, cid'[s] # cid[s], cid'[s] # None
        PROVE  IF cid'[s] \in Contents THEN IsLight(s) ELSE FromFile(s)
    <3>1. CASE GetImageDigestCID(p)
      <4>1. s = call[p].stem /\ \E h \in Engines(p) : cid'[s] = tagged[h] /\ tagged[h] # None
        BY <2>1, <2>3, <3>1 DEF GetImageDigestCID, Succeeds, Fails, Types
      <4>2. IsLight(s) BY <2>1, <3>1, <4>1 DEF GetImageDigestCID, At, Booked
      <4>3. At(p, "cid") BY <3>1 DEF GetImageDigestCID
      <4>4. \A h \in Engines(p) : h \in Hosts BY <2>1, <4>3, OnEngine DEF At, Started
      <4> QED BY <2>1, <4>1, <4>2, <4>4 DEF Types
    <3>2. CASE ImageImport(p)
      <4>1. s = call[p].stem /\ cid'[s] \in Uuids
        BY <2>1, <2>3, <3>2 DEF ImageImport, Succeeds, Fails, Fresh, Types
      <4>2. cid'[s] \notin Contents BY <4>1, IdAssumption
      <4> QED BY <2>1, <3>2, <4>1, <4>2 DEF ImageImport, Importable
    <3>3. CASE Delete(p)
      <4>1. cid'[s] \in {cid[s], None}
        BY <2>1, <3>3 DEF Delete, Succeeds, Fails, Types
      <4> QED BY <2>3, <4>1
    <3> QED BY <1>4, <3>1, <3>2, <3>3
  <2> QED BY <2>1, <2>2, <2>3, RoutedFrame DEF Importable
<1> QED BY <1>1, <1>2, <1>3, <1>4 DEF Next

\* A stemcell with one manifest has come from the registry exactly if the manifest
\* says that it is light, wherever in the archive or directory that file is and
\* whatever other files there are.
THEOREM ManifestRoutes == Spec => []RoutedByManifest
<1>1. Init => RInv
  BY DEF Init, RInv, Importable, Routed, At, Idle
<1>2. SInv /\ RInv => RoutedByManifest
  <2> SUFFICES ASSUME SInv, RInv, NEW s \in Stems, NEW m \in Manifests(s), cid[s] # None,
                      Manifests(s) = {m}
               PROVE  m.light <=> cid[s] \in Contents
    BY DEF RoutedByManifest
  <2>1. Types /\ Routed(s) BY DEF SInv, RInv
  <2> QED BY <2>1, ManifestDecides DEF Routed
<1> QED BY <1>1, <1>2, RoutedStep, Inductive, PTL DEF Spec
=============================================================================
