---------------------------- MODULE MCStemcells ----------------------------
(***************************************************************************)
(* Stemcells on small instances: stemcells of every kind, from an engine   *)
(* behind a socket and from one behind TLS, with what is wrong in each.     *)
(***************************************************************************)
EXTENDS Stemcells, TLC

CONSTANTS local, remote, c1, c2

MCHosts == {local, remote}
MCUnixHosts == {local}
\* One engine on which imports are orderly, and one on which all goes wrong.
MCSerial == {local}
MCLate == {remote}
MCContents == {c1, c2}

Socket == [host |-> local, version |-> TRUE,
           ca |-> None, certificate |-> None, privateKey |-> None]
Tls == [host |-> remote, version |-> TRUE,
        ca |-> remote, certificate |-> remote, privateKey |-> remote]
NoContext == [Socket EXCEPT !.host = None, !.version = FALSE]
BadContexts ==
  {[Tls EXCEPT !.privateKey = None], [Tls EXCEPT !.version = FALSE],
   [Tls EXCEPT !.ca = local], [Tls EXCEPT !.ca = Garbage],
   [Tls EXCEPT !.privateKey = local], [Socket EXCEPT !.host = Garbage]}
MCDefaults == {Socket, [Socket EXCEPT !.version = FALSE]}

Manifest == [parses |-> TRUE, light |-> TRUE, ref |-> "tag", digest |-> c1]
File(name, m) == [name |-> name, manifest |-> m]
MF(m) == <<File("stemcell.MF", m)>>
Rootfs == <<File("image", None)>>
Image(files) == [kind |-> "image", gzip |-> TRUE, files |-> files \o Rootfs]
Archive(files) == [kind |-> "archive", gzip |-> TRUE, files |-> files]

LightStems == {Image(MF(Manifest)), Archive(Rootfs \o MF([Manifest EXCEPT !.digest = c2]))}
FullStems == {Image(MF([Manifest EXCEPT !.light = FALSE])),
              Archive(Rootfs \o <<File("stemcell_metadata.yml", [Manifest EXCEPT !.light = FALSE])>>),
              Image(<<>>)}
Refused ==
  {Image(MF([Manifest EXCEPT !.digest = None])), Image(MF([Manifest EXCEPT !.ref = "empty"])),
   Archive(MF([Manifest EXCEPT !.parses = FALSE])),
   Archive(<<File("torn", None)>> \o MF(Manifest)),
   [kind |-> "directory", gzip |-> FALSE, files |-> Rootfs],
   [kind |-> "archive", gzip |-> FALSE, files |-> <<>>],
   [kind |-> "missing", gzip |-> FALSE, files |-> <<>>]}

Submit(paths, contexts) == [path : paths, rootfs : {c2}, ctx : contexts]
MCSubmissions == Submit(LightStems \cup FullStems, {NoContext, Tls})
                 \cup Submit(Refused, {Tls})
                 \cup Submit({Image(<<>>), Image(MF(Manifest))}, BadContexts)
Symmetry == Permutations(Stems) \cup Permutations(Procs) \cup Permutations(Uuids)
=============================================================================
