------------------------------ MODULE Metadata ------------------------------
(***************************************************************************)
(* stemcell/metadata.go: whether a path is a light stemcell, and what its  *)
(* manifest says.                                                          *)
(*                                                                         *)
(* A path is a file named "image" next to a manifest, a directory, an      *)
(* archive, or there is nothing.  files is what is in the directory, or    *)
(* the archive in its order, as [name, manifest]; a member of an archive   *)
(* that cannot be read has the name "torn".                                *)
(***************************************************************************)
EXTENDS Naturals, Sequences

Names == {"stemcell.MF", "stemcell_metadata.yml"}

\* What ParseFromPath returns: an error, no metadata, or those of a light one.
Failed == [is |-> "failed"]
Traditional == [is |-> "traditional"]
Light(m) == [is |-> "light", meta |-> m]

\* yaml.Unmarshal and IsLightStemcell.
Unmarshal(m) ==
  IF ~m.parses THEN Failed ELSE IF m.light THEN Light(m) ELSE Traditional

Named(files, names) == {k \in DOMAIN files : files[k].name \in names}
First(files, names) ==
  files[CHOOSE k \in Named(files, names) : \A j \in Named(files, names) : k <= j]

\* stemcell.MF before stemcell_metadata.yml.
ParseFromDirectory(files) ==
  LET names == IF Named(files, {"stemcell.MF"}) = {} THEN Names ELSE {"stemcell.MF"} IN
  IF Named(files, names) = {} THEN Traditional ELSE Unmarshal(First(files, names).manifest)

\* Whichever comes first, if the archive is intact up to there.
FirstEntryOnly(archive) ==
  IF archive.gzip /\ archive.files # <<>> /\ Head(archive.files).name \in Names
  THEN Unmarshal(Head(archive.files).manifest) ELSE Traditional
ParseFromArchive(archive) ==
  LET names == Names \cup {"torn"}
      first == First(archive.files, names) IN
  IF ~archive.gzip \/ Named(archive.files, names) = {} THEN Traditional
  ELSE IF first.name = "torn" THEN Failed
  ELSE Unmarshal(first.manifest)

ParseFromPath(path) ==
  CASE path.kind = "missing"            -> Failed
    [] path.kind \in {"image", "directory"} -> ParseFromDirectory(path.files)
    [] path.kind = "archive"            -> ParseFromArchive(path)

\* validateImageReference, by what it looks for: "", "..", and a reference that
\* begins with one of the separators.
ValidateImageReference(ref) == ref \notin {"empty", "dots", "separator"}
=============================================================================
