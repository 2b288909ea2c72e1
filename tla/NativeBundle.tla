---------------------------- MODULE NativeBundle ----------------------------
(***************************************************************************)
(* The files that native/native-artifacts.py writes and verifies.  A tree  *)
(* maps a path, a sequence of names, to a record [kind, mode, body]; an    *)
(* archive is a sequence of members [path, kind, mode, body].  A directory *)
(* of a release holds the manifest (index), the manifest its signature was *)
(* made over (seal), the Sigstore statement and, for each target, a file   *)
(* that is an archive with certain members.  A digest is what was          *)
(* digested: sizes, hashes and keys add nothing to that here.              *)
(***************************************************************************)
EXTENDS Naturals, FiniteSets, Sequences, SequencesExt

CONSTANTS
  Targets,      \* the keys of NATIVE_TARGET_FILENAMES
  Attempts,     \* the attempts of the native run
  Outputs,      \* the tree that a build for a target packs, by attempt
  Rejected      \* what an operation returns that ends in ArtifactError

\* safe_relative: not empty, not absolute, without empty, "." or ".." parts.
SafeRelative(path) == Len(path) > 0 /\ \A i \in DOMAIN path : path[i] \notin {"", ".", ".."}

\* file_mode: whether anybody may execute the file is all that is kept.
FileMode(mode) == IF mode \in {"0755", "0555"} THEN "0755" ELSE "0644"

\* deterministic_files and pack_archive: every file below the root, by path.
Packed(tree) ==
  LET files == {p \in DOMAIN tree : tree[p].kind = "file"}
      links == {p \in DOMAIN tree : tree[p].kind = "link"}
      member(p) == [path |-> p, kind |-> "file", mode |-> FileMode(tree[p].mode), body |-> tree[p].body]
  IN  IF links # {} \/ files = {} \/ \E p \in files : ~SafeRelative(p) THEN Rejected
      ELSE LET order == SetToSeq(files) IN [i \in DOMAIN order |-> member(order[i])]

\* A file of a native run: the archive of a target as an attempt packed it,
\* or altered since.
Members(file) ==
  LET packed == Packed(Outputs[file.target, file.attempt])
  IN  IF file.sound THEN packed ELSE [packed EXCEPT ![1].body = <<"altered">>]

\* archive_entries: the archive as a set of entries, every path of it once.
Entries(archive) ==
  LET ok(m) == m.kind = "file" /\ SafeRelative(m.path)
      entry(m) == [path |-> m.path, mode |-> FileMode(m.mode), body |-> m.body]
  IN  IF archive = <<>> \/ (\E i \in DOMAIN archive : ~ok(archive[i]))
         \/ Cardinality({archive[i].path : i \in DOMAIN archive}) < Len(archive)
      THEN Rejected
      ELSE {entry(archive[i]) : i \in DOMAIN archive}

\* safe_extract and safe_extract_zip of an archive into an empty directory.
Extracted(archive) ==
  LET entries == Entries(archive) IN
  IF entries = Rejected THEN Rejected
  ELSE [p \in {e.path : e \in entries} |->
          LET e == CHOOSE x \in entries : x.path = p
          IN  [kind |-> "file", mode |-> e.mode, body |-> e.body]]

\* What reading each file gives (a set: TLC then computes it once).
Files == [target : Targets, attempt : Attempts, sound : BOOLEAN]
Readings ==
  {[file |-> f, entries |-> Entries(Members(f)), tree |-> Extracted(Members(f))] : f \in Files}
Reading(file) == CHOOSE r \in Readings : r.file = file

\* create_manifest: the digest of each archive, under the attempt's name.
Manifest(source, tag, attempt, files) ==
  [source |-> source, tag |-> tag, attempt |-> attempt, digest |-> files]

\* The inventory of members that the manifest lists for a target.
Listed(index, t) == Reading(index.digest[t]).entries

\* validate_manifest: exactly the canonical targets, each with an inventory.
WellFormed(index) ==
  /\ DOMAIN index.digest = Targets
  /\ \A t \in Targets : Listed(index, t) \notin {Rejected, {}}

\* verify_artifact: the archive is the one that the manifest was made from.
VerifyArtifact(index, t, files) ==
  /\ t \in DOMAIN files
  /\ files[t] = index.digest[t]
  /\ Reading(files[t]).entries = Listed(index, t)

\* verify_release, for one target or (strict) for all and nothing else.
VerifyRelease(dir, targets, strict) ==
  /\ dir.seal = dir.index
  /\ WellFormed(dir.index)
  /\ \A t \in targets : VerifyArtifact(dir.index, t, dir.files)
  /\ strict => DOMAIN dir.files = Targets

\* attestation_subjects: digests of what is in the directory.
Subjects(dir) == [index |-> dir.index, seal |-> dir.seal, files |-> dir.files]

\* validate_provenance_result: the statement is about this inventory, from
\* the native workflow's run of this source at this attempt.
ValidProvenance(index, subjects, statement) ==
  /\ statement.source = index.source
  /\ statement.attempt = index.attempt
  /\ statement.subjects = subjects

\* Mutant: the statement is not verified.
MutVerifyProvenance(dir, source, attempt) ==
  VerifyRelease(dir, Targets, TRUE) /\ dir.index.source = source /\ dir.index.attempt = attempt

\* verify_provenance: the bundle of that source and that attempt, complete,
\* signed and attested.
VerifyProvenance(dir, source, attempt) ==
  /\ VerifyRelease(dir, Targets, TRUE)
  /\ dir.index.source = source
  /\ dir.index.attempt = attempt
  /\ ValidProvenance(dir.index, Subjects(dir), dir.statement)

\* The directory that the native run signs, attests and uploads.
Bundle(source, tag, attempt, files) ==
  LET index == Manifest(source, tag, attempt, files)
      dir == [index |-> index, seal |-> index, files |-> files]
  IN  [index |-> index, seal |-> index, files |-> files,
       statement |-> [source |-> source, attempt |-> attempt, subjects |-> Subjects(dir)]]

=============================================================================
