------------------------------- MODULE HopInstall -------------------------------
(***************************************************************************)
(* hop-install (cmd/hop-install/main.go): runs that download or open a     *)
(* release, verify it, extract it into a staging directory of their own    *)
(* below the prefix, and put that directory in the place of the installed  *)
(* one.  Runs for the same version share two names, "dest" (prefix/version) *)
(* and "backup" (dest.previous), and know nothing of each other.  A run may *)
(* die at any step, and any call into the file system may fail.            *)
(*                                                                         *)
(* A directory is the set of the files in it, wherever they lie below it.  *)
(* A file is what the release calls for, or "alien": bytes that are not    *)
(* this release's.  A run that ended is followed by another under the same *)
(* name; what it left of its staging directory is never met again, because *)
(* os.MkdirTemp takes a new name each time.                                *)
(***************************************************************************)
CONSTANTS Installers,       \* runs of hop-install that can be there at once
          Required          \* the files that a release consists of

ASSUME InstallAssumption ==
    /\ Installers \cap {"dest", "backup", "nothing"} = {}
    /\ Required # {}
    /\ Required \cap {"extra", "alien", "hop.pc", "marker", "theirs"} = {}

Names == Installers \cup {"dest", "backup"}     \* an installer's is its staging directory
Files == Required \cup {"extra", "alien", "hop.pc", "marker", "theirs"}

Whole  == Required \cup {"hop.pc", "marker"}    \* an installation
Theirs == {"theirs"}                            \* a directory that is not hop-install's

VARIABLES
    pc,         \* next step of each run
    manifest,   \* of each run: the manifest it has read
    dirs,       \* the names that exist
    files,      \* of each name: the files in it
    hand,       \* of each run: the directory that its os.RemoveAll has open
    overlap,    \* two runs have been replacing the installation at once
    fault,      \* a run died, or the file system failed it, while it was replacing
    calm        \* from now on releases are genuine, the disk works and no run dies

run  == <<pc, manifest>>
disk == <<dirs, files, hand>>
hist == <<overlap, fault, calm>>
vars == <<run, disk, hist>>

\* The manifests that a run may find: of the release asked for; signed, but with
\* an inventory that lacks what an installation needs; signed, of another
\* version, source or builder; not signed.
Manifests == {"genuine", "short", "other", "forged"}
Signed(m)    == m # "forged"
Matches(m)   == m # "other"
Inventory(m) == CASE m = "genuine" -> Required
                  [] m = "short"   -> {"extra"}
                  [] OTHER         -> Required \cup {"alien"}

Goto(i, step) == pc' = [pc EXCEPT ![i] = step]

\* The steps in which the shared names are replaced.
Replacing == {"owned", "clear", "clearing", "aside", "swap", "restore", "purge", "purging", "fresh"}

-----------------------------------------------------------------------------
(* From the manifest to a complete staging directory *)

Start(i) ==
    /\ pc[i] = "idle"
    /\ Goto(i, "fetch")
    /\ UNCHANGED <<manifest, disk, hist>>

\* Manifest and signature are downloaded or opened, and read once.
Fetch(i, m) ==
    /\ pc[i] = "fetch"
    /\ calm => m = "genuine"
    /\ manifest' = [manifest EXCEPT ![i] = m]
    /\ Goto(i, "signature")
    /\ UNCHANGED <<disk, hist>>

\* Mutant: the signature is read and not verified.
SignatureUnread(i) ==
    /\ pc[i] = "signature"
    /\ Goto(i, "validate")
    /\ UNCHANGED <<manifest, disk, hist>>

VerifySignature(i) ==
    /\ pc[i] = "signature"
    /\ Goto(i, IF Signed(manifest[i]) THEN "validate" ELSE "cleanup")
    /\ UNCHANGED <<manifest, disk, hist>>

\* parseManifest, validateManifest, selectArtifact.
ValidateManifest(i) ==
    /\ pc[i] = "validate"
    /\ Goto(i, IF Matches(manifest[i]) THEN "artifact" ELSE "cleanup")
    /\ UNCHANGED <<manifest, disk, hist>>

\* The archive is downloaded and has the size and digest that the manifest says;
\* a local one may be changed afterwards, so nothing more is known of it.
VerifyArchive(i) ==
    /\ pc[i] = "artifact"
    /\ Goto(i, "stage")
    /\ UNCHANGED <<manifest, disk, hist>>

Stage(i) ==
    /\ pc[i] = "stage"
    /\ dirs' = dirs \cup {i}
    /\ Goto(i, "extract")
    /\ UNCHANGED <<manifest, files, hand, hist>>

\* An entry that the inventory has and the archive had not yet, with its digest.
Extract(i) ==
    /\ pc[i] = "extract"
    /\ \E f \in Inventory(manifest[i]) \ files[i] :
          files' = [files EXCEPT ![i] = @ \cup {f}]
    /\ UNCHANGED <<run, dirs, hand, hist>>

\* An entry that is written before its digest turns out wrong.
ExtractAlien(i) ==
    /\ ~calm /\ pc[i] = "extract"
    /\ files' = [files EXCEPT ![i] = @ \cup {"alien"}]
    /\ Goto(i, "cleanup")
    /\ UNCHANGED <<manifest, dirs, hand, hist>>

\* The end of the archive.
ExtractEnds(i) ==
    /\ pc[i] = "extract"
    /\ calm => Inventory(manifest[i]) \subseteq files[i]
    /\ Goto(i, IF Inventory(manifest[i]) \subseteq files[i] THEN "shape" ELSE "cleanup")
    /\ UNCHANGED <<manifest, disk, hist>>

VerifyInstalledShape(i) ==
    /\ pc[i] = "shape"
    /\ Goto(i, IF Required \subseteq files[i] THEN "pkgconfig" ELSE "cleanup")
    /\ UNCHANGED <<manifest, disk, hist>>

WritePkgConfig(i) ==
    /\ pc[i] = "pkgconfig"
    /\ files' = [files EXCEPT ![i] = @ \cup {"hop.pc"}]
    /\ Goto(i, "marker")
    /\ UNCHANGED <<manifest, dirs, hand, hist>>

WriteMarker(i) ==
    /\ pc[i] = "marker"
    /\ files' = [files EXCEPT ![i] = @ \cup {"marker"}]
    /\ Goto(i, "stat")
    /\ UNCHANGED <<manifest, dirs, hand, hist>>

\* An error on the way here, the network's or the disk's, or an entry that is
\* refused before it is written.
Rejected(i) ==
    /\ ~calm
    /\ pc[i] \in {"fetch", "signature", "validate", "artifact", "stage", "extract",
                  "shape", "pkgconfig", "marker", "stat"}
    /\ Goto(i, "cleanup")
    /\ UNCHANGED <<manifest, disk, hist>>

\* The deferred calls of a run that returns: its staging directory goes, if it
\* still has one under that name.
Cleanup(i) ==
    /\ pc[i] \in {"cleanup", "installed"}
    /\ Goto(i, "idle")
    /\ manifest' = [manifest EXCEPT ![i] = "none"]
    /\ dirs' = dirs \ {i}
    /\ files' = [files EXCEPT ![i] = {}]
    /\ UNCHANGED <<hand, hist>>

-----------------------------------------------------------------------------
(* What os.Rename and os.RemoveAll do *)

\* os.Rename looks at the target first and refuses one that is there, even an
\* empty one.
CanRename(a, b) == a \in dirs /\ b \notin dirs

\* Who has the directory open follows it to its new name.
Rename(a, b) ==
    /\ dirs' = (dirs \ {a}) \cup {b}
    /\ files' = [files EXCEPT ![b] = files[a], ![a] = {}]
    /\ hand' = [j \in Installers |-> IF hand[j] = a THEN b ELSE hand[j]]

\* The steps in which a RemoveAll of the backup begins and goes on.
Removal == [clear |-> "clearing", purge |-> "purging"]

Open(i) ==
    /\ pc[i] \in {"clear", "purge"}
    /\ Goto(i, Removal[pc[i]])
    /\ hand' = [hand EXCEPT ![i] = IF "backup" \in dirs THEN "backup" ELSE "nothing"]
    /\ UNCHANGED <<manifest, dirs, files, hist>>

\* Files are removed through the open directory, wherever that is by now ...
Unlink(i) ==
    /\ pc[i] \in {"clearing", "purging"} /\ hand[i] # "nothing"
    /\ \E f \in files[hand[i]] : files' = [files EXCEPT ![hand[i]] = @ \ {f}]
    /\ UNCHANGED <<run, dirs, hand, hist>>

\* ... and then the directory itself by its name, if an empty one is there.  If
\* another is there, this is an error: ignored before the replacement, and the
\* run's own after it.
Rmdir(i) ==
    /\ pc[i] \in {"clearing", "purging"}
    /\ hand[i] # "nothing" => files[hand[i]] = {}
    /\ LET gone == files["backup"] = {}
       IN  /\ Goto(i, IF pc[i] = "clearing" THEN "aside" ELSE IF gone THEN "installed" ELSE "cleanup")
           /\ dirs' = IF gone THEN dirs \ {"backup"} ELSE dirs
           /\ hand' = [j \in Installers |->
                          IF j = i \/ (gone /\ hand[j] = "backup") THEN "nothing" ELSE hand[j]]
    /\ UNCHANGED <<manifest, files, hist>>

-----------------------------------------------------------------------------
(* replaceOwnedInstall *)

\* Mutant: the backup is cleared away before anything is known of the destination.
StatAfterClear(i) ==
    /\ pc[i] = "stat"
    /\ Goto(i, IF "dest" \in dirs THEN "owned" ELSE "fresh")
    /\ overlap' = (overlap \/ \E j \in Installers \ {i} : pc[j] \in Replacing)
    /\ dirs' = dirs \ {"backup"} /\ files' = [files EXCEPT !["backup"] = {}]
    /\ hand' = [j \in Installers |-> IF hand[j] = "backup" THEN "nothing" ELSE hand[j]]
    /\ UNCHANGED <<manifest, fault, calm>>

Stat(i) ==
    /\ pc[i] = "stat"
    /\ Goto(i, IF "dest" \in dirs THEN "owned" ELSE "fresh")
    /\ overlap' = (overlap \/ \E j \in Installers \ {i} : pc[j] \in Replacing)
    /\ UNCHANGED <<manifest, disk, fault, calm>>

\* Mutant: a backup that an earlier run left is not cleared away.
OwnedUncleared(i) ==
    /\ pc[i] = "owned"
    /\ Goto(i, IF "marker" \in files["dest"] THEN "aside" ELSE "cleanup")
    /\ UNCHANGED <<manifest, disk, hist>>

\* Is there an ownership marker?
Owned(i) ==
    /\ pc[i] = "owned"
    /\ Goto(i, IF "marker" \in files["dest"] THEN "clear" ELSE "cleanup")
    /\ UNCHANGED <<manifest, disk, hist>>

Aside(i) ==
    /\ pc[i] = "aside"
    /\ IF CanRename("dest", "backup")
       THEN Rename("dest", "backup") /\ Goto(i, "swap")
       ELSE Goto(i, "cleanup") /\ UNCHANGED disk
    /\ UNCHANGED <<manifest, hist>>

Swap(i) ==
    /\ pc[i] = "swap"
    /\ IF CanRename(i, "dest")
       THEN Rename(i, "dest") /\ Goto(i, "purge")
       ELSE Goto(i, "restore") /\ UNCHANGED disk
    /\ UNCHANGED <<manifest, hist>>

\* The result of putting the backup back is not looked at.
Restore(i) ==
    /\ pc[i] = "restore"
    /\ IF CanRename("backup", "dest") THEN Rename("backup", "dest") ELSE UNCHANGED disk
    /\ Goto(i, "cleanup")
    /\ UNCHANGED <<manifest, hist>>

Fresh(i) ==
    /\ pc[i] = "fresh"
    /\ IF CanRename(i, "dest")
       THEN Rename(i, "dest") /\ Goto(i, "installed")
       ELSE Goto(i, "cleanup") /\ UNCHANGED disk
    /\ UNCHANGED <<manifest, hist>>

\* The file system refuses a call: a RemoveAll is given up, a rename not done.
Fails(i) ==
    /\ ~calm /\ pc[i] \in Replacing
    /\ Goto(i, CASE pc[i] \in {"clear", "clearing"} -> "aside"
                 [] pc[i] = "swap" -> "restore"
                 [] OTHER -> "cleanup")
    /\ hand' = [hand EXCEPT ![i] = "nothing"]
    /\ fault' = TRUE
    /\ UNCHANGED <<manifest, dirs, files, overlap, calm>>

\* The process dies.
Crash(i) ==
    /\ ~calm /\ pc[i] # "idle"
    /\ Goto(i, "idle")
    /\ manifest' = [manifest EXCEPT ![i] = "none"]
    /\ dirs' = dirs \ {i}
    /\ files' = [files EXCEPT ![i] = {}]
    /\ hand' = [hand EXCEPT ![i] = "nothing"]
    /\ fault' = (fault \/ pc[i] \in Replacing)
    /\ UNCHANGED <<overlap, calm>>

-----------------------------------------------------------------------------
\* Nothing is installed, an earlier run's installation, or someone else's directory.
Init ==
    /\ pc = [i \in Installers |-> "idle"]
    /\ manifest = [i \in Installers |-> "none"]
    /\ dirs \in {{}, {"dest"}}
    /\ \E there \in {Whole, Theirs} :
          files = [n \in Names |-> IF n \in dirs THEN there ELSE {}]
    /\ hand = [i \in Installers |-> "nothing"]
    /\ overlap = FALSE /\ fault = FALSE /\ calm = FALSE

\* The trouble is over.
CalmDown == ~calm /\ calm' = TRUE /\ UNCHANGED <<run, disk, overlap, fault>>

Verify(i)  == \/ \E m \in Manifests : Fetch(i, m)
              \/ VerifySignature(i) \/ ValidateManifest(i) \/ VerifyArchive(i)
Prepare(i) == \/ Stage(i) \/ Extract(i) \/ ExtractEnds(i) \/ VerifyInstalledShape(i)
              \/ WritePkgConfig(i) \/ WriteMarker(i)
Replace(i) == \/ Stat(i) \/ Owned(i) \/ Open(i) \/ Unlink(i) \/ Rmdir(i)
              \/ Aside(i) \/ Swap(i) \/ Restore(i) \/ Fresh(i)
Run(i)     == Start(i) \/ Verify(i) \/ Prepare(i) \/ Replace(i) \/ Cleanup(i)

Next ==
    \/ \E i \in Installers : Run(i) \/ ExtractAlien(i) \/ Rejected(i) \/ Fails(i) \/ Crash(i)
    \/ CalmDown

Spec == Init /\ [][Next]_vars

(* Fairness: someone runs hop-install again and again, and each run goes on. *)
Perseveres == \A i \in Installers : WF_vars(Run(i))

-----------------------------------------------------------------------------
(* Properties *)

Steps == {"idle", "fetch", "signature", "validate", "artifact", "stage", "extract", "shape",
          "pkgconfig", "marker", "stat", "cleanup", "installed"} \cup Replacing

\* Before and after a run's staging directory exists.
Outside == {"idle", "fetch", "signature", "validate", "artifact", "stage", "purge", "purging", "installed"}

\* Types; a name that does not exist holds nothing; a run that is over has left no
\* staging directory (the one of a run that died is under a name no one has).
TypeOK ==
    /\ pc \in [Installers -> Steps]
    /\ manifest \in [Installers -> Manifests \cup {"none"}]
    /\ dirs \subseteq Names /\ files \in [Names -> SUBSET Files]
    /\ \A n \in Names \ dirs : files[n] = {}
    /\ \A i \in Installers : pc[i] \in Outside => i \notin dirs
    /\ hand \in [Installers -> {"dest", "backup", "nothing"}]
    /\ \A i \in Installers : hand[i] # "nothing" => hand[i] \in dirs
    /\ overlap \in BOOLEAN /\ fault \in BOOLEAN /\ calm \in BOOLEAN

\* What is at the destination is a whole installation or somebody else's, and
\* nobody else's directory has been moved.
Sound == /\ "dest" \in dirs => files["dest"] \in {Whole, Theirs}
         /\ "theirs" \notin files["backup"]

\* However a run ends, by an error at any step or by dying, as long as no other
\* run replaces the same version meanwhile: the destination never holds a part of
\* an installation, or one with a file that Hop did not sign for this version,
\* and a directory without the marker is left as it is.  A run that ends, but
\* by dying, leaves no staging directory.
OnlyWhole ==
    /\ ~overlap => Sound
    /\ \A i \in Installers : pc[i] \in Outside => i \notin dirs

\* There is a whole installation, under one of the two names, or on its way to
\* the destination in the hands of a run beside which another has removed the
\* backup.
Installed == \/ Whole \in {files["dest"], files["backup"]}
             \/ overlap /\ \E i \in Installers : pc[i] = "swap" /\ files[i] = Whole

\* Once there is an installation there always is one.  The only exception is
\* trouble in the replacement while two runs are at it.
NothingLost == [][Installed /\ Sound => (Installed /\ Sound)' \/ (overlap' /\ fault')]_vars

\* Whatever a run that died or failed has left under the shared names, later
\* runs, one after the other, get over it and install.
Recovers ==
    Perseveres /\ <>calm /\ [](files["dest"] # Theirs) /\ []~overlap
        => []<>(\E i \in Installers : pc[i] = "installed")
=============================================================================
