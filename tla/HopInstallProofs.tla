---------------------------- MODULE HopInstallProofs ----------------------------
(***************************************************************************)
(* What runs of hop-install leave at the destination: any number of them   *)
(* that do not replace the same version at once, and two that do.          *)
(***************************************************************************)
EXTENDS HopInstall, TLAPS

-----------------------------------------------------------------------------
(* Runs that do not replace at once *)

\* As long as no two runs replaced at once, there is at most one that does.
Alone == ~overlap => \A i, j \in Installers : pc[i] \in Replacing /\ pc[j] \in Replacing => i = j

\* What a run has verified of its manifest, ...
Verified == \A i \in Installers :
    /\ pc[i] = "signature" => manifest[i] \in Manifests
    /\ pc[i] = "validate" => manifest[i] \in Manifests \ {"forged"}
    /\ pc[i] \in {"artifact", "stage", "extract", "shape"} => manifest[i] \in {"genuine", "short"}

\* ... and what therefore is in its staging directory.
Prepared == \A i \in Installers :
    /\ pc[i] = "extract" => i \in dirs /\ files[i] \subseteq Inventory(manifest[i])
    /\ pc[i] = "shape" => i \in dirs /\ files[i] = Inventory(manifest[i])
    /\ pc[i] = "pkgconfig" => i \in dirs /\ files[i] = Required
    /\ pc[i] = "marker" => i \in dirs /\ files[i] = Required \cup {"hop.pc"}
    /\ pc[i] \in {"stat", "owned", "clear", "clearing", "aside", "swap", "restore", "fresh"}
          => i \in dirs /\ files[i] = Whole

\* Only a RemoveAll has a directory open.
HandsClosed == \A i \in Installers : hand[i] # "nothing" => pc[i] \in {"clearing", "purging"}

\* Where the installation is at each step of a replacement.
Placed ==
    /\ Sound
    /\ \A i \in Installers :
          /\ pc[i] \in {"clear", "clearing", "aside", "purge", "purging"}
                => "dest" \in dirs /\ files["dest"] = Whole
          /\ pc[i] \in {"swap", "restore"}
                => "dest" \notin dirs /\ "backup" \in dirs /\ files["backup"] = Whole
          /\ hand[i] # "dest"

Settled == ~overlap => Placed

IInv == TypeOK /\ Alone /\ Verified /\ Prepared /\ HandsClosed /\ Settled

-----------------------------------------------------------------------------
LEMMA TypeStep == TypeOK /\ Prepared /\ [Next]_vars => TypeOK'
<1> SUFFICES ASSUME TypeOK, Prepared, [Next]_vars PROVE TypeOK'
  OBVIOUS
<1> USE InstallAssumption DEF TypeOK, Outside, Steps, Replacing, Names, Files, Manifests, Inventory, run, disk, hist, Goto
<1>1. ASSUME NEW i \in Installers, Start(i) PROVE TypeOK'
  BY <1>1 DEF Start
<1>2. ASSUME NEW i \in Installers, VerifySignature(i) PROVE TypeOK'
  BY <1>2 DEF VerifySignature, Signed
<1>3. ASSUME NEW i \in Installers, ValidateManifest(i) PROVE TypeOK'
  BY <1>3 DEF ValidateManifest, Matches
<1>4. ASSUME NEW i \in Installers, VerifyArchive(i) PROVE TypeOK'
  BY <1>4 DEF VerifyArchive
<1>5. ASSUME NEW i \in Installers, Stage(i) PROVE TypeOK'
  BY <1>5 DEF Stage
<1>6. ASSUME NEW i \in Installers, Extract(i) PROVE TypeOK'
  <2>1. PICK f \in Inventory(manifest[i]) : files' = [files EXCEPT ![i] = files[i] \cup {f}]
    BY <1>6 DEF Extract
  <2>2. i \in dirs
    BY <1>6 DEF Extract, Prepared
  <2>3. f \in Files
    OBVIOUS
  <2>4. files' \in [Names -> SUBSET Files] /\ \A n \in Names \ {i} : files'[n] = files[n]
    BY <2>1, <2>3
  <2> QED
    BY <1>6, <2>2, <2>4 DEF Extract
<1>7. ASSUME NEW i \in Installers, ExtractEnds(i) PROVE TypeOK'
  BY <1>7 DEF ExtractEnds
<1>8. ASSUME NEW i \in Installers, VerifyInstalledShape(i) PROVE TypeOK'
  BY <1>8 DEF VerifyInstalledShape
<1>9. ASSUME NEW i \in Installers, WritePkgConfig(i) PROVE TypeOK'
  <2>1. pc[i] = "pkgconfig" /\ files' = [files EXCEPT ![i] = files[i] \cup {"hop.pc"}]
    BY <1>9 DEF WritePkgConfig
  <2>2. i \in dirs
    BY <2>1 DEF Prepared
  <2>3. files' \in [Names -> SUBSET Files] /\ \A n \in Names \ {i} : files'[n] = files[n]
    BY <2>1
  <2> QED
    BY <1>9, <2>2, <2>3 DEF WritePkgConfig
<1>10. ASSUME NEW i \in Installers, WriteMarker(i) PROVE TypeOK'
  <2>1. pc[i] = "marker" /\ files' = [files EXCEPT ![i] = files[i] \cup {"marker"}]
    BY <1>10 DEF WriteMarker
  <2>2. i \in dirs
    BY <2>1 DEF Prepared
  <2>3. files' \in [Names -> SUBSET Files] /\ \A n \in Names \ {i} : files'[n] = files[n]
    BY <2>1
  <2> QED
    BY <1>10, <2>2, <2>3 DEF WriteMarker
<1>11. ASSUME NEW i \in Installers, Stat(i) PROVE TypeOK'
  BY <1>11 DEF Stat
<1>12. ASSUME NEW i \in Installers, Owned(i) PROVE TypeOK'
  BY <1>12 DEF Owned
<1>13. ASSUME NEW i \in Installers, Open(i) PROVE TypeOK'
  BY <1>13 DEF Open, Removal
<1>14. ASSUME NEW i \in Installers, Unlink(i) PROVE TypeOK'
  BY <1>14 DEF Unlink
<1>15. ASSUME NEW i \in Installers, Rmdir(i) PROVE TypeOK'
  BY <1>15 DEF Rmdir
<1>16. ASSUME NEW i \in Installers, Aside(i) PROVE TypeOK'
  BY <1>16 DEF Aside, CanRename, Rename
<1>17. ASSUME NEW i \in Installers, Swap(i) PROVE TypeOK'
  BY <1>17 DEF Swap, CanRename, Rename
<1>18. ASSUME NEW i \in Installers, Restore(i) PROVE TypeOK'
  BY <1>18 DEF Restore, CanRename, Rename
<1>19. ASSUME NEW i \in Installers, Fresh(i) PROVE TypeOK'
  BY <1>19 DEF Fresh, CanRename, Rename
<1>20. ASSUME NEW i \in Installers, Cleanup(i) PROVE TypeOK'
  BY <1>20 DEF Cleanup
<1>21. ASSUME NEW i \in Installers, ExtractAlien(i) PROVE TypeOK'
  <2>1. pc[i] = "extract" /\ files' = [files EXCEPT ![i] = files[i] \cup {"alien"}]
    BY <1>21 DEF ExtractAlien
  <2>2. i \in dirs
    BY <2>1 DEF Prepared
  <2>3. files' \in [Names -> SUBSET Files] /\ \A n \in Names \ {i} : files'[n] = files[n]
    BY <2>1
  <2> QED
    BY <1>21, <2>2, <2>3 DEF ExtractAlien
<1>22. ASSUME NEW i \in Installers, Rejected(i) PROVE TypeOK'
  BY <1>22 DEF Rejected
<1>23. ASSUME NEW i \in Installers, Fails(i) PROVE TypeOK'
  BY <1>23 DEF Fails
<1>24. ASSUME NEW i \in Installers, Crash(i) PROVE TypeOK'
  BY <1>24 DEF Crash
<1>25. ASSUME NEW i \in Installers, NEW m \in Manifests, Fetch(i, m) PROVE TypeOK'
  BY <1>25 DEF Fetch
<1>26. CASE CalmDown
  BY <1>26 DEF CalmDown
<1>27. CASE UNCHANGED vars
  BY <1>27 DEF vars
<1> QED
  BY <1>1, <1>2, <1>3, <1>4, <1>5, <1>6, <1>7, <1>8, <1>9, <1>10, <1>11, <1>12, <1>13, <1>14, <1>15, <1>16, <1>17, <1>18, <1>19, <1>20, <1>21, <1>22, <1>23, <1>24, <1>25, <1>26, <1>27
     DEF Next, Run, Verify, Prepare, Replace

LEMMA AloneStep == TypeOK /\ Alone /\ [Next]_vars => Alone'
<1> SUFFICES ASSUME TypeOK, Alone, [Next]_vars PROVE Alone'
  OBVIOUS
<1> USE DEF TypeOK, Alone, Replacing, run, disk, hist, Goto
<1>1. ASSUME NEW i \in Installers, Start(i) PROVE Alone'
  BY <1>1 DEF Start
<1>2. ASSUME NEW i \in Installers, VerifySignature(i) PROVE Alone'
  BY <1>2 DEF VerifySignature, Signed
<1>3. ASSUME NEW i \in Installers, ValidateManifest(i) PROVE Alone'
  BY <1>3 DEF ValidateManifest, Matches
<1>4. ASSUME NEW i \in Installers, VerifyArchive(i) PROVE Alone'
  BY <1>4 DEF VerifyArchive
<1>5. ASSUME NEW i \in Installers, Stage(i) PROVE Alone'
  BY <1>5 DEF Stage
<1>6. ASSUME NEW i \in Installers, Extract(i) PROVE Alone'
  BY <1>6 DEF Extract
<1>7. ASSUME NEW i \in Installers, ExtractEnds(i) PROVE Alone'
  BY <1>7 DEF ExtractEnds
<1>8. ASSUME NEW i \in Installers, VerifyInstalledShape(i) PROVE Alone'
  BY <1>8 DEF VerifyInstalledShape
<1>9. ASSUME NEW i \in Installers, WritePkgConfig(i) PROVE Alone'
  BY <1>9 DEF WritePkgConfig
<1>10. ASSUME NEW i \in Installers, WriteMarker(i) PROVE Alone'
  BY <1>10 DEF WriteMarker
<1>11. ASSUME NEW i \in Installers, Stat(i) PROVE Alone'
  BY <1>11 DEF Stat
<1>12. ASSUME NEW i \in Installers, Owned(i) PROVE Alone'
  BY <1>12 DEF Owned
<1>13. ASSUME NEW i \in Installers, Open(i) PROVE Alone'
  BY <1>13 DEF Open, Removal
<1>14. ASSUME NEW i \in Installers, Unlink(i) PROVE Alone'
  BY <1>14 DEF Unlink
<1>15. ASSUME NEW i \in Installers, Rmdir(i) PROVE Alone'
  BY <1>15 DEF Rmdir
<1>16. ASSUME NEW i \in Installers, Aside(i) PROVE Alone'
  BY <1>16 DEF Aside, CanRename, Rename
<1>17. ASSUME NEW i \in Installers, Swap(i) PROVE Alone'
  BY <1>17 DEF Swap, CanRename, Rename
<1>18. ASSUME NEW i \in Installers, Restore(i) PROVE Alone'
  BY <1>18 DEF Restore, CanRename, Rename
<1>19. ASSUME NEW i \in Installers, Fresh(i) PROVE Alone'
  BY <1>19 DEF Fresh, CanRename, Rename
<1>20. ASSUME NEW i \in Installers, Cleanup(i) PROVE Alone'
  BY <1>20 DEF Cleanup
<1>21. ASSUME NEW i \in Installers, ExtractAlien(i) PROVE Alone'
  BY <1>21 DEF ExtractAlien
<1>22. ASSUME NEW i \in Installers, Rejected(i) PROVE Alone'
  BY <1>22 DEF Rejected
<1>23. ASSUME NEW i \in Installers, Fails(i) PROVE Alone'
  BY <1>23 DEF Fails
<1>24. ASSUME NEW i \in Installers, Crash(i) PROVE Alone'
  BY <1>24 DEF Crash
<1>25. ASSUME NEW i \in Installers, NEW m \in Manifests, Fetch(i, m) PROVE Alone'
  BY <1>25 DEF Fetch
<1>26. CASE CalmDown
  BY <1>26 DEF CalmDown
<1>27. CASE UNCHANGED vars
  BY <1>27 DEF vars
<1> QED
  BY <1>1, <1>2, <1>3, <1>4, <1>5, <1>6, <1>7, <1>8, <1>9, <1>10, <1>11, <1>12, <1>13, <1>14, <1>15, <1>16, <1>17, <1>18, <1>19, <1>20, <1>21, <1>22, <1>23, <1>24, <1>25, <1>26, <1>27
     DEF Next, Run, Verify, Prepare, Replace

LEMMA VerifiedStep == TypeOK /\ Verified /\ [Next]_vars => Verified'
<1> SUFFICES ASSUME TypeOK, Verified, [Next]_vars PROVE Verified'
  OBVIOUS
<1> USE DEF TypeOK, Verified, Manifests, Replacing, run, disk, hist, Goto
<1>1. ASSUME NEW i \in Installers, Start(i) PROVE Verified'
  BY <1>1 DEF Start
<1>2. ASSUME NEW i \in Installers, VerifySignature(i) PROVE Verified'
  BY <1>2 DEF VerifySignature, Signed
<1>3. ASSUME NEW i \in Installers, ValidateManifest(i) PROVE Verified'
  BY <1>3 DEF ValidateManifest, Matches
<1>4. ASSUME NEW i \in Installers, VerifyArchive(i) PROVE Verified'
  BY <1>4 DEF VerifyArchive
<1>5. ASSUME NEW i \in Installers, Stage(i) PROVE Verified'
  BY <1>5 DEF Stage
<1>6. ASSUME NEW i \in Installers, Extract(i) PROVE Verified'
  BY <1>6 DEF Extract
<1>7. ASSUME NEW i \in Installers, ExtractEnds(i) PROVE Verified'
  BY <1>7 DEF ExtractEnds
<1>8. ASSUME NEW i \in Installers, VerifyInstalledShape(i) PROVE Verified'
  BY <1>8 DEF VerifyInstalledShape
<1>9. ASSUME NEW i \in Installers, WritePkgConfig(i) PROVE Verified'
  BY <1>9 DEF WritePkgConfig
<1>10. ASSUME NEW i \in Installers, WriteMarker(i) PROVE Verified'
  BY <1>10 DEF WriteMarker
<1>11. ASSUME NEW i \in Installers, Stat(i) PROVE Verified'
  BY <1>11 DEF Stat
<1>12. ASSUME NEW i \in Installers, Owned(i) PROVE Verified'
  BY <1>12 DEF Owned
<1>13. ASSUME NEW i \in Installers, Open(i) PROVE Verified'
  BY <1>13 DEF Open, Removal
<1>14. ASSUME NEW i \in Installers, Unlink(i) PROVE Verified'
  BY <1>14 DEF Unlink
<1>15. ASSUME NEW i \in Installers, Rmdir(i) PROVE Verified'
  BY <1>15 DEF Rmdir
<1>16. ASSUME NEW i \in Installers, Aside(i) PROVE Verified'
  BY <1>16 DEF Aside, CanRename, Rename
<1>17. ASSUME NEW i \in Installers, Swap(i) PROVE Verified'
  BY <1>17 DEF Swap, CanRename, Rename
<1>18. ASSUME NEW i \in Installers, Restore(i) PROVE Verified'
  BY <1>18 DEF Restore, CanRename, Rename
<1>19. ASSUME NEW i \in Installers, Fresh(i) PROVE Verified'
  BY <1>19 DEF Fresh, CanRename, Rename
<1>20. ASSUME NEW i \in Installers, Cleanup(i) PROVE Verified'
  BY <1>20 DEF Cleanup
<1>21. ASSUME NEW i \in Installers, ExtractAlien(i) PROVE Verified'
  BY <1>21 DEF ExtractAlien
<1>22. ASSUME NEW i \in Installers, Rejected(i) PROVE Verified'
  BY <1>22 DEF Rejected
<1>23. ASSUME NEW i \in Installers, Fails(i) PROVE Verified'
  BY <1>23 DEF Fails
<1>24. ASSUME NEW i \in Installers, Crash(i) PROVE Verified'
  BY <1>24 DEF Crash
<1>25. ASSUME NEW i \in Installers, NEW m \in Manifests, Fetch(i, m) PROVE Verified'
  BY <1>25 DEF Fetch
<1>26. CASE CalmDown
  BY <1>26 DEF CalmDown
<1>27. CASE UNCHANGED vars
  BY <1>27 DEF vars
<1> QED
  BY <1>1, <1>2, <1>3, <1>4, <1>5, <1>6, <1>7, <1>8, <1>9, <1>10, <1>11, <1>12, <1>13, <1>14, <1>15, <1>16, <1>17, <1>18, <1>19, <1>20, <1>21, <1>22, <1>23, <1>24, <1>25, <1>26, <1>27
     DEF Next, Run, Verify, Prepare, Replace

LEMMA PreparedStep == TypeOK /\ Verified /\ Prepared /\ [Next]_vars => Prepared'
<1> SUFFICES ASSUME TypeOK, Verified, Prepared, [Next]_vars PROVE Prepared'
  OBVIOUS
<1> USE InstallAssumption DEF TypeOK, Verified, Prepared, Whole, Files, Names, run, disk, hist, Goto
<1>1. ASSUME NEW i \in Installers, Start(i) PROVE Prepared'
  BY <1>1 DEF Start
<1>2. ASSUME NEW i \in Installers, VerifySignature(i) PROVE Prepared'
  BY <1>2 DEF VerifySignature, Signed
<1>3. ASSUME NEW i \in Installers, ValidateManifest(i) PROVE Prepared'
  BY <1>3 DEF ValidateManifest, Matches
<1>4. ASSUME NEW i \in Installers, VerifyArchive(i) PROVE Prepared'
  BY <1>4 DEF VerifyArchive
<1>5. ASSUME NEW i \in Installers, Stage(i) PROVE Prepared'
  <2>1. pc[i] = "stage" /\ pc' = [pc EXCEPT ![i] = "extract"] /\ dirs' = dirs \cup {i}
        /\ UNCHANGED <<manifest, files>>
    BY <1>5 DEF Stage
  <2>2. files[i] = {}
    BY <2>1 DEF Outside
  <2> QED
    BY <2>1, <2>2
<1>6. ASSUME NEW i \in Installers, Extract(i) PROVE Prepared'
  <2>1. PICK f \in Inventory(manifest[i]) : files' = [files EXCEPT ![i] = files[i] \cup {f}]
    BY <1>6 DEF Extract
  <2>2. pc[i] = "extract" /\ UNCHANGED <<pc, manifest, dirs>>
    BY <1>6 DEF Extract
  <2>3. files[i] \cup {f} \subseteq Inventory(manifest[i])
    BY <2>1, <2>2
  <2>4. files'[i] = files[i] \cup {f} /\ \A j \in Installers \ {i} : files'[j] = files[j]
    BY <2>1
  <2> QED
    BY <2>2, <2>3, <2>4
<1>7. ASSUME NEW i \in Installers, ExtractEnds(i) PROVE Prepared'
  <2>1. pc[i] = "extract" /\ UNCHANGED <<manifest, dirs, files>>
        /\ pc' = [pc EXCEPT ![i] = IF Inventory(manifest[i]) \subseteq files[i] THEN "shape" ELSE "cleanup"]
    BY <1>7 DEF ExtractEnds
  <2>2. CASE Inventory(manifest[i]) \subseteq files[i]
    BY <2>1, <2>2
  <2>3. CASE ~(Inventory(manifest[i]) \subseteq files[i])
    BY <2>1, <2>3
  <2> QED
    BY <2>2, <2>3
<1>8. ASSUME NEW i \in Installers, VerifyInstalledShape(i) PROVE Prepared'
  <2>1. pc[i] = "shape" /\ UNCHANGED <<manifest, dirs, files>>
        /\ pc' = [pc EXCEPT ![i] = IF Required \subseteq files[i] THEN "pkgconfig" ELSE "cleanup"]
    BY <1>8 DEF VerifyInstalledShape
  <2>2. files[i] \in {Required, {"extra"}}
    BY <2>1 DEF Inventory
  <2>3. Required \subseteq files[i] => files[i] = Required
    BY <2>2
  <2> QED
    BY <2>1, <2>3
<1>9. ASSUME NEW i \in Installers, WritePkgConfig(i) PROVE Prepared'
  BY <1>9 DEF WritePkgConfig
<1>10. ASSUME NEW i \in Installers, WriteMarker(i) PROVE Prepared'
  BY <1>10 DEF WriteMarker
<1>11. ASSUME NEW i \in Installers, Stat(i) PROVE Prepared'
  BY <1>11 DEF Stat
<1>12. ASSUME NEW i \in Installers, Owned(i) PROVE Prepared'
  BY <1>12 DEF Owned
<1>13. ASSUME NEW i \in Installers, Open(i) PROVE Prepared'
  BY <1>13 DEF Open, Removal
<1>14. ASSUME NEW i \in Installers, Unlink(i) PROVE Prepared'
  <2>1. UNCHANGED <<pc, manifest, dirs>> /\ hand[i] \in {"dest", "backup"}
    BY <1>14 DEF Unlink
  <2>2. \A j \in Installers : files'[j] = files[j]
    BY <1>14, <2>1 DEF Unlink
  <2> QED
    BY <2>1, <2>2
<1>15. ASSUME NEW i \in Installers, Rmdir(i) PROVE Prepared'
  BY <1>15 DEF Rmdir
<1>16. ASSUME NEW i \in Installers, Aside(i) PROVE Prepared'
  <2>1. CASE CanRename("dest", "backup")
    <3>1. pc[i] = "aside" /\ pc' = [pc EXCEPT ![i] = "swap"] /\ UNCHANGED manifest
          /\ dirs' = (dirs \ {"dest"}) \cup {"backup"}
          /\ files' = [files EXCEPT !["backup"] = files["dest"], !["dest"] = {}]
      BY <1>16, <2>1 DEF Aside, Rename
    <3>2. \A j \in Installers : files'[j] = files[j] /\ (j \in dirs <=> j \in dirs')
      BY <3>1
    <3> QED
      BY <3>1, <3>2
  <2>2. CASE ~CanRename("dest", "backup")
    <3>1. pc[i] = "aside" /\ pc' = [pc EXCEPT ![i] = "cleanup"] /\ UNCHANGED <<manifest, dirs, files>>
      BY <1>16, <2>2 DEF Aside
    <3> QED
      BY <3>1
  <2> QED
    BY <2>1, <2>2
<1>17. ASSUME NEW i \in Installers, Swap(i) PROVE Prepared'
  <2>1. CASE CanRename(i, "dest")
    <3>1. pc[i] = "swap" /\ pc' = [pc EXCEPT ![i] = "purge"] /\ UNCHANGED manifest
          /\ dirs' = (dirs \ {i}) \cup {"dest"}
          /\ files' = [files EXCEPT !["dest"] = files[i], ![i] = {}]
      BY <1>17, <2>1 DEF Swap, Rename
    <3>2. \A j \in Installers : j # i => files'[j] = files[j] /\ (j \in dirs <=> j \in dirs')
      BY <3>1
    <3> QED
      BY <3>1, <3>2
  <2>2. CASE ~CanRename(i, "dest")
    <3>1. pc[i] = "swap" /\ pc' = [pc EXCEPT ![i] = "restore"] /\ UNCHANGED <<manifest, dirs, files>>
      BY <1>17, <2>2 DEF Swap
    <3> QED
      BY <3>1
  <2> QED
    BY <2>1, <2>2
<1>18. ASSUME NEW i \in Installers, Restore(i) PROVE Prepared'
  <2>1. CASE CanRename("backup", "dest")
    <3>1. pc[i] = "restore" /\ pc' = [pc EXCEPT ![i] = "cleanup"] /\ UNCHANGED manifest
          /\ dirs' = (dirs \ {"backup"}) \cup {"dest"}
          /\ files' = [files EXCEPT !["dest"] = files["backup"], !["backup"] = {}]
      BY <1>18, <2>1 DEF Restore, Rename
    <3>2. \A j \in Installers : files'[j] = files[j] /\ (j \in dirs <=> j \in dirs')
      BY <3>1
    <3> QED
      BY <3>1, <3>2
  <2>2. CASE ~CanRename("backup", "dest")
    <3>1. pc[i] = "restore" /\ pc' = [pc EXCEPT ![i] = "cleanup"] /\ UNCHANGED <<manifest, dirs, files>>
      BY <1>18, <2>2 DEF Restore
    <3> QED
      BY <3>1
  <2> QED
    BY <2>1, <2>2
<1>19. ASSUME NEW i \in Installers, Fresh(i) PROVE Prepared'
  <2>1. CASE CanRename(i, "dest")
    <3>1. pc[i] = "fresh" /\ pc' = [pc EXCEPT ![i] = "installed"] /\ UNCHANGED manifest
          /\ dirs' = (dirs \ {i}) \cup {"dest"}
          /\ files' = [files EXCEPT !["dest"] = files[i], ![i] = {}]
      BY <1>19, <2>1 DEF Fresh, Rename
    <3>2. \A j \in Installers : j # i => files'[j] = files[j] /\ (j \in dirs <=> j \in dirs')
      BY <3>1
    <3> QED
      BY <3>1, <3>2
  <2>2. CASE ~CanRename(i, "dest")
    <3>1. pc[i] = "fresh" /\ pc' = [pc EXCEPT ![i] = "cleanup"] /\ UNCHANGED <<manifest, dirs, files>>
      BY <1>19, <2>2 DEF Fresh
    <3> QED
      BY <3>1
  <2> QED
    BY <2>1, <2>2
<1>20. ASSUME NEW i \in Installers, Cleanup(i) PROVE Prepared'
  BY <1>20 DEF Cleanup
<1>21. ASSUME NEW i \in Installers, ExtractAlien(i) PROVE Prepared'
  BY <1>21 DEF ExtractAlien
<1>22. ASSUME NEW i \in Installers, Rejected(i) PROVE Prepared'
  BY <1>22 DEF Rejected
<1>23. ASSUME NEW i \in Installers, Fails(i) PROVE Prepared'
  BY <1>23 DEF Fails
<1>24. ASSUME NEW i \in Installers, Crash(i) PROVE Prepared'
  BY <1>24 DEF Crash
<1>25. ASSUME NEW i \in Installers, NEW m \in Manifests, Fetch(i, m) PROVE Prepared'
  BY <1>25 DEF Fetch
<1>26. CASE CalmDown
  BY <1>26 DEF CalmDown
<1>27. CASE UNCHANGED vars
  BY <1>27 DEF vars
<1> QED
  BY <1>1, <1>2, <1>3, <1>4, <1>5, <1>6, <1>7, <1>8, <1>9, <1>10, <1>11, <1>12, <1>13, <1>14, <1>15, <1>16, <1>17, <1>18, <1>19, <1>20, <1>21, <1>22, <1>23, <1>24, <1>25, <1>26, <1>27
     DEF Next, Run, Verify, Prepare, Replace

LEMMA HandsClosedStep == TypeOK /\ HandsClosed /\ [Next]_vars => HandsClosed'
<1> SUFFICES ASSUME TypeOK, HandsClosed, [Next]_vars PROVE HandsClosed'
  OBVIOUS
<1> USE InstallAssumption DEF TypeOK, HandsClosed, Replacing, run, disk, hist, Goto
<1>1. ASSUME NEW i \in Installers, Start(i) PROVE HandsClosed'
  BY <1>1 DEF Start
<1>2. ASSUME NEW i \in Installers, VerifySignature(i) PROVE HandsClosed'
  BY <1>2 DEF VerifySignature, Signed
<1>3. ASSUME NEW i \in Installers, ValidateManifest(i) PROVE HandsClosed'
  BY <1>3 DEF ValidateManifest, Matches
<1>4. ASSUME NEW i \in Installers, VerifyArchive(i) PROVE HandsClosed'
  BY <1>4 DEF VerifyArchive
<1>5. ASSUME NEW i \in Installers, Stage(i) PROVE HandsClosed'
  BY <1>5 DEF Stage
<1>6. ASSUME NEW i \in Installers, Extract(i) PROVE HandsClosed'
  BY <1>6 DEF Extract
<1>7. ASSUME NEW i \in Installers, ExtractEnds(i) PROVE HandsClosed'
  BY <1>7 DEF ExtractEnds
<1>8. ASSUME NEW i \in Installers, VerifyInstalledShape(i) PROVE HandsClosed'
  BY <1>8 DEF VerifyInstalledShape
<1>9. ASSUME NEW i \in Installers, WritePkgConfig(i) PROVE HandsClosed'
  BY <1>9 DEF WritePkgConfig
<1>10. ASSUME NEW i \in Installers, WriteMarker(i) PROVE HandsClosed'
  BY <1>10 DEF WriteMarker
<1>11. ASSUME NEW i \in Installers, Stat(i) PROVE HandsClosed'
  BY <1>11 DEF Stat
<1>12. ASSUME NEW i \in Installers, Owned(i) PROVE HandsClosed'
  BY <1>12 DEF Owned
<1>13. ASSUME NEW i \in Installers, Open(i) PROVE HandsClosed'
  BY <1>13 DEF Open, Removal
<1>14. ASSUME NEW i \in Installers, Unlink(i) PROVE HandsClosed'
  BY <1>14 DEF Unlink
<1>15. ASSUME NEW i \in Installers, Rmdir(i) PROVE HandsClosed'
  BY <1>15 DEF Rmdir
<1>16. ASSUME NEW i \in Installers, Aside(i) PROVE HandsClosed'
  BY <1>16 DEF Aside, CanRename, Rename
<1>17. ASSUME NEW i \in Installers, Swap(i) PROVE HandsClosed'
  BY <1>17 DEF Swap, CanRename, Rename
<1>18. ASSUME NEW i \in Installers, Restore(i) PROVE HandsClosed'
  BY <1>18 DEF Restore, CanRename, Rename
<1>19. ASSUME NEW i \in Installers, Fresh(i) PROVE HandsClosed'
  BY <1>19 DEF Fresh, CanRename, Rename
<1>20. ASSUME NEW i \in Installers, Cleanup(i) PROVE HandsClosed'
  BY <1>20 DEF Cleanup
<1>21. ASSUME NEW i \in Installers, ExtractAlien(i) PROVE HandsClosed'
  BY <1>21 DEF ExtractAlien
<1>22. ASSUME NEW i \in Installers, Rejected(i) PROVE HandsClosed'
  BY <1>22 DEF Rejected
<1>23. ASSUME NEW i \in Installers, Fails(i) PROVE HandsClosed'
  BY <1>23 DEF Fails
<1>24. ASSUME NEW i \in Installers, Crash(i) PROVE HandsClosed'
  BY <1>24 DEF Crash
<1>25. ASSUME NEW i \in Installers, NEW m \in Manifests, Fetch(i, m) PROVE HandsClosed'
  BY <1>25 DEF Fetch
<1>26. CASE CalmDown
  BY <1>26 DEF CalmDown
<1>27. CASE UNCHANGED vars
  BY <1>27 DEF vars
<1> QED
  BY <1>1, <1>2, <1>3, <1>4, <1>5, <1>6, <1>7, <1>8, <1>9, <1>10, <1>11, <1>12, <1>13, <1>14, <1>15, <1>16, <1>17, <1>18, <1>19, <1>20, <1>21, <1>22, <1>23, <1>24, <1>25, <1>26, <1>27
     DEF Next, Run, Verify, Prepare, Replace

LEMMA SettledStep == TypeOK /\ Alone /\ Prepared /\ HandsClosed /\ Settled /\ [Next]_vars => Settled'
<1> SUFFICES ASSUME TypeOK, Alone, Prepared, HandsClosed, Settled, [Next]_vars PROVE Settled'
  OBVIOUS
<1> USE InstallAssumption DEF TypeOK, Alone, Prepared, HandsClosed, Settled, Placed, Sound, Replacing, Whole, Theirs, Files, Names, run, disk, hist, Goto
<1>1. ASSUME NEW i \in Installers, Start(i) PROVE Settled'
  BY <1>1 DEF Start
<1>2. ASSUME NEW i \in Installers, VerifySignature(i) PROVE Settled'
  BY <1>2 DEF VerifySignature, Signed
<1>3. ASSUME NEW i \in Installers, ValidateManifest(i) PROVE Settled'
  BY <1>3 DEF ValidateManifest, Matches
<1>4. ASSUME NEW i \in Installers, VerifyArchive(i) PROVE Settled'
  BY <1>4 DEF VerifyArchive
<1>5. ASSUME NEW i \in Installers, Stage(i) PROVE Settled'
  BY <1>5 DEF Stage
<1>6. ASSUME NEW i \in Installers, Extract(i) PROVE Settled'
  BY <1>6 DEF Extract
<1>7. ASSUME NEW i \in Installers, ExtractEnds(i) PROVE Settled'
  BY <1>7 DEF ExtractEnds
<1>8. ASSUME NEW i \in Installers, VerifyInstalledShape(i) PROVE Settled'
  BY <1>8 DEF VerifyInstalledShape
<1>9. ASSUME NEW i \in Installers, WritePkgConfig(i) PROVE Settled'
  BY <1>9 DEF WritePkgConfig
<1>10. ASSUME NEW i \in Installers, WriteMarker(i) PROVE Settled'
  BY <1>10 DEF WriteMarker
<1>11. ASSUME NEW i \in Installers, Stat(i) PROVE Settled'
  BY <1>11 DEF Stat
<1>12. ASSUME NEW i \in Installers, Owned(i) PROVE Settled'
  BY <1>12 DEF Owned
<1>13. ASSUME NEW i \in Installers, Open(i) PROVE Settled'
  BY <1>13 DEF Open, Removal
<1>14. ASSUME NEW i \in Installers, Unlink(i) PROVE Settled'
  BY <1>14 DEF Unlink
<1>15. ASSUME NEW i \in Installers, Rmdir(i) PROVE Settled'
  BY <1>15 DEF Rmdir
<1>16. ASSUME NEW i \in Installers, Aside(i) PROVE Settled'
  BY <1>16 DEF Aside, CanRename, Rename
<1>17. ASSUME NEW i \in Installers, Swap(i) PROVE Settled'
  BY <1>17 DEF Swap, CanRename, Rename
<1>18. ASSUME NEW i \in Installers, Restore(i) PROVE Settled'
  BY <1>18 DEF Restore, CanRename, Rename
<1>19. ASSUME NEW i \in Installers, Fresh(i) PROVE Settled'
  BY <1>19 DEF Fresh, CanRename, Rename
<1>20. ASSUME NEW i \in Installers, Cleanup(i) PROVE Settled'
  BY <1>20 DEF Cleanup
<1>21. ASSUME NEW i \in Installers, ExtractAlien(i) PROVE Settled'
  BY <1>21 DEF ExtractAlien
<1>22. ASSUME NEW i \in Installers, Rejected(i) PROVE Settled'
  BY <1>22 DEF Rejected
<1>23. ASSUME NEW i \in Installers, Fails(i) PROVE Settled'
  BY <1>23 DEF Fails
<1>24. ASSUME NEW i \in Installers, Crash(i) PROVE Settled'
  BY <1>24 DEF Crash
<1>25. ASSUME NEW i \in Installers, NEW m \in Manifests, Fetch(i, m) PROVE Settled'
  BY <1>25 DEF Fetch
<1>26. CASE CalmDown
  BY <1>26 DEF CalmDown
<1>27. CASE UNCHANGED vars
  BY <1>27 DEF vars
<1> QED
  BY <1>1, <1>2, <1>3, <1>4, <1>5, <1>6, <1>7, <1>8, <1>9, <1>10, <1>11, <1>12, <1>13, <1>14, <1>15, <1>16, <1>17, <1>18, <1>19, <1>20, <1>21, <1>22, <1>23, <1>24, <1>25, <1>26, <1>27
     DEF Next, Run, Verify, Prepare, Replace

-----------------------------------------------------------------------------
LEMMA Holds == Spec => []IInv
<1>1. Init => IInv
  <2> SUFFICES ASSUME Init PROVE IInv
    OBVIOUS
  <2>1. PICK there \in {Whole, Theirs} : files = [n \in Names |-> IF n \in dirs THEN there ELSE {}]
    BY DEF Init
  <2>2. /\ dirs \in {{}, {"dest"}} /\ overlap = FALSE /\ fault = FALSE /\ calm = FALSE
        /\ \A i \in Installers : pc[i] = "idle" /\ manifest[i] = "none" /\ hand[i] = "nothing"
        /\ pc \in [Installers -> {"idle"}] /\ manifest \in [Installers -> {"none"}]
        /\ hand \in [Installers -> {"nothing"}]
    BY DEF Init
  <2>3. there \subseteq Files /\ "theirs" \notin Whole
    BY InstallAssumption DEF Whole, Theirs, Files
  <2>4. \A i \in Installers : i \notin dirs
    BY <2>2, InstallAssumption
  <2>5. files \in [Names -> SUBSET Files] /\ \A n \in Names \ dirs : files[n] = {}
    BY <2>1, <2>3
  <2>6. "dest" \in Names /\ "backup" \in Names
    BY DEF Names
  <2>7. TypeOK
    BY <2>2, <2>4, <2>5, <2>6 DEF TypeOK, Steps
  <2>8. Sound
    BY <2>1, <2>2, <2>6 DEF Sound
  <2>9. Alone /\ Verified /\ Prepared /\ HandsClosed
    BY <2>2 DEF Alone, Verified, Prepared, HandsClosed, Replacing
  <2>10. Settled
    BY <2>2, <2>8 DEF Settled, Placed
  <2> QED
    BY <2>7, <2>9, <2>10 DEF IInv
<1>2. IInv /\ [Next]_vars => IInv'
  BY TypeStep, AloneStep, VerifiedStep, PreparedStep, HandsClosedStep, SettledStep DEF IInv
<1> QED
  BY <1>1, <1>2, PTL DEF Spec

\* A run that is over, by whatever way but its death, has no staging directory.
THEOREM TypesHold == Spec => []TypeOK
<1>1. IInv => TypeOK
  BY DEF IInv
<1> QED
  BY <1>1, Holds, PTL

\* Wherever a run fails or dies, the destination holds a whole installation that
\* was signed for this version, or what somebody else put there, or nothing.
THEOREM NeverInPart == Spec => []OnlyWhole
<1>1. IInv => OnlyWhole
  BY DEF IInv, Settled, Placed, OnlyWhole, TypeOK
<1> QED
  BY <1>1, Holds, PTL

-----------------------------------------------------------------------------
LEMMA OverlapStays == overlap /\ [Next]_vars => overlap'
<1> SUFFICES ASSUME overlap, [Next]_vars PROVE overlap'
  OBVIOUS
<1> USE DEF hist
<1>1. ASSUME NEW i \in Installers, Start(i) PROVE overlap'
  BY <1>1 DEF Start
<1>2. ASSUME NEW i \in Installers, VerifySignature(i) PROVE overlap'
  BY <1>2 DEF VerifySignature, Signed
<1>3. ASSUME NEW i \in Installers, ValidateManifest(i) PROVE overlap'
  BY <1>3 DEF ValidateManifest, Matches
<1>4. ASSUME NEW i \in Installers, VerifyArchive(i) PROVE overlap'
  BY <1>4 DEF VerifyArchive
<1>5. ASSUME NEW i \in Installers, Stage(i) PROVE overlap'
  BY <1>5 DEF Stage
<1>6. ASSUME NEW i \in Installers, Extract(i) PROVE overlap'
  BY <1>6 DEF Extract
<1>7. ASSUME NEW i \in Installers, ExtractEnds(i) PROVE overlap'
  BY <1>7 DEF ExtractEnds
<1>8. ASSUME NEW i \in Installers, VerifyInstalledShape(i) PROVE overlap'
  BY <1>8 DEF VerifyInstalledShape
<1>9. ASSUME NEW i \in Installers, WritePkgConfig(i) PROVE overlap'
  BY <1>9 DEF WritePkgConfig
<1>10. ASSUME NEW i \in Installers, WriteMarker(i) PROVE overlap'
  BY <1>10 DEF WriteMarker
<1>11. ASSUME NEW i \in Installers, Stat(i) PROVE overlap'
  BY <1>11 DEF Stat
<1>12. ASSUME NEW i \in Installers, Owned(i) PROVE overlap'
  BY <1>12 DEF Owned
<1>13. ASSUME NEW i \in Installers, Open(i) PROVE overlap'
  BY <1>13 DEF Open, Removal
<1>14. ASSUME NEW i \in Installers, Unlink(i) PROVE overlap'
  BY <1>14 DEF Unlink
<1>15. ASSUME NEW i \in Installers, Rmdir(i) PROVE overlap'
  BY <1>15 DEF Rmdir
<1>16. ASSUME NEW i \in Installers, Aside(i) PROVE overlap'
  BY <1>16 DEF Aside, CanRename, Rename
<1>17. ASSUME NEW i \in Installers, Swap(i) PROVE overlap'
  BY <1>17 DEF Swap, CanRename, Rename
<1>18. ASSUME NEW i \in Installers, Restore(i) PROVE overlap'
  BY <1>18 DEF Restore, CanRename, Rename
<1>19. ASSUME NEW i \in Installers, Fresh(i) PROVE overlap'
  BY <1>19 DEF Fresh, CanRename, Rename
<1>20. ASSUME NEW i \in Installers, Cleanup(i) PROVE overlap'
  BY <1>20 DEF Cleanup
<1>21. ASSUME NEW i \in Installers, ExtractAlien(i) PROVE overlap'
  BY <1>21 DEF ExtractAlien
<1>22. ASSUME NEW i \in Installers, Rejected(i) PROVE overlap'
  BY <1>22 DEF Rejected
<1>23. ASSUME NEW i \in Installers, Fails(i) PROVE overlap'
  BY <1>23 DEF Fails
<1>24. ASSUME NEW i \in Installers, Crash(i) PROVE overlap'
  BY <1>24 DEF Crash
<1>25. ASSUME NEW i \in Installers, NEW m \in Manifests, Fetch(i, m) PROVE overlap'
  BY <1>25 DEF Fetch
<1>26. CASE CalmDown
  BY <1>26 DEF CalmDown
<1>27. CASE UNCHANGED vars
  BY <1>27 DEF vars
<1> QED
  BY <1>1, <1>2, <1>3, <1>4, <1>5, <1>6, <1>7, <1>8, <1>9, <1>10, <1>11, <1>12, <1>13, <1>14, <1>15, <1>16, <1>17, <1>18, <1>19, <1>20, <1>21, <1>22, <1>23, <1>24, <1>25, <1>26, <1>27
     DEF Next, Run, Verify, Prepare, Replace

LEMMA KeptStep == IInv /\ Installed /\ [Next]_vars /\ ~overlap' => Installed'
<1> SUFFICES ASSUME IInv, Whole \in {files["dest"], files["backup"]}, ~overlap, ~overlap', [Next]_vars
             PROVE  Installed'
  BY OverlapStays DEF Installed
<1> USE InstallAssumption DEF IInv, TypeOK, Prepared, Settled, Placed, HandsClosed, Installed, run, disk, hist, Goto, Names, Whole
<1>1. ASSUME NEW i \in Installers, Start(i) PROVE Installed'
  BY <1>1 DEF Start
<1>2. ASSUME NEW i \in Installers, VerifySignature(i) PROVE Installed'
  BY <1>2 DEF VerifySignature, Signed
<1>3. ASSUME NEW i \in Installers, ValidateManifest(i) PROVE Installed'
  BY <1>3 DEF ValidateManifest, Matches
<1>4. ASSUME NEW i \in Installers, VerifyArchive(i) PROVE Installed'
  BY <1>4 DEF VerifyArchive
<1>5. ASSUME NEW i \in Installers, Stage(i) PROVE Installed'
  BY <1>5 DEF Stage
<1>6. ASSUME NEW i \in Installers, Extract(i) PROVE Installed'
  BY <1>6 DEF Extract
<1>7. ASSUME NEW i \in Installers, ExtractEnds(i) PROVE Installed'
  BY <1>7 DEF ExtractEnds
<1>8. ASSUME NEW i \in Installers, VerifyInstalledShape(i) PROVE Installed'
  BY <1>8 DEF VerifyInstalledShape
<1>9. ASSUME NEW i \in Installers, WritePkgConfig(i) PROVE Installed'
  BY <1>9 DEF WritePkgConfig
<1>10. ASSUME NEW i \in Installers, WriteMarker(i) PROVE Installed'
  BY <1>10 DEF WriteMarker
<1>11. ASSUME NEW i \in Installers, Stat(i) PROVE Installed'
  BY <1>11 DEF Stat
<1>12. ASSUME NEW i \in Installers, Owned(i) PROVE Installed'
  BY <1>12 DEF Owned
<1>13. ASSUME NEW i \in Installers, Open(i) PROVE Installed'
  BY <1>13 DEF Open, Removal
<1>14. ASSUME NEW i \in Installers, Unlink(i) PROVE Installed'
  BY <1>14 DEF Unlink
<1>15. ASSUME NEW i \in Installers, Rmdir(i) PROVE Installed'
  BY <1>15 DEF Rmdir
<1>16. ASSUME NEW i \in Installers, Aside(i) PROVE Installed'
  BY <1>16 DEF Aside, CanRename, Rename
<1>17. ASSUME NEW i \in Installers, Swap(i) PROVE Installed'
  BY <1>17 DEF Swap, CanRename, Rename
<1>18. ASSUME NEW i \in Installers, Restore(i) PROVE Installed'
  BY <1>18 DEF Restore, CanRename, Rename
<1>19. ASSUME NEW i \in Installers, Fresh(i) PROVE Installed'
  BY <1>19 DEF Fresh, CanRename, Rename
<1>20. ASSUME NEW i \in Installers, Cleanup(i) PROVE Installed'
  BY <1>20 DEF Cleanup
<1>21. ASSUME NEW i \in Installers, ExtractAlien(i) PROVE Installed'
  BY <1>21 DEF ExtractAlien
<1>22. ASSUME NEW i \in Installers, Rejected(i) PROVE Installed'
  BY <1>22 DEF Rejected
<1>23. ASSUME NEW i \in Installers, Fails(i) PROVE Installed'
  BY <1>23 DEF Fails
<1>24. ASSUME NEW i \in Installers, Crash(i) PROVE Installed'
  BY <1>24 DEF Crash
<1>25. ASSUME NEW i \in Installers, NEW m \in Manifests, Fetch(i, m) PROVE Installed'
  BY <1>25 DEF Fetch
<1>26. CASE CalmDown
  BY <1>26 DEF CalmDown
<1>27. CASE UNCHANGED vars
  BY <1>27 DEF vars
<1> QED
  BY <1>1, <1>2, <1>3, <1>4, <1>5, <1>6, <1>7, <1>8, <1>9, <1>10, <1>11, <1>12, <1>13, <1>14, <1>15, <1>16, <1>17, <1>18, <1>19, <1>20, <1>21, <1>22, <1>23, <1>24, <1>25, <1>26, <1>27
     DEF Next, Run, Verify, Prepare, Replace

\* Runs that do not overlap never lose an installation.
THEOREM KeptWhenAlone == Spec => [][Installed /\ ~overlap' => Installed']_vars
<1>1. IInv /\ [Next]_vars => [Installed /\ ~overlap' => Installed']_vars
  BY KeptStep
<1> QED
  BY <1>1, Holds, PTL DEF Spec

-----------------------------------------------------------------------------
(* Two runs at once *)

\* There are two runs at most that know nothing of each other.
AtMostTwo == \A i, j, k \in Installers : i = j \/ j = k \/ i = k

There       == "dest" \in dirs /\ files["dest"] = Whole
Swapping(i) == "dest" \notin dirs /\ \E j \in Installers \ {i} : pc[j] = "swap"

\* What each run of two may rely on, as long as neither dies nor fails in the
\* replacement: from the marker on, the installation is at the destination or the
\* other run has moved it aside and is about to put its own there.  A run that finds
\* the destination taken leaves the other's there; when it comes to put the backup
\* back although the other run has moved that one aside in turn, the backup is whole.
\* No RemoveAll has the destination open.
Paired ==
    ~fault =>
        /\ Sound
        /\ \A i \in Installers :
              /\ pc[i] \in {"clear", "clearing", "aside", "purge", "purging"} => There \/ Swapping(i)
              /\ pc[i] = "swap" /\ "dest" \in dirs => There /\ \A j \in Installers \ {i} : pc[j] # "swap"
              /\ pc[i] = "restore" =>
                    \/ There /\ \A j \in Installers : pc[j] # "swap"
                    \/ Swapping(i) /\ files["backup"] = Whole
              /\ hand[i] # "dest"

LEMMA FaultStays == fault /\ [Next]_vars => fault'
<1> SUFFICES ASSUME fault, [Next]_vars PROVE fault'
  OBVIOUS
<1> USE DEF hist
<1>1. ASSUME NEW i \in Installers, Start(i) PROVE fault'
  BY <1>1 DEF Start
<1>2. ASSUME NEW i \in Installers, VerifySignature(i) PROVE fault'
  BY <1>2 DEF VerifySignature, Signed
<1>3. ASSUME NEW i \in Installers, ValidateManifest(i) PROVE fault'
  BY <1>3 DEF ValidateManifest, Matches
<1>4. ASSUME NEW i \in Installers, VerifyArchive(i) PROVE fault'
  BY <1>4 DEF VerifyArchive
<1>5. ASSUME NEW i \in Installers, Stage(i) PROVE fault'
  BY <1>5 DEF Stage
<1>6. ASSUME NEW i \in Installers, Extract(i) PROVE fault'
  BY <1>6 DEF Extract
<1>7. ASSUME NEW i \in Installers, ExtractEnds(i) PROVE fault'
  BY <1>7 DEF ExtractEnds
<1>8. ASSUME NEW i \in Installers, VerifyInstalledShape(i) PROVE fault'
  BY <1>8 DEF VerifyInstalledShape
<1>9. ASSUME NEW i \in Installers, WritePkgConfig(i) PROVE fault'
  BY <1>9 DEF WritePkgConfig
<1>10. ASSUME NEW i \in Installers, WriteMarker(i) PROVE fault'
  BY <1>10 DEF WriteMarker
<1>11. ASSUME NEW i \in Installers, Stat(i) PROVE fault'
  BY <1>11 DEF Stat
<1>12. ASSUME NEW i \in Installers, Owned(i) PROVE fault'
  BY <1>12 DEF Owned
<1>13. ASSUME NEW i \in Installers, Open(i) PROVE fault'
  BY <1>13 DEF Open, Removal
<1>14. ASSUME NEW i \in Installers, Unlink(i) PROVE fault'
  BY <1>14 DEF Unlink
<1>15. ASSUME NEW i \in Installers, Rmdir(i) PROVE fault'
  BY <1>15 DEF Rmdir
<1>16. ASSUME NEW i \in Installers, Aside(i) PROVE fault'
  BY <1>16 DEF Aside, CanRename, Rename
<1>17. ASSUME NEW i \in Installers, Swap(i) PROVE fault'
  BY <1>17 DEF Swap, CanRename, Rename
<1>18. ASSUME NEW i \in Installers, Restore(i) PROVE fault'
  BY <1>18 DEF Restore, CanRename, Rename
<1>19. ASSUME NEW i \in Installers, Fresh(i) PROVE fault'
  BY <1>19 DEF Fresh, CanRename, Rename
<1>20. ASSUME NEW i \in Installers, Cleanup(i) PROVE fault'
  BY <1>20 DEF Cleanup
<1>21. ASSUME NEW i \in Installers, ExtractAlien(i) PROVE fault'
  BY <1>21 DEF ExtractAlien
<1>22. ASSUME NEW i \in Installers, Rejected(i) PROVE fault'
  BY <1>22 DEF Rejected
<1>23. ASSUME NEW i \in Installers, Fails(i) PROVE fault'
  BY <1>23 DEF Fails
<1>24. ASSUME NEW i \in Installers, Crash(i) PROVE fault'
  BY <1>24 DEF Crash
<1>25. ASSUME NEW i \in Installers, NEW m \in Manifests, Fetch(i, m) PROVE fault'
  BY <1>25 DEF Fetch
<1>26. CASE CalmDown
  BY <1>26 DEF CalmDown
<1>27. CASE UNCHANGED vars
  BY <1>27 DEF vars
<1> QED
  BY <1>1, <1>2, <1>3, <1>4, <1>5, <1>6, <1>7, <1>8, <1>9, <1>10, <1>11, <1>12, <1>13, <1>14, <1>15, <1>16, <1>17, <1>18, <1>19, <1>20, <1>21, <1>22, <1>23, <1>24, <1>25, <1>26, <1>27
     DEF Next, Run, Verify, Prepare, Replace

LEMMA PairedStep ==
    ASSUME AtMostTwo
    PROVE  TypeOK /\ Prepared /\ HandsClosed /\ Paired /\ [Next]_vars => Paired'
<1> SUFFICES ASSUME TypeOK, Prepared, HandsClosed, Paired, ~fault, [Next]_vars PROVE Paired'
  BY FaultStays DEF Paired
<1> USE InstallAssumption DEF AtMostTwo, TypeOK, Prepared, HandsClosed, Paired, There, Swapping, Sound, Replacing, Whole, Theirs, Files, Names, run, disk, hist, Goto
<1>1. ASSUME NEW i \in Installers, Start(i) PROVE Paired'
  BY <1>1 DEF Start
<1>2. ASSUME NEW i \in Installers, VerifySignature(i) PROVE Paired'
  BY <1>2 DEF VerifySignature, Signed
<1>3. ASSUME NEW i \in Installers, ValidateManifest(i) PROVE Paired'
  BY <1>3 DEF ValidateManifest, Matches
<1>4. ASSUME NEW i \in Installers, VerifyArchive(i) PROVE Paired'
  BY <1>4 DEF VerifyArchive
<1>5. ASSUME NEW i \in Installers, Stage(i) PROVE Paired'
  BY <1>5 DEF Stage
<1>6. ASSUME NEW i \in Installers, Extract(i) PROVE Paired'
  BY <1>6 DEF Extract
<1>7. ASSUME NEW i \in Installers, ExtractEnds(i) PROVE Paired'
  BY <1>7 DEF ExtractEnds
<1>8. ASSUME NEW i \in Installers, VerifyInstalledShape(i) PROVE Paired'
  BY <1>8 DEF VerifyInstalledShape
<1>9. ASSUME NEW i \in Installers, WritePkgConfig(i) PROVE Paired'
  BY <1>9 DEF WritePkgConfig
<1>10. ASSUME NEW i \in Installers, WriteMarker(i) PROVE Paired'
  BY <1>10 DEF WriteMarker
<1>11. ASSUME NEW i \in Installers, Stat(i) PROVE Paired'
  BY <1>11 DEF Stat
<1>12. ASSUME NEW i \in Installers, Owned(i) PROVE Paired'
  BY <1>12 DEF Owned
<1>13. ASSUME NEW i \in Installers, Open(i) PROVE Paired'
  BY <1>13 DEF Open, Removal
<1>14. ASSUME NEW i \in Installers, Unlink(i) PROVE Paired'
  BY <1>14 DEF Unlink
<1>15. ASSUME NEW i \in Installers, Rmdir(i) PROVE Paired'
  BY <1>15 DEF Rmdir
<1>16. ASSUME NEW i \in Installers, Aside(i) PROVE Paired'
  BY <1>16 DEF Aside, CanRename, Rename
<1>17. ASSUME NEW i \in Installers, Swap(i) PROVE Paired'
  BY <1>17 DEF Swap, CanRename, Rename
<1>18. ASSUME NEW i \in Installers, Restore(i) PROVE Paired'
  BY <1>18 DEF Restore, CanRename, Rename
<1>19. ASSUME NEW i \in Installers, Fresh(i) PROVE Paired'
  BY <1>19 DEF Fresh, CanRename, Rename
<1>20. ASSUME NEW i \in Installers, Cleanup(i) PROVE Paired'
  BY <1>20 DEF Cleanup
<1>21. ASSUME NEW i \in Installers, ExtractAlien(i) PROVE Paired'
  BY <1>21 DEF ExtractAlien
<1>22. ASSUME NEW i \in Installers, Rejected(i) PROVE Paired'
  BY <1>22 DEF Rejected
<1>23. ASSUME NEW i \in Installers, Fails(i) PROVE Paired'
  BY <1>23 DEF Fails
<1>24. ASSUME NEW i \in Installers, Crash(i) PROVE Paired'
  <2>1. CASE pc[i] \in Replacing
    <3>1. fault'
      BY <1>24, <2>1 DEF Crash
    <3> QED
      BY <3>1
  <2>2. CASE pc[i] \notin Replacing
    <3>1. pc' = [pc EXCEPT ![i] = "idle"] /\ dirs' = dirs \ {i} /\ files' = [files EXCEPT ![i] = {}]
          /\ hand' = [hand EXCEPT ![i] = "nothing"]
      BY <1>24 DEF Crash
    <3>2. /\ "dest" \in dirs' <=> "dest" \in dirs
          /\ files'["dest"] = files["dest"] /\ files'["backup"] = files["backup"]
      BY <3>1
    <3>3. There' <=> There
      BY <3>2
    <3>4. \A j \in Installers : pc'[j] = "swap" <=> pc[j] = "swap"
      BY <3>1, <2>2
    <3>5. \A j \in Installers : Swapping(j)' <=> Swapping(j)
      BY <3>2, <3>4
    <3>6. \A j \in Installers : (pc'[j] = "idle" \/ pc'[j] = pc[j]) /\ (hand'[j] = "nothing" \/ hand'[j] = hand[j])
      BY <3>1
    <3> QED
      BY <3>2, <3>3, <3>4, <3>5, <3>6
  <2> QED
    BY <2>1, <2>2
<1>25. ASSUME NEW i \in Installers, NEW m \in Manifests, Fetch(i, m) PROVE Paired'
  BY <1>25 DEF Fetch
<1>26. CASE CalmDown
  BY <1>26 DEF CalmDown
<1>27. CASE UNCHANGED vars
  BY <1>27 DEF vars
<1> QED
  BY <1>1, <1>2, <1>3, <1>4, <1>5, <1>6, <1>7, <1>8, <1>9, <1>10, <1>11, <1>12, <1>13, <1>14, <1>15, <1>16, <1>17, <1>18, <1>19, <1>20, <1>21, <1>22, <1>23, <1>24, <1>25, <1>26, <1>27
     DEF Next, Run, Verify, Prepare, Replace

LEMMA KeptInPair == IInv /\ Paired /\ Installed /\ ~fault' /\ [Next]_vars => Installed'
<1> SUFFICES ASSUME IInv, Paired, Installed, ~fault, ~fault', [Next]_vars PROVE Installed'
  BY FaultStays
<1> USE InstallAssumption DEF IInv, TypeOK, Alone, Prepared, HandsClosed, Settled, Placed, Paired, There, Swapping, Sound, Installed, Replacing, run, disk, hist, Goto, Names, Whole
<1>1. ASSUME NEW i \in Installers, Start(i) PROVE Installed'
  BY <1>1 DEF Start
<1>2. ASSUME NEW i \in Installers, VerifySignature(i) PROVE Installed'
  BY <1>2 DEF VerifySignature, Signed
<1>3. ASSUME NEW i \in Installers, ValidateManifest(i) PROVE Installed'
  BY <1>3 DEF ValidateManifest, Matches
<1>4. ASSUME NEW i \in Installers, VerifyArchive(i) PROVE Installed'
  BY <1>4 DEF VerifyArchive
<1>5. ASSUME NEW i \in Installers, Stage(i) PROVE Installed'
  BY <1>5 DEF Stage
<1>6. ASSUME NEW i \in Installers, Extract(i) PROVE Installed'
  BY <1>6 DEF Extract
<1>7. ASSUME NEW i \in Installers, ExtractEnds(i) PROVE Installed'
  BY <1>7 DEF ExtractEnds
<1>8. ASSUME NEW i \in Installers, VerifyInstalledShape(i) PROVE Installed'
  BY <1>8 DEF VerifyInstalledShape
<1>9. ASSUME NEW i \in Installers, WritePkgConfig(i) PROVE Installed'
  BY <1>9 DEF WritePkgConfig
<1>10. ASSUME NEW i \in Installers, WriteMarker(i) PROVE Installed'
  BY <1>10 DEF WriteMarker
<1>11. ASSUME NEW i \in Installers, Stat(i) PROVE Installed'
  BY <1>11 DEF Stat
<1>12. ASSUME NEW i \in Installers, Owned(i) PROVE Installed'
  BY <1>12 DEF Owned
<1>13. ASSUME NEW i \in Installers, Open(i) PROVE Installed'
  BY <1>13 DEF Open, Removal
<1>14. ASSUME NEW i \in Installers, Unlink(i) PROVE Installed'
  BY <1>14 DEF Unlink
<1>15. ASSUME NEW i \in Installers, Rmdir(i) PROVE Installed'
  BY <1>15 DEF Rmdir
<1>16. ASSUME NEW i \in Installers, Aside(i) PROVE Installed'
  BY <1>16 DEF Aside, CanRename, Rename
<1>17. ASSUME NEW i \in Installers, Swap(i) PROVE Installed'
  BY <1>17 DEF Swap, CanRename, Rename
<1>18. ASSUME NEW i \in Installers, Restore(i) PROVE Installed'
  BY <1>18 DEF Restore, CanRename, Rename
<1>19. ASSUME NEW i \in Installers, Fresh(i) PROVE Installed'
  BY <1>19 DEF Fresh, CanRename, Rename
<1>20. ASSUME NEW i \in Installers, Cleanup(i) PROVE Installed'
  BY <1>20 DEF Cleanup
<1>21. ASSUME NEW i \in Installers, ExtractAlien(i) PROVE Installed'
  BY <1>21 DEF ExtractAlien
<1>22. ASSUME NEW i \in Installers, Rejected(i) PROVE Installed'
  BY <1>22 DEF Rejected
<1>23. ASSUME NEW i \in Installers, Fails(i) PROVE Installed'
  BY <1>23 DEF Fails
<1>24. ASSUME NEW i \in Installers, Crash(i) PROVE Installed'
  BY <1>24 DEF Crash
<1>25. ASSUME NEW i \in Installers, NEW m \in Manifests, Fetch(i, m) PROVE Installed'
  BY <1>25 DEF Fetch
<1>26. CASE CalmDown
  BY <1>26 DEF CalmDown
<1>27. CASE UNCHANGED vars
  BY <1>27 DEF vars
<1> QED
  BY <1>1, <1>2, <1>3, <1>4, <1>5, <1>6, <1>7, <1>8, <1>9, <1>10, <1>11, <1>12, <1>13, <1>14, <1>15, <1>16, <1>17, <1>18, <1>19, <1>20, <1>21, <1>22, <1>23, <1>24, <1>25, <1>26, <1>27
     DEF Next, Run, Verify, Prepare, Replace

\* Two runs for the same version, in whatever order their steps come, never lose an
\* installation or leave a part of one, unless one of them dies or fails in the
\* replacement.
THEOREM TwoLoseNothing == ASSUME AtMostTwo PROVE Spec => NothingLost
<1>1. Spec => []Paired
  <2>1. Init => Paired
    <3> SUFFICES ASSUME Init PROVE Paired
      OBVIOUS
    <3>1. Sound
      BY InstallAssumption DEF Init, Sound, Names, Whole, Theirs
    <3> QED
      BY <3>1 DEF Init, Paired
  <2>2. IInv /\ Paired /\ [Next]_vars => Paired'
    BY PairedStep DEF IInv
  <2> QED
    BY <2>1, <2>2, Holds, PTL DEF Spec
<1>2. IInv /\ IInv' /\ Paired /\ Paired' /\ [Next]_vars
        => [Installed /\ Sound => (Installed /\ Sound)' \/ (overlap' /\ fault')]_vars
  <2> SUFFICES ASSUME IInv, IInv', Paired, Paired', [Next]_vars, Installed, Sound, ~(overlap' /\ fault')
               PROVE  (Installed /\ Sound)'
    OBVIOUS
  <2>1. CASE ~overlap'
    BY <2>1, KeptStep DEF IInv, Settled, Placed
  <2>2. CASE ~fault'
    BY <2>2, KeptInPair DEF Paired
  <2> QED
    BY <2>1, <2>2
<1> QED
  BY <1>1, <1>2, Holds, PTL DEF Spec, NothingLost
=============================================================================
