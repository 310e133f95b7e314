------------------------ MODULE CompleteBuildProofs ------------------------
(***************************************************************************)
(* Proofs about CompleteBuild for every set of checkouts, ABIs and         *)
(* defects and any number of runs.                                         *)
(***************************************************************************)
EXTENDS CompleteBuild, TLAPS

(* A check that found an error does not go on, one that found none does.   *)
LEMMA NoErrorMeansNot ==
  ASSUME NEW wrong, NEW error, ErrorIf(wrong, error) = {}
  PROVE  ~ wrong
  BY DEF ErrorIf

----------------------------------------------------------------------------
(* The pinned Bazel *)

(* Only the comparison of the hash leads past that stage, and nobody       *)
(* changes the cached binary while a run goes on.                          *)
LEMMA PinnedStep == OnlyPinnedBazelRuns /\ [Next]_vars => OnlyPinnedBazelRuns'
<1> SUFFICES ASSUME OnlyPinnedBazelRuns, [Next]_vars
             PROVE  OnlyPinnedBazelRuns'
  OBVIOUS
<1> USE DEF OnlyPinnedBazelRuns, Goto, Raise, CheckThen
<1>1. CASE Stop \/ Start \/ Guards \/ VerifySourceLock \/ DownloadBazel \/ UseCachedBazel
  BY <1>1 DEF Stop, Start, Guards, VerifySourceLock, DownloadBazel, UseCachedBazel, disk
<1>2. CASE CheckBazel
  BY <1>2, NoErrorMeansNot DEF CheckBazel, disk
<1>3. CASE MoveRepo \/ EditComponent \/ RestoreComponent \/ FetchSource \/ ResolvePatches
           \/ CheckPatches
  BY <1>3 DEF MoveRepo, EditComponent, RestoreComponent, SetBytes, FetchSource, ResolvePatches, CheckPatches, disk
<1>4. CASE RemoveByHand
  BY <1>4 DEF RemoveByHand, disk
<1>5. CASE ApplyPatches \/ BuildApi \/ VerifyContract
  BY <1>5 DEF ApplyPatches, ApplySeries, BuildApi, VerifyContract, disk
<1>6. CASE BuildNative
  BY <1>6 DEF BuildNative, BuildLibrary
<1>7. CASE NextTargets \/ ValidateNative \/ CollectLicences \/ WriteManifest
  BY <1>7 DEF NextTargets, ValidateNative, CollectLicences, WriteManifest, disk
<1>8. CASE WriteProvenance \/ PackageAar \/ AuditReleaseInputs
  BY <1>8 DEF WriteProvenance, PackageAar, AuditReleaseInputs, Audit, disk
<1>9. CASE UNCHANGED vars
  BY <1>9 DEF vars, disk
<1>. QED
  BY <1>1, <1>2, <1>3, <1>4, <1>5, <1>6, <1>7, <1>8, <1>9 DEF Next

(* No file that is not the pinned Bazel is ever run, whatever earlier      *)
(* downloads left in the cache (build-complete-runtime.sh:79-90).          *)
THEOREM PinnedBazel == Spec => []OnlyPinnedBazelRuns
<1>1. Init => OnlyPinnedBazelRuns
  BY DEF Init, OnlyPinnedBazelRuns
<1>. QED
  BY <1>1, PinnedStep, PTL DEF Spec

----------------------------------------------------------------------------
(* The source tree and the directories of a run.  A run writes only after  *)
(* its guards found no tree and an empty dist, and nobody takes anything   *)
(* away before it ends: so each directory has one writer, the run.         *)

Early == {"bazel", "sha256", "fetch"}
Late == {"resolve", "check", "apply", "api", "contract", "build", "accelerators", "validate",
         "licences", "manifest", "provenance", "package", "audit"}

IsTree == tree = [commit |-> tree.commit, series |-> tree.series, binaries |-> tree.binaries]
IsDist ==
  dist = [made |-> dist.made, graph |-> dist.graph, components |-> dist.components,
          manifest |-> dist.manifest, provenance |-> dist.provenance, aar |-> dist.aar,
          reports |-> dist.reports]
IsWriters == writers = [tree |-> writers.tree, dist |-> writers.dist]
Shapes == IsTree /\ IsDist /\ IsWriters

(* An edit changes bytes of components or of the AAR, and is remembered.   *)
LEMMA EditStep ==
  ASSUME IsDist, EditComponent \/ RestoreComponent
  PROVE  /\ IsDist' /\ dist'.made = dist.made /\ dist'.manifest = dist.manifest
         /\ dist'.components = dist.components \/ dist.components # <<>>
         /\ pc # "idle"
         /\ UNCHANGED <<repo, bazel, tree, externals, run, pc, todo, outcome, runs, moves, early,
                        writers>>
         /\ edited' = edited \cup {IF dist.manifest = NoManifest THEN "before" ELSE "after"}
<1>1. PICK changed \in BOOLEAN : SetBytes(changed)
  BY DEF EditComponent, RestoreComponent
<1>2. CASE \E n \in DOMAIN dist.components :
             dist' = [dist EXCEPT !.components[n] = WithEdit(n, @, changed)]
  <2>1. dist.components # <<>>
    BY <1>2
  <2>. QED
    BY <1>1, <1>2, <2>1 DEF SetBytes, IsDist
<1>3. CASE \E n \in DOMAIN dist.aar : dist' = [dist EXCEPT !.aar[n] = WithEdit(n, @, changed)]
  BY <1>1, <1>3 DEF SetBytes, IsDist
<1>. QED
  BY <1>1, <1>2, <1>3 DEF SetBytes

Unwritten ==
  /\ tree = NoTree => writers.tree = {}
  /\ ~ dist.made => writers.dist = {}

Written ==
  /\ pc \in Early => tree = NoTree /\ dist.made /\ writers.dist = {runs}
  /\ pc \in Late => /\ tree.binaries # "none" /\ dist.made
                    /\ writers.tree = {runs} /\ writers.dist = {runs}

Commits == {r.env : r \in Repositories}
Fitted ==
  /\ repo \in Repositories
  /\ pc # "idle" => run.env \in Commits
  /\ pc \in Late => tree.commit = run.env

DirectoryInv ==
  Shapes /\ Unwritten /\ Written /\ Fitted /\ NoInexactTreeIsBuilt /\ OneRunPerDirectory

LEMMA DirectoryInit == Init => DirectoryInv
  BY DEF Init, DirectoryInv, Shapes, IsTree, IsDist, IsWriters, Unwritten, Written, Fitted,
         NoInexactTreeIsBuilt, OneRunPerDirectory, NoTree, EmptyDist, Early, Late

(* Each step of a run writes where only this run has written.              *)
LEMMA DirectoryStep == DirectoryInv /\ [Next]_vars => DirectoryInv'
<1> SUFFICES ASSUME DirectoryInv, [Next]_vars
             PROVE  DirectoryInv'
  OBVIOUS
<1> USE DEF DirectoryInv, Shapes, IsTree, IsDist, IsWriters, Unwritten, Written, Fitted,
            NoInexactTreeIsBuilt, OneRunPerDirectory, Early, Late, Goto, Raise, CheckThen
<1>1. CASE Stop \/ VerifySourceLock \/ CheckBazel \/ UseCachedBazel \/ UNCHANGED vars
  BY <1>1 DEF Stop, VerifySourceLock, CheckBazel, UseCachedBazel, vars, disk, counters, FitOf
<1>2. CASE DownloadBazel
  BY <1>2 DEF DownloadBazel, FitOf
<1>3. CASE MoveRepo
  BY <1>3 DEF MoveRepo, disk, FitOf
<1>4. CASE EditComponent \/ RestoreComponent
  BY <1>4, EditStep DEF FitOf
<1>5. CASE RemoveByHand
  BY <1>5 DEF RemoveByHand, NoTree, EmptyDist, counters
<1>6. CASE Start
  BY <1>6 DEF Start, disk, Commits, FitOf
<1>7. CASE Guards
  BY <1>7, NoErrorMeansNot DEF Guards, MakeDist, WriteDist, ErrorIf, counters
<1>8. CASE FetchSource
  BY <1>8, SMTT(30) DEF FetchSource, WriteTree, NoTree, EmptyTree
<1>9. CASE ResolvePatches \/ CheckPatches
  BY <1>9 DEF ResolvePatches, CheckPatches, disk, counters, FitOf
<1>10. CASE ApplyPatches
  BY <1>10, FitAssumption DEF ApplyPatches, ApplySeries, FitOf, ErrorIf, Commits, counters, NoTree
<1>11. CASE BuildApi
  BY <1>11 DEF BuildApi, Graph, WriteDist, FitOf
<1>12. CASE VerifyContract
  BY <1>12 DEF VerifyContract, disk, counters, FitOf
<1>13. CASE BuildNative
  BY <1>13 DEF BuildNative, BuildLibrary, Graph, WriteDist, FitOf
<1>14. CASE NextTargets
  BY <1>14 DEF NextTargets, disk, counters, FitOf
<1>15. CASE ValidateNative
  BY <1>15 DEF ValidateNative, Report, WriteDist, counters, FitOf
<1>16. CASE CollectLicences
  BY <1>16 DEF CollectLicences, AddComponents, WriteDist, counters, FitOf
<1>17. CASE WriteManifest
  BY <1>17 DEF WriteManifest, WriteDist, counters, FitOf
<1>18. CASE WriteProvenance
  BY <1>18 DEF WriteProvenance, WriteDist, counters, FitOf
<1>19. CASE PackageAar
  BY <1>19 DEF PackageAar, WriteDist, counters, FitOf
<1>20. CASE AuditReleaseInputs
  BY <1>20 DEF AuditReleaseInputs, Audit, Report, WriteDist, counters, FitOf
<1>. QED
  BY <1>1, <1>2, <1>3, <1>4, <1>5, <1>6, <1>7, <1>8, <1>9, <1>10, <1>11, <1>12, <1>13, <1>14,
     <1>15, <1>16, <1>17, <1>18, <1>19, <1>20 DEF Next

(* In each stage it is known who has written the tree and the dist         *)
(* directory, and what tree it is.                                         *)
THEOREM Directories == Spec => []DirectoryInv
  BY DirectoryInit, DirectoryStep, PTL DEF Spec

(* A tree that is compiled fits its patches exactly, though the tree is    *)
(* changed before an offset is seen and the patch files may change after   *)
(* the preflight (apply-complete-runtime-patches.py:92-150).               *)
THEOREM ExactTree == Spec => []NoInexactTreeIsBuilt
<1>1. DirectoryInv => NoInexactTreeIsBuilt
  BY DEF DirectoryInv
<1>. QED
  BY <1>1, Directories, PTL

(* A run that succeeds wrote the whole of its tree and of its dist         *)
(* directory; no earlier run has a part in it                              *)
(* (build-complete-runtime.sh:66-77).                                      *)
THEOREM OneWriter == Spec => []OneRunPerDirectory
<1>1. DirectoryInv => OneRunPerDirectory
  BY DEF DirectoryInv
<1>. QED
  BY <1>1, Directories, PTL

----------------------------------------------------------------------------
(* What is handed on is what the manifest recorded.  The audit sees only   *)
(* the last state: a component that was edited and put back passes, and    *)
(* so does an AAR whose JAR or texts are not the components'.  What came   *)
(* before the audit therefore counts only while nothing has been edited.   *)

Sealing == {"provenance", "package", "audit"}

Licence == "THIRD_PARTY_LICENSES.txt"
LicenceEntry == <<"META-INF", Licence>>

ManifestWritten == pc \in Sealing => dist.manifest.mode \in Modes

Unedited ==
  pc \in Sealing /\ "after" \notin edited => dist.components = dist.manifest.components

PackagedFromRecord ==
  pc = "audit" /\ run.mode = "complete" /\ "after" \notin edited =>
    /\ dist.aar[<<"classes.jar">>] = dist.manifest.components[<<"api">>][<<"classes.jar">>]
    /\ dist.aar[LicenceEntry] = dist.manifest.components[<<Licence>>]

SealInv ==
  /\ IsDist /\ run.mode \in Modes
  /\ ManifestWritten /\ Unedited /\ PackagedFromRecord
  /\ outcome = "ok" => pc = "idle"
  /\ SealedByManifest

LEMMA SealInit == Init => SealInv
  BY DEF Init, SealInv, IsDist, ManifestWritten, Unedited, PackagedFromRecord, Sealing,
         SealedByManifest, EmptyDist, Modes

(* Every action before the manifest, and those that take things away.      *)
LEMMA SealStepEarly ==
  ASSUME SealInv,
         \/ Stop \/ MoveRepo \/ RemoveByHand \/ Start \/ VerifySourceLock \/ Guards
         \/ DownloadBazel \/ UseCachedBazel \/ CheckBazel \/ FetchSource \/ ResolvePatches
         \/ CheckPatches \/ ApplyPatches \/ BuildApi \/ VerifyContract \/ BuildNative
         \/ NextTargets \/ ValidateNative \/ CollectLicences \/ UNCHANGED vars
  PROVE  SealInv'
<1> USE DEF SealInv, IsDist, ManifestWritten, Unedited, PackagedFromRecord, Sealing,
            SealedByManifest, Goto, Raise, CheckThen, ghosts
<1>1. CASE Stop \/ MoveRepo \/ VerifySourceLock \/ UseCachedBazel \/ CheckBazel
           \/ ResolvePatches \/ CheckPatches \/ UNCHANGED vars
  BY <1>1 DEF Stop, MoveRepo, VerifySourceLock, UseCachedBazel, CheckBazel, ResolvePatches,
              CheckPatches, vars, disk, expected_native_paths
<1>2. CASE RemoveByHand
  BY <1>2 DEF RemoveByHand, EmptyDist
<1>3. CASE Start
  BY <1>3 DEF Start, disk
<1>9. CASE DownloadBazel
  BY <1>9 DEF DownloadBazel
<1>10. CASE FetchSource
  <2>1. UNCHANGED <<dist, run, edited>> /\ pc \notin Sealing /\ pc' \notin Sealing
    BY <1>10 DEF FetchSource
  <2>2. outcome' \in {outcome, "failed"} /\ pc # "idle"
    BY <1>10 DEF FetchSource
  <2>. QED
    BY <2>1, <2>2
<1>11. CASE ApplyPatches \/ VerifyContract \/ NextTargets
  BY <1>11 DEF ApplyPatches, ApplySeries, VerifyContract, NextTargets, disk
<1>4. CASE Guards
  BY <1>4 DEF Guards, MakeDist
<1>5. CASE BuildApi
  BY <1>5 DEF BuildApi, Graph
<1>6. CASE BuildNative
  <2>1. IsDist'
    BY <1>6 DEF BuildNative, BuildLibrary, Graph
  <2>2. pc' \in {"build", "accelerators", "idle"} /\ outcome' \in {outcome, "failed"}
    BY <1>6 DEF BuildNative, BuildLibrary
  <2>3. outcome # "ok" /\ run' = run
    BY <1>6 DEF BuildNative
  <2>4. pc' \notin Sealing /\ outcome' # "ok" /\ pc' # "audit"
    BY <2>2, <2>3
  <2>. QED
    BY <2>1, <2>3, <2>4
<1>7. CASE ValidateNative
  BY <1>7 DEF ValidateNative, Report
<1>8. CASE CollectLicences
  BY <1>8 DEF CollectLicences, AddComponents
<1>. QED
  BY <1>1, <1>2, <1>3, <1>4, <1>5, <1>6, <1>7, <1>8, <1>9, <1>10, <1>11

(* What is edited once the manifest is there is remembered.                *)
LEMMA SealStepEdit ==
  ASSUME SealInv, EditComponent \/ RestoreComponent
  PROVE  SealInv'
<1>1. /\ IsDist' /\ dist'.manifest = dist.manifest
      /\ pc # "idle" /\ UNCHANGED <<pc, run, outcome>>
      /\ edited' = edited \cup {IF dist.manifest = NoManifest THEN "before" ELSE "after"}
  BY EditStep DEF SealInv
<1>2. pc \in Sealing => "after" \in edited'
  <2>1. NoManifest.mode \notin Modes
    BY DEF NoManifest, Modes
  <2>. QED
    BY <1>1, <2>1 DEF SealInv, ManifestWritten
<1>. QED
  BY <1>1, <1>2 DEF SealInv, ManifestWritten, Unedited, PackagedFromRecord, SealedByManifest, Sealing

(* The manifest records the components as they are.                        *)
LEMMA SealStepManifest ==
  ASSUME SealInv, WriteManifest \/ WriteProvenance
  PROVE  SealInv'
<1> USE DEF SealInv, IsDist, ManifestWritten, Unedited, PackagedFromRecord, Sealing,
            SealedByManifest, Goto, Raise, CheckThen, ghosts
<1>1. CASE WriteManifest
  <2>1. IsDist' /\ pc' = "provenance" /\ outcome' # "ok"
    BY <1>1 DEF WriteManifest
  <2>2. /\ dist'.components = dist.components /\ dist'.manifest.components = dist.components
        /\ dist'.manifest.mode = run.mode /\ run' = run
    BY <1>1 DEF WriteManifest
  <2>. QED
    BY <2>1, <2>2
<1>2. CASE WriteProvenance
  <2>1. IsDist' /\ pc' \in {"package", "idle"} /\ outcome' # "ok"
    BY <1>2 DEF WriteProvenance
  <2>2. dist'.components = dist.components /\ dist'.manifest = dist.manifest
    BY <1>2 DEF WriteProvenance
  <2>. QED
    BY <1>2, <2>1, <2>2 DEF WriteProvenance
<1>. QED
  BY <1>1, <1>2

(* What the AAR holds is what it was packaged from.                        *)
LEMMA PackagedEntries ==
  ASSUME NEW api, NEW native, NEW lock, ReadableApi(api)
  PROVE  LET aar == package_complete_aar(api, native, Texts, lock)
         IN /\ aar[<<"classes.jar">>] = api[<<"classes.jar">>]
            /\ aar[LicenceEntry] = dist.components[<<Licence>>]
<1>1. <<"classes.jar">> \in DOMAIN read_api_entries(api)
  BY DEF ReadableApi
<1>2. <<"classes.jar">> \notin DOMAIN Texts /\ <<"classes.jar">> # BuildManifestName
  BY DEF Texts, TextNames, BuildManifestName
<1>3. ~ IsNative(<<"classes.jar">>)
  BY DEF IsNative
<1>4. LicenceEntry \in DOMAIN Texts /\ LicenceEntry # BuildManifestName
  BY DEF Texts, TextNames, BuildManifestName, LicenceEntry, Licence
<1>5. Texts[LicenceEntry] = dist.components[<<Licence>>]
  BY <1>4 DEF Texts, LicenceEntry, Licence
<1>. QED
  BY <1>1, <1>2, <1>3, <1>4, <1>5 DEF package_complete_aar

(* The AAR is packaged from the components the manifest recorded, unless   *)
(* one of them was edited before.                                          *)
LEMMA SealStepPackage ==
  ASSUME SealInv, PackageAar
  PROVE  SealInv'
<1> USE DEF SealInv, Goto, Raise, CheckThen
<1>1. /\ IsDist' /\ UNCHANGED run
      /\ dist'.components = dist.components /\ dist'.manifest = dist.manifest
  BY DEF PackageAar, IsDist
<1>2. pc = "package" /\ pc' \in {"audit", "idle"} /\ outcome # "ok" /\ outcome' # "ok"
  BY DEF PackageAar
<1>3. ManifestWritten' /\ Unedited' /\ UNCHANGED edited
  BY <1>1, <1>2 DEF PackageAar, ghosts, ManifestWritten, Unedited, Sealing
<1>4. CASE run.mode = "complete" /\ pc' = "audit"
  <2>1. ReadableApi(dist.components[<<"api">>])
    BY <1>2, <1>4, NoErrorMeansNot DEF PackageAar, ErrorIf
  <2>2. dist'.aar = package_complete_aar(dist.components[<<"api">>], Native, Texts, repo.lock)
    BY <1>4 DEF PackageAar, IsDist
  <2>3. /\ dist'.aar[<<"classes.jar">>] = dist.components[<<"api">>][<<"classes.jar">>]
        /\ dist'.aar[LicenceEntry] = dist.components[<<Licence>>]
    BY <2>1, <2>2, PackagedEntries
  <2>. QED
    BY <1>1, <1>2, <1>3, <2>3 DEF PackagedFromRecord, Unedited, Sealing, SealedByManifest
<1>. QED
  BY <1>1, <1>2, <1>3, <1>4 DEF PackagedFromRecord, SealedByManifest

(* A list of errors is empty only if each part of it is.                   *)
LEMMA UnionEmpty ==
  ASSUME NEW A, NEW B, A \cup B = {}
  PROVE  A = {} /\ B = {}
  OBVIOUS

(* The audit compares the components with the manifest and the libraries   *)
(* in the AAR with the components; the JAR and the licences follow from    *)
(* what was packaged, if nothing was edited.                               *)
LEMMA SealStepAudit ==
  ASSUME SealInv, AuditReleaseInputs
  PROVE  SealInv'
<1> USE DEF SealInv, Goto
<1>1. /\ IsDist' /\ UNCHANGED run /\ pc = "audit" /\ pc' = "idle"
      /\ dist'.components = dist.components /\ dist'.manifest = dist.manifest
      /\ dist'.aar = dist.aar
      /\ UNCHANGED edited
  BY DEF AuditReleaseInputs, Audit, Report, IsDist, ghosts
<1>2. CASE outcome' # "ok"
  BY <1>1, <1>2 DEF ManifestWritten, Unedited, Sealing, PackagedFromRecord, SealedByManifest
<1>3. CASE outcome' = "ok"
  <2> DEFINE componentErrors ==
        audit_component_dir(dist.components, dist.manifest, repo.lock, run.mode)
  <2>1. AuditErrors(componentErrors) = {}
    BY <1>3 DEF AuditReleaseInputs, Audit
  <2>2. componentErrors = {} /\ audit_candidate(Candidate, dist.components, run.mode) = {}
    BY <2>1, UnionEmpty DEF AuditErrors
  <2>3. dist.manifest.components = dist.components
    BY <2>2 DEF audit_component_dir, ErrorIf
  <2>4. ASSUME run.mode = "complete", NEW p \in expected_native_paths("complete")
        PROVE  dist.aar[Jni(p)] = dist.components[<<"native", p[1], p[2]>>]
    <3> DEFINE expected == {Jni(q) : q \in expected_native_paths("complete")}
               actual == {n \in DOMAIN dist.aar : IsNative(n)}
    <3>1. Candidate = dist.aar
      BY <2>4 DEF Candidate
    <3>2. actual = expected
      BY <2>2, <2>4, <3>1 DEF audit_candidate, ErrorIf
    <3>3. Jni(p) \in expected \cap actual
      BY <2>4, <3>2
    <3>4. ~ \E n \in expected \cap actual :
               ~ (/\ <<"native", n[2], n[3]>> \in DOMAIN dist.components
                  /\ dist.components[<<"native", n[2], n[3]>>] = dist.aar[n])
      BY <2>2, <2>4, <3>1 DEF audit_candidate, ErrorIf
    <3>. HIDE DEF expected, actual
    <3>5. dist.components[<<"native", Jni(p)[2], Jni(p)[3]>>] = dist.aar[Jni(p)]
      BY <3>3, <3>4
    <3>. QED
      BY <3>5 DEF Jni
  <2>5. SealedByManifest'
    BY <1>1, <2>3, <2>4 DEF SealedByManifest, PackagedFromRecord, Licence, LicenceEntry
  <2>. QED
    BY <1>1, <2>5 DEF ManifestWritten, Unedited, Sealing, PackagedFromRecord
<1>. QED
  BY <1>2, <1>3

(* Every step keeps the seal.                                              *)
LEMMA SealStep == SealInv /\ [Next]_vars => SealInv'
  BY SealStepEarly, SealStepEdit, SealStepManifest, SealStepPackage, SealStepAudit DEF Next

(* The components and libraries a run that succeeds hands on are what the  *)
(* component manifest recorded, whatever is edited and put back while it   *)
(* runs; its API and licences are, if nothing was edited after that        *)
(* (write_component_manifest.py:33-59, package_complete_aar.py:124-160,    *)
(* audit_release_inputs.py:128-241).                                       *)
THEOREM Sealed == Spec => []SealedByManifest
<1>1. SealInv => SealedByManifest
  BY DEF SealInv
<1>. QED
  BY <1>1, SealInit, SealStep, PTL DEF Spec
----------------------------------------------------------------------------
(* Types *)

TypeInv == DirectoryInv /\ TypeOK

(* What the builds write is among the names the contract expects.          *)
LEMMA BuiltNames ==
  /\ \A mode \in Modes : Abis \X {"liblitert_jni.so", "libLiteRt.so"} \subseteq expected_native_paths(mode)
  /\ GpuAbis \X {Accelerator} \subseteq expected_native_paths("complete")
  BY AbiAssumption DEF expected_native_paths, Modes, Libraries, AbisOf, Accelerator

LEMMA TypeInit == Init => TypeOK
<1> SUFFICES ASSUME Init PROVE TypeOK
  OBVIOUS
<1>1. repo \in Repositories /\ dist = EmptyDist /\ run.mode \in Modes
  BY DEF Init, Modes
<1>2. runs \in 0..MaxRuns /\ moves \in 0..MaxMoves /\ faults \in 0..MaxFaults
  BY BoundAssumption DEF Init
<1>. QED
  BY <1>1, <1>2 DEF Init, TypeOK

(* Every step keeps the types, with what is known of the directories.      *)
LEMMA TypeStep == TypeInv /\ [Next]_vars => TypeInv'
<1> SUFFICES ASSUME TypeInv, [Next]_vars
             PROVE  TypeOK'
  BY DirectoryStep DEF TypeInv
<1> USE BoundAssumption DEF TypeInv, TypeOK, Goto, Raise, CheckThen
<1>1. pc \in Early \cup Late => dist.made
  BY DEF DirectoryInv, Written
<1>2. CASE Stop \/ VerifySourceLock \/ UseCachedBazel \/ CheckBazel \/ UNCHANGED vars
  BY <1>2 DEF Stop, VerifySourceLock, CheckBazel, UseCachedBazel, vars, disk, counters, ghosts
<1>3. CASE MoveRepo
  BY <1>3 DEF MoveRepo, disk
<1>4. CASE EditComponent \/ RestoreComponent
  <2>1. /\ dist'.made = dist.made /\ edited' \subseteq {"before", "after"}
        /\ UNCHANGED <<repo, bazel, pc, run, todo, outcome, runs, moves, early>>
    BY <1>4, EditStep DEF DirectoryInv, Shapes
  <2>2. dist'.made
    <3>1. dist # EmptyDist
      <4>1. /\ dist' # dist
            /\ \/ \E n \in DOMAIN dist.components : TRUE
               \/ \E n \in DOMAIN dist.aar : TRUE
        BY <1>4 DEF EditComponent, RestoreComponent, SetBytes
      <4>2. DOMAIN EmptyDist.components = {} /\ DOMAIN EmptyDist.aar = {}
        BY DEF EmptyDist
      <4>. QED
        BY <4>1, <4>2
    <3>. QED
      BY <2>1, <3>1
  <2>3. faults' \in 0..MaxFaults
    <3>1. faults' = faults \/ (faults < MaxFaults /\ faults' = faults + 1)
      BY <1>4 DEF EditComponent, RestoreComponent, Fault
    <3>2. MaxFaults \in Nat /\ faults \in 0..MaxFaults
      OBVIOUS
    <3>. QED
      BY <3>1, <3>2
  <2>. QED
    BY <2>1, <2>2, <2>3
<1>5. CASE RemoveByHand
  BY <1>5 DEF RemoveByHand, counters, ghosts
<1>6. CASE Start
  <2>1. MaxRuns \in Nat /\ runs' \in 0..MaxRuns
    BY <1>6 DEF Start
  <2>2. run'.mode \in Modes /\ todo' = {}
    BY <1>6 DEF Start
  <2>. QED
    BY <1>6, <2>1, <2>2 DEF Start, disk
<1>7. CASE Guards
  BY <1>7 DEF Guards, MakeDist, counters, ghosts, EmptyDist, DirectoryInv, Shapes, IsDist
<1>8. CASE DownloadBazel
  BY <1>8 DEF DownloadBazel, Fault, ghosts
<1>9. CASE FetchSource
  BY <1>9 DEF FetchSource, Fault, ghosts
<1>10. CASE ResolvePatches \/ CheckPatches \/ ApplyPatches
  BY <1>10 DEF ResolvePatches, CheckPatches, ApplyPatches, ApplySeries, disk, counters, ghosts
<1>11. CASE BuildApi
  BY <1>1, <1>11 DEF BuildApi, Graph, Fault, ghosts, Late, DirectoryInv, Shapes, IsDist
<1>12. CASE VerifyContract
  BY <1>12, BuiltNames DEF VerifyContract, disk, counters, ghosts
<1>13. CASE BuildNative
  <2>1. pc \in Late
    BY <1>13 DEF BuildNative, Late
  <2>2. dist' = dist \/ dist'.made
    BY <1>1, <1>13, <2>1 DEF BuildNative, BuildLibrary, Graph, DirectoryInv, Shapes, IsDist
  <2>. QED
    BY <1>13, <2>2 DEF BuildNative, BuildLibrary, Fault, ghosts
<1>14. CASE NextTargets
  BY <1>14, BuiltNames DEF NextTargets, disk, counters, ghosts
<1>15. CASE ValidateNative
  BY <1>1, <1>15 DEF ValidateNative, Report, counters, ghosts, Late, DirectoryInv, Shapes, IsDist
<1>16. CASE CollectLicences
  BY <1>1, <1>16 DEF CollectLicences, AddComponents, counters, ghosts, Late, DirectoryInv, Shapes,
                     IsDist
<1>17. CASE WriteManifest
  BY <1>1, <1>17 DEF WriteManifest, counters, ghosts, Late, DirectoryInv, Shapes, IsDist
<1>18. CASE WriteProvenance
  BY <1>1, <1>18 DEF WriteProvenance, counters, ghosts, Late, DirectoryInv, Shapes, IsDist
<1>19. CASE PackageAar
  BY <1>1, <1>19 DEF PackageAar, counters, ghosts, Late, DirectoryInv, Shapes, IsDist
<1>20. CASE AuditReleaseInputs
  BY <1>1, <1>20 DEF AuditReleaseInputs, Audit, Report, counters, ghosts, Late, DirectoryInv,
                     Shapes, IsDist
<1>. QED
  BY <1>2, <1>3, <1>4, <1>5, <1>6, <1>7, <1>8, <1>9, <1>10, <1>11, <1>12, <1>13, <1>14, <1>15,
     <1>16, <1>17, <1>18, <1>19, <1>20 DEF Next

LEMMA TypeInvInit == Init => TypeInv
  BY DirectoryInit, TypeInit DEF TypeInv

(* Types, with the two parts of them that are more: a run builds libraries *)
(* of its mode only, and nothing lies in a dist no run has made.           *)
THEOREM TypeCorrect == Spec => []TypeOK
<1>1. TypeInv => TypeOK
  BY DEF TypeInv
<1>. QED
  BY <1>1, TypeInvInit, TypeStep, PTL DEF Spec

----------------------------------------------------------------------------
(* The label of what was built.  The lock is read when the patches are     *)
(* resolved, when they are applied, and again for the manifest, the        *)
(* provenance and the audit; each of the last two reads fails unless it    *)
(* fits, so a wrong commit in the manifest takes one move of the checkout  *)
(* before the manifest, one before the provenance to bring the right       *)
(* commit back, and one before the audit to bring the wrong one again.     *)

Resolved == {"check", "apply", "api", "contract", "build", "accelerators", "validate",
             "licences", "manifest"}
Applied == Resolved \ {"check", "apply"}
Mislabelled == dist.manifest.lock.commit # tree.commit

LockStillFits ==
  pc \in Resolved =>
    /\ repo.lock.commit # tree.commit => moves >= 1
    /\ ~ early => /\ repo.lock.commit = tree.commit
                  /\ repo.lock.series = repo.patches
                  /\ pc \in Applied => tree.series = repo.patches

MovesToMislabel ==
  /\ pc = "provenance" /\ Mislabelled =>
       moves >= 1 /\ (Sources(repo.lock) # dist.manifest.lock => moves >= 2)
  /\ pc \in {"package", "audit"} /\ Mislabelled =>
       moves >= 2 /\ (Sources(repo.lock) = dist.manifest.lock => moves >= 3)
  /\ outcome = "ok" /\ Mislabelled => moves >= 3

LabelledOnTime ==
  (pc \in Sealing \/ outcome = "ok") /\ ~ early =>
    dist.manifest.lock.commit = tree.commit /\ dist.manifest.lock.series = tree.series

LabelInv ==
  /\ TypeInv
  /\ outcome = "ok" => pc = "idle"
  /\ LockStillFits /\ MovesToMislabel /\ LabelledOnTime

LEMMA LabelInit == Init => LabelInv
<1> SUFFICES ASSUME Init PROVE LabelInv
  OBVIOUS
<1>1. TypeInv
  BY TypeInvInit
<1>2. pc = "idle" /\ outcome = "none"
  BY DEF Init
<1>. QED
  BY <1>1, <1>2 DEF LabelInv, LockStillFits, MovesToMislabel, LabelledOnTime, Resolved, Sealing

(* A step that leaves the checkout, the tree and the manifest as they are  *)
(* and does not come past any of the reads.                                *)
LEMMA LabelQuiet ==
  ASSUME LabelInv, TypeInv', UNCHANGED <<repo, tree, moves, early>>,
         dist'.manifest = dist.manifest,
         \/ pc' = pc
         \/ pc' \notin Resolved \cup Sealing
         \/ pc \in Applied /\ pc' \in Applied
         \/ pc = "check" /\ pc' = "apply"
         \/ pc = "package" /\ pc' = "audit",
         outcome' \in {outcome, "none", "failed"}, pc = "idle" \/ outcome' # "ok",
         outcome' = "ok" => pc' = "idle"
  PROVE  LabelInv'
  BY DEF LabelInv, LockStillFits, MovesToMislabel, LabelledOnTime, Mislabelled, Resolved, Applied,
         Sealing

(* Every step keeps the account of the moves.                              *)
LEMMA LabelStep == LabelInv /\ [Next]_vars => LabelInv'
<1> SUFFICES ASSUME LabelInv, [Next]_vars
             PROVE  LabelInv'
  OBVIOUS
<1> USE DEF Goto, Raise, CheckThen
<1>1. TypeInv /\ TypeInv' /\ (outcome = "ok" => pc = "idle") /\ moves \in Nat
  BY TypeStep, BoundAssumption DEF LabelInv, TypeInv, TypeOK
<1>2. IsDist /\ IsTree
  BY <1>1 DEF TypeInv, DirectoryInv, Shapes
<1>3. CASE Stop \/ VerifySourceLock \/ UseCachedBazel \/ CheckBazel \/ CheckPatches
           \/ VerifyContract \/ NextTargets \/ UNCHANGED vars
  <2>1. UNCHANGED <<repo, tree, moves, early, dist>>
    BY <1>3 DEF Stop, VerifySourceLock, UseCachedBazel, CheckBazel, CheckPatches, VerifyContract,
                NextTargets, vars, disk, counters, ghosts
  <2>. QED
    BY <1>1, <1>3, <2>1, LabelQuiet
       DEF Stop, VerifySourceLock, UseCachedBazel, CheckBazel, CheckPatches, VerifyContract,
           NextTargets, vars, disk, Resolved, Applied, Sealing
<1>4. CASE MoveRepo
  <2>1. /\ UNCHANGED <<tree, dist, pc>> /\ moves' = moves + 1 /\ outcome' = "none"
        /\ early' = (early \/ pc \in Resolved)
    BY <1>4 DEF MoveRepo, disk, Resolved
  <2>2. LockStillFits'
    <3>1. moves' >= 1
      BY <1>1, <2>1
    <3>2. pc \in Resolved => early'
      BY <1>4 DEF MoveRepo, Resolved
    <3>. QED
      BY <2>1, <3>1, <3>2 DEF LockStillFits, Applied
  <2>3. MovesToMislabel'
    BY <1>1, <2>1 DEF LabelInv, MovesToMislabel, Mislabelled
  <2>4. LabelledOnTime'
    BY <2>1 DEF LabelInv, LabelledOnTime, Sealing, Resolved
  <2>. QED
    BY <1>1, <2>1, <2>2, <2>3, <2>4 DEF LabelInv
<1>5. CASE EditComponent \/ RestoreComponent
  <2>1. /\ dist'.manifest = dist.manifest /\ pc # "idle"
        /\ UNCHANGED <<repo, tree, pc, outcome, moves, early>>
    BY <1>2, <1>5, EditStep
  <2>. QED
    BY <1>1, <2>1, LabelQuiet
<1>6. CASE RemoveByHand \/ Start
  <2>1. pc' \in {"idle", "lock"} /\ outcome' = "none"
    BY <1>6 DEF RemoveByHand, Start
  <2>. QED
    BY <1>1, <2>1 DEF LabelInv, LockStillFits, MovesToMislabel, LabelledOnTime, Resolved, Sealing
<1>7. CASE Guards \/ DownloadBazel \/ FetchSource
  <2>1. pc' \notin Resolved \cup Sealing /\ outcome' # "ok"
    BY <1>1, <1>7 DEF Guards, DownloadBazel, FetchSource, Resolved, Sealing
  <2>. QED
    BY <1>1, <2>1 DEF LabelInv, LockStillFits, MovesToMislabel, LabelledOnTime, Resolved, Sealing
<1>8. CASE ResolvePatches
  <2>1. UNCHANGED <<repo, tree, dist, moves, early>>
    BY <1>8 DEF ResolvePatches, disk, counters, ghosts
  <2>2. /\ pc' \in {"check", "idle"} /\ outcome' # "ok"
        /\ pc' = "check" => repo.patches = repo.lock.series /\ tree.commit = repo.lock.commit
    <3>1. pc' \in {"check", "idle"} /\ outcome' # "ok"
      BY <1>1, <1>8 DEF ResolvePatches
    <3>2. ASSUME pc' = "check"
          PROVE  /\ ErrorIf(repo.patches # repo.lock.series, "patch series") = {}
                 /\ ErrorIf(tree.commit # repo.lock.commit, "commit") = {}
      BY <1>8, <3>2, UnionEmpty DEF ResolvePatches
    <3>. QED
      BY <3>1, <3>2, NoErrorMeansNot
  <2>. QED
    BY <1>1, <2>1, <2>2 DEF LabelInv, LockStillFits, MovesToMislabel, LabelledOnTime, Resolved,
       Applied, Sealing
<1>9. CASE ApplyPatches
  <2>1. UNCHANGED <<repo, dist, moves, early>> /\ tree'.commit = tree.commit
    BY <1>2, <1>9 DEF ApplyPatches, ApplySeries, counters, ghosts, IsTree
  <2>2. /\ pc = "apply" /\ pc' \in {"api", "idle"} /\ outcome' # "ok"
        /\ pc' = "api" => tree'.series = repo.patches
    BY <1>1, <1>2, <1>9, NoErrorMeansNot DEF ApplyPatches, ApplySeries, ErrorIf, IsTree
  <2>. QED
    BY <1>1, <2>1, <2>2 DEF LabelInv, LockStillFits, MovesToMislabel, LabelledOnTime, Resolved,
       Applied, Sealing
<1>10. CASE BuildApi \/ BuildNative \/ ValidateNative \/ CollectLicences
  <2>1. UNCHANGED <<repo, tree, moves, early>>
    BY <1>10 DEF BuildApi, BuildNative, ValidateNative, CollectLicences, counters, ghosts
  <2>2. dist'.manifest = dist.manifest
    BY <1>2, <1>10 DEF BuildApi, BuildNative, BuildLibrary, Graph, ValidateNative, Report,
       CollectLicences, AddComponents, IsDist
  <2>3. pc \in Applied /\ pc' \in Applied \cup {"idle"}
    BY <1>10 DEF BuildApi, BuildNative, BuildLibrary, ValidateNative, CollectLicences, Resolved,
       Applied
  <2>4. outcome # "ok" /\ outcome' \in {outcome, "failed"}
    BY <1>1, <1>10 DEF BuildApi, BuildNative, BuildLibrary, ValidateNative, CollectLicences
  <2>. QED
    BY <1>1, <2>1, <2>2, <2>3, <2>4, LabelQuiet DEF Resolved, Applied, Sealing
<1>11. CASE WriteManifest
  <2>1. /\ UNCHANGED <<repo, tree, moves, early, outcome>>
        /\ pc = "manifest" /\ pc' = "provenance"
        /\ dist'.manifest.lock = Sources(repo.lock)
    BY <1>2, <1>11 DEF WriteManifest, counters, ghosts, IsDist
  <2>2. outcome # "ok"
    BY <1>1, <2>1
  <2>. QED
    BY <1>1, <2>1, <2>2 DEF LabelInv, LockStillFits, MovesToMislabel, LabelledOnTime, Mislabelled,
       Resolved, Applied, Sealing, Sources
<1>12. CASE WriteProvenance
  <2>1. UNCHANGED <<repo, tree, moves, early>> /\ dist'.manifest = dist.manifest
    BY <1>2, <1>12 DEF WriteProvenance, counters, ghosts, IsDist
  <2>2. /\ pc = "provenance" /\ pc' \in {"package", "idle"} /\ outcome' # "ok"
        /\ pc' = "package" => tree.commit = repo.lock.commit
    <3>1. pc = "provenance" /\ pc' \in {"package", "idle"} /\ outcome' # "ok"
      BY <1>1, <1>12 DEF WriteProvenance
    <3>2. ASSUME pc' = "package"
          PROVE  ErrorIf(TRUE /\ tree.commit # repo.lock.commit, "commit") = {}
      BY <1>12, <3>2, UnionEmpty DEF WriteProvenance, ProvenanceErrors
    <3>. QED
      BY <3>1, <3>2, NoErrorMeansNot
  <2>. QED
    BY <1>1, <2>1, <2>2 DEF LabelInv, LockStillFits, MovesToMislabel, LabelledOnTime, Mislabelled,
       Resolved, Applied, Sealing, Sources
<1>13. CASE PackageAar
  <2>1. UNCHANGED <<repo, tree, moves, early>> /\ dist'.manifest = dist.manifest
    BY <1>2, <1>13 DEF PackageAar, counters, ghosts, IsDist
  <2>2. pc = "package" /\ pc' \in {"audit", "idle"} /\ outcome' \in {outcome, "failed"}
    BY <1>13 DEF PackageAar
  <2>. QED
    BY <1>1, <2>1, <2>2, LabelQuiet DEF Resolved, Sealing
<1>14. CASE AuditReleaseInputs
  <2>1. UNCHANGED <<repo, tree, moves, early>> /\ dist'.manifest = dist.manifest
    BY <1>2, <1>14 DEF AuditReleaseInputs, Audit, Report, counters, ghosts, IsDist
  <2>2. /\ pc = "audit" /\ pc' = "idle"
        /\ outcome' = "ok" => dist.manifest.lock = Sources(repo.lock)
    <3>1. pc = "audit" /\ pc' = "idle"
      BY <1>14 DEF AuditReleaseInputs, Audit
    <3>2. ASSUME outcome' = "ok" PROVE dist.manifest.lock = Sources(repo.lock)
      <4>1. audit_component_dir(dist.components, dist.manifest, repo.lock, run.mode) = {}
        BY <1>14, <3>2, UnionEmpty DEF AuditReleaseInputs, Audit, AuditErrors
      <4>. QED
        BY <4>1 DEF audit_component_dir, ErrorIf
    <3>. QED
      BY <3>1, <3>2
  <2>. QED
    BY <1>1, <2>1, <2>2 DEF LabelInv, LockStillFits, MovesToMislabel, LabelledOnTime, Mislabelled,
       Resolved, Applied, Sealing, Sources
<1>. QED
  BY <1>3, <1>4, <1>5, <1>6, <1>7, <1>8, <1>9, <1>10, <1>11, <1>12, <1>13, <1>14 DEF Next

(* The lock in the manifest names the tree that was compiled, unless the   *)
(* checkout moved between the patches and the manifest; and even then the  *)
(* commit is right, unless it moved three times                            *)
(* (write_component_manifest.py:33-59, write_provenance.py,                *)
(* audit_release_inputs.py:128-170).                                       *)
THEOREM LabelIsRight == Spec => []LabelIsWhatWasBuilt
<1>1. LabelInv => LabelIsWhatWasBuilt
  BY BoundAssumption
     DEF LabelInv, TypeInv, TypeOK, LabelledOnTime, MovesToMislabel, Mislabelled,
         LabelIsWhatWasBuilt
<1>. QED
  BY <1>1, LabelInit, LabelStep, PTL DEF Spec

----------------------------------------------------------------------------
(* What is accepted is what the contract wants.  Each component is good    *)
(* from the step that checks it until the manifest records it, unless it   *)
(* was edited meanwhile; and the audit compares with the manifest.         *)

Empty == {"bazel", "sha256", "fetch", "resolve", "check", "apply", "api"}
Filling == {"contract", "build", "accelerators", "validate", "licences", "manifest"}
NativeName(p) == <<"native", p[1], p[2]>>

(* The manifest belongs to this run. *)
ManifestOfThisRun ==
  /\ pc \in Empty => dist.components = <<>>
  /\ pc \in Empty \cup Filling => dist.manifest = NoManifest
  /\ pc \in Sealing => dist.manifest # NoManifest

NamesAreNames(components) ==
  \A n \in DOMAIN components : n[1] = "native" => \E p \in Abis \X Libraries : n = NativeName(p)

(* Before they are verified the libraries come from this tree at least. *)
Compiled(file, library) ==
  /\ ~ file.prebuilt /\ file.from = Origin
  /\ ExportsJni(library) => file.symbols \in {{}, JniExports, JniExports \cup {<<"Java_", "other">>}}

AllCompiled(components) ==
  \A p \in Abis \X Libraries :
    NativeName(p) \in DOMAIN components => Compiled(components[NativeName(p)], p[2])

AllContracted(components) ==
  \A p \in expected_native_paths(run.mode) :
    NativeName(p) \in DOMAIN components /\ Contracted(components[NativeName(p)], p[1], p[2])

LicencesOfTree(components) == tree.commit \in components[<<"THIRD_PARTY_LICENSES.txt">>].of

Jars == {SoundJar} \cup DefectiveJars

GoodSoFar ==
  pc \in Filling /\ "before" \notin edited =>
    /\ tree.commit \in externals
    /\ NamesAreNames(dist.components) /\ AllCompiled(dist.components)
    /\ <<"api">> \in DOMAIN dist.components
    /\ \E jar \in Jars : dist.components[<<"api">>] = package_api_aar(jar)
    /\ pc # "contract" => dist.components[<<"api">>] = package_api_aar(SoundJar)
    /\ pc \in {"licences", "manifest"} => AllContracted(dist.components)
    /\ pc = "manifest" => LicencesOfTree(dist.components)

Good(components) ==
  /\ AllContracted(components)
  /\ components[<<"api">>] = package_api_aar(SoundJar)
  /\ LicencesOfTree(components)

GoodManifest ==
  (pc \in Sealing \/ outcome = "ok") /\ "before" \notin edited => Good(dist.manifest.components)

AcceptInv ==
  /\ TypeInv
  /\ outcome = "ok" => pc = "idle"
  /\ ManifestOfThisRun /\ GoodSoFar /\ GoodManifest /\ AcceptedIsContract

(* The names of the components are told apart.                             *)
LEMMA Disjoint ==
  /\ \A p, q \in Abis \X Libraries : NativeName(p) = NativeName(q) => p = q
  /\ \A p : NativeName(p)[1] = "native" /\ NativeName(p)[2] = p[1] /\ NativeName(p)[3] = p[2]
  /\ \A p : NativeName(p) \notin {<<"api">>, <<"THIRD_PARTY_LICENSES.txt">>,
                                <<"LICENSE-LiteRT.txt">>, <<"THIRD_PARTY_NOTICES.md">>}
  /\ <<"api">>[1] # "native"
  BY DEF NativeName

(* Whatever is wrong with a library Bazel puts out, it is of this tree.    *)
LEMMA LibraryOfTree ==
  ASSUME NEW p \in Abis \X Libraries,
         NEW file \in {SoundLibrary(p[1], p[2])} \cup DefectiveLibraries(p[1], p[2]),
         ~ file.prebuilt
  PROVE  Compiled(file, p[2])
<1> DEFINE sound == SoundLibrary(p[1], p[2])
<1>1. /\ sound.from = Origin
      /\ ExportsJni(p[2]) => sound.symbols = JniExports
      /\ sound = [elf |-> sound.elf, abi |-> sound.abi, androidApi |-> sound.androidApi,
                  soname |-> sound.soname, needed |-> sound.needed, symbols |-> sound.symbols,
                  prebuilt |-> sound.prebuilt, from |-> sound.from, edited |-> sound.edited]
  BY DEF SoundLibrary, RequiredSymbols, JniExports, ExportsJni
<1>2. file \in {sound,
        [sound EXCEPT !.elf = FALSE], [sound EXCEPT !.abi = "other"],
        [sound EXCEPT !.androidApi = @ + 1], [sound EXCEPT !.soname = "other"],
        [sound EXCEPT !.needed = {}], [sound EXCEPT !.symbols = {}],
        [sound EXCEPT !.symbols = @ \cup {<<"Java_", "other">>}], [sound EXCEPT !.prebuilt = TRUE]}
  <2>. HIDE DEF sound
  <2>. QED
    BY DefectAssumption DEF DefectiveLibraries, sound
<1>. HIDE DEF sound
<1>3. /\ file.from = sound.from
      /\ file.symbols \in {sound.symbols, {}, sound.symbols \cup {<<"Java_", "other">>}}
  BY <1>1, <1>2
<1>. QED
  BY <1>1, <1>3 DEF Compiled

(* The members, the target and the classes of the JAR are all looked at.   *)
LEMMA JarVerified ==
  ASSUME NEW jar \in Jars, verify_runtime_contract(package_api_aar(jar)) = {}
  PROVE  jar = SoundJar
<1>1. /\ <<"classes.jar">> \in DOMAIN package_api_aar(jar)
      /\ package_api_aar(jar)[<<"classes.jar">>] = jar
  BY DEF package_api_aar, @@, :>
<1>2. /\ inspect_api(jar, RequiredMembers \cup BssExtensionMembers) = {}
      /\ inspect_bytecode_target(jar) = {}
      /\ ForbiddenIn(jar) = {}
  BY <1>1, UnionEmpty DEF verify_runtime_contract
<1>3. RequiredMembers \cup BssExtensionMembers \subseteq jar.members
  BY <1>2 DEF inspect_api
<1>4. jar.target = JvmTarget
  BY <1>2 DEF inspect_bytecode_target, ErrorIf
<1>5. jar.classes \cap ForbiddenClasses = {}
  BY <1>2 DEF ForbiddenIn
<1>6. CASE jar = [SoundJar EXCEPT !.members = RequiredMembers]
  BY <1>3, <1>6 DEF SoundJar, RequiredMembers, BssExtensionMembers
<1>7. CASE jar = [SoundJar EXCEPT !.target = @ + 1]
  BY <1>4, <1>7 DEF SoundJar, JvmTarget
<1>8. CASE jar = [SoundJar EXCEPT !.classes = @ \cup ForbiddenClasses]
  BY <1>5, <1>8 DEF SoundJar, ForbiddenClasses
<1>. QED
  BY <1>6, <1>7, <1>8 DEF Jars, DefectiveJars

(* Verified libraries that come from this tree are as contracted. *)
LEMMA LibrariesVerified ==
  ASSUME NEW mode \in Modes, NamesAreNames(dist.components), AllCompiled(dist.components),
         \A p \in expected_native_paths(mode) \cap DOMAIN Native : Inspectable(Native[p]),
         verify_native_artifacts(Native, mode) = {}
  PROVE  \A p \in expected_native_paths(mode) :
           /\ NativeName(p) \in DOMAIN dist.components
           /\ Contracted(dist.components[NativeName(p)], p[1], p[2])
<1> SUFFICES ASSUME NEW p \in expected_native_paths(mode)
             PROVE  /\ NativeName(p) \in DOMAIN dist.components
                    /\ Contracted(dist.components[NativeName(p)], p[1], p[2])
  OBVIOUS
<1>1. p \in Abis \X Libraries
  BY DEF expected_native_paths
<1>2. p \in DOMAIN Native
  BY NoErrorMeansNot, UnionEmpty DEF verify_native_artifacts
<1>3. PICK n \in DOMAIN dist.components : n[1] = "native" /\ p = <<n[2], n[3]>>
  BY <1>2 DEF Native
<1>4. n = NativeName(p)
  BY <1>3, Disjoint DEF NamesAreNames, NativeName
<1> DEFINE file == dist.components[NativeName(p)]
<1>5. Native[p] = file
  BY <1>2 DEF Native, NativeName
<1>6. Compiled(file, p[2])
  BY <1>1, <1>3, <1>4 DEF AllCompiled
<1>7. file.elf
  BY <1>2, <1>5 DEF Inspectable
<1>8. validate_inspection(file, p[1], p[2]) = {}
  <2>1. UNION {validate_inspection(Native[q], q[1], q[2]) :
                 q \in expected_native_paths(mode) \cap DOMAIN Native} = {}
    BY UnionEmpty DEF verify_native_artifacts
  <2>. QED
    BY <1>2, <1>5, <2>1
<1>. HIDE DEF file
<1> DEFINE jni == {s \in file.symbols : s[1] = "Java_"}
<1>9. /\ file.abi = p[1] /\ file.androidApi = AndroidApi
      /\ file.soname \in Sonames(p[2]) /\ file.needed = Needed(p[2])
      /\ RequiredSymbols(p[2]) \subseteq file.symbols
      /\ ExportsJni(p[2]) => jni = {s \in JniExports : s[1] = "Java_"}
  <2>1. /\ ErrorIf(file.abi # p[1], "class or machine") = {}
        /\ ErrorIf(file.androidApi # AndroidApi, "Android API") = {}
        /\ ErrorIf(file.soname \notin Sonames(p[2]), "SONAME") = {}
        /\ ErrorIf(file.needed # Needed(p[2]), "DT_NEEDED") = {}
        /\ ErrorIf(~ RequiredSymbols(p[2]) \subseteq file.symbols, "missing symbols") = {}
        /\ ErrorIf(ExportsJni(p[2]) /\ jni # {s \in JniExports : s[1] = "Java_"},
                   "JNI export drift") = {}
    BY <1>8, UnionEmpty DEF validate_inspection
  <2>. HIDE DEF jni
  <2>. QED
    BY <2>1, NoErrorMeansNot
<1>10. ASSUME ExportsJni(p[2]) PROVE file.symbols = JniExports
  <2>1. <<"Java_", "run">> \in file.symbols
    BY <1>9, <1>10 DEF JniExports
  <2>2. <<"Java_", "other">> \notin file.symbols
    <3>1. <<"Java_", "other">>[1] = "Java_" /\ <<"Java_", "other">> \notin JniExports
      BY DEF JniExports
    <3>2. jni = {s \in JniExports : s[1] = "Java_"}
      BY <1>9, <1>10
    <3>. QED
      BY <3>1, <3>2
  <2>. QED
    BY <1>6, <1>10, <2>1, <2>2 DEF Compiled
<1>. QED
  BY <1>3, <1>4, <1>6, <1>7, <1>9, <1>10 DEF Contracted, Compiled, file

LEMMA AcceptInit == Init => AcceptInv
<1> SUFFICES ASSUME Init PROVE AcceptInv
  OBVIOUS
<1>1. TypeInv
  BY TypeInvInit
<1>2. pc = "idle" /\ outcome = "none"
  BY DEF Init
<1>. QED
  BY <1>1, <1>2 DEF AcceptInv, ManifestOfThisRun, GoodSoFar, GoodManifest, AcceptedIsContract, Empty,
     Filling, Sealing

(* A step that changes neither the tree nor a component nor the manifest,  *)
(* and comes past no check.                                                *)
LEMMA AcceptQuiet ==
  ASSUME AcceptInv, TypeInv', UNCHANGED <<tree, run, edited>>, externals \subseteq externals',
         dist'.components = dist.components, dist'.manifest = dist.manifest,
         \/ pc' = pc
         \/ pc' \notin Empty \cup Filling \cup Sealing
         \/ pc \in Empty /\ pc' \in Empty
         \/ pc = "build" /\ pc' = "accelerators"
         \/ pc = "accelerators" /\ pc' = "validate"
         \/ pc \in Sealing /\ pc' \in Sealing,
         pc # "idle" \/ outcome' = outcome \/ outcome' # "ok",
         outcome' \in {outcome, "none", "failed"}, outcome' = "ok" => pc' = "idle"
  PROVE  AcceptInv'
<1>1. ManifestOfThisRun'
  BY DEF AcceptInv, ManifestOfThisRun, Empty, Filling, Sealing
<1>2. /\ NamesAreNames(dist.components)' <=> NamesAreNames(dist.components)
      /\ AllCompiled(dist.components)' <=> AllCompiled(dist.components)
      /\ AllContracted(dist.components)' <=> AllContracted(dist.components)
      /\ LicencesOfTree(dist.components)' <=> LicencesOfTree(dist.components)
      /\ Good(dist.manifest.components)' <=> Good(dist.manifest.components)
      /\ Jars' = Jars /\ package_api_aar(SoundJar)' = package_api_aar(SoundJar)
  BY DEF NamesAreNames, AllCompiled, Compiled, AllContracted, Contracted, Origin, LicencesOfTree,
         Good, Jars, SoundJar, DefectiveJars
<1>3. (\E jar \in Jars : dist.components[<<"api">>] = package_api_aar(jar))'
        <=> \E jar \in Jars : dist.components[<<"api">>] = package_api_aar(jar)
  BY <1>2
<1>4. GoodSoFar'
  BY <1>2, <1>3 DEF AcceptInv, GoodSoFar, Empty, Filling, Sealing
<1>5. GoodManifest'
  BY <1>2 DEF AcceptInv, GoodManifest, Empty, Filling, Sealing
<1>6. AcceptedIsContract'
  <2>1. Native' = Native
    BY DEF Native
  <2>2. (\A p \in DOMAIN Native : Contracted(Native[p], p[1], p[2]))'
          <=> \A p \in DOMAIN Native : Contracted(Native[p], p[1], p[2])
    BY <2>1 DEF Contracted, Origin
  <2>3. outcome' = "ok" => outcome = "ok"
    OBVIOUS
  <2>. QED
    BY <1>2, <2>1, <2>2, <2>3 DEF AcceptInv, AcceptedIsContract
<1>. QED
  BY <1>1, <1>4, <1>5, <1>6 DEF AcceptInv

(* Outside the steps that fill the directory only the manifest matters.    *)
LEMMA AcceptElsewhere ==
  ASSUME AcceptInv, TypeInv', pc' \notin Filling \cup Sealing, outcome' # "ok",
         pc' \in Empty => dist'.components = <<>> /\ dist'.manifest = NoManifest
  PROVE  AcceptInv'
  BY DEF AcceptInv, ManifestOfThisRun, GoodSoFar, GoodManifest, AcceptedIsContract, Empty, Filling,
         Sealing

(* Every action before the API is built, and those that touch no component. *)
LEMMA AcceptStepEarly ==
  ASSUME AcceptInv, TypeInv',
         \/ Stop \/ MoveRepo \/ RemoveByHand \/ Start \/ VerifySourceLock \/ Guards
         \/ DownloadBazel \/ UseCachedBazel \/ CheckBazel \/ FetchSource \/ ResolvePatches
         \/ CheckPatches \/ ApplyPatches \/ NextTargets \/ WriteProvenance \/ PackageAar
         \/ UNCHANGED vars
  PROVE  AcceptInv'
<1> USE DEF Goto, Raise, CheckThen
<1>1. (outcome = "ok" => pc = "idle") /\ ManifestOfThisRun
  BY DEF AcceptInv
<1>2. IsDist
  BY DEF AcceptInv, TypeInv, DirectoryInv, Shapes
<1>3. CASE Stop \/ MoveRepo \/ VerifySourceLock \/ DownloadBazel \/ UseCachedBazel \/ CheckBazel
           \/ ResolvePatches \/ CheckPatches \/ NextTargets \/ UNCHANGED vars
  <2>1. UNCHANGED <<tree, run, edited, externals, dist>>
    BY <1>3 DEF Stop, MoveRepo, VerifySourceLock, DownloadBazel, UseCachedBazel, CheckBazel,
       ResolvePatches, CheckPatches, NextTargets, vars, disk, ghosts
  <2>2. \/ pc' = pc
        \/ pc' \notin Empty \cup Filling \cup Sealing
        \/ pc \in Empty /\ pc' \in Empty
        \/ pc = "build" /\ pc' = "accelerators"
        \/ pc = "accelerators" /\ pc' = "validate"
    BY <1>3 DEF Stop, MoveRepo, VerifySourceLock, DownloadBazel, UseCachedBazel, CheckBazel,
       ResolvePatches, CheckPatches, NextTargets, vars, Empty, Filling, Sealing
  <2>3. /\ pc # "idle" \/ outcome' = outcome \/ outcome' # "ok"
        /\ outcome' \in {outcome, "none", "failed"}
        /\ outcome' = "ok" => pc' = "idle"
    BY <1>1, <1>3 DEF Stop, MoveRepo, VerifySourceLock, DownloadBazel, UseCachedBazel, CheckBazel,
       ResolvePatches, CheckPatches, NextTargets, vars
  <2>. QED
    BY <2>1, <2>2, <2>3, AcceptQuiet
<1>4. CASE RemoveByHand \/ Start
  <2>1. pc' \in {"idle", "lock"} /\ outcome' = "none"
    BY <1>4 DEF RemoveByHand, Start
  <2>. QED
    BY <2>1, AcceptElsewhere DEF Empty, Filling, Sealing
<1>5. CASE Guards
  <2>1. pc' \in {"bazel", "idle"} /\ outcome' # "ok"
    BY <1>1, <1>5 DEF Guards
  <2>2. ASSUME pc' = "bazel"
        PROVE  dist'.components = <<>> /\ dist'.manifest = NoManifest
    <3>1. ~ dist.made /\ dist' = [dist EXCEPT !.made = TRUE]
      BY <1>5, <2>2, NoErrorMeansNot, UnionEmpty DEF Guards, MakeDist
    <3>2. dist = EmptyDist
      BY <3>1 DEF AcceptInv, TypeInv, TypeOK
    <3>. QED
      BY <3>1, <3>2 DEF EmptyDist
  <2>. QED
    BY <2>1, <2>2, AcceptElsewhere DEF Empty, Filling, Sealing
<1>6. CASE FetchSource \/ ApplyPatches
  <2>1. pc \in Empty /\ pc' \in {"resolve", "api", "idle"} /\ outcome' # "ok" /\ UNCHANGED dist
    BY <1>1, <1>6 DEF FetchSource, ApplyPatches, ApplySeries, Empty
  <2>. QED
    BY <1>1, <2>1, AcceptElsewhere DEF ManifestOfThisRun, Empty, Filling, Sealing
<1>7. CASE WriteProvenance \/ PackageAar
  <2>1. /\ UNCHANGED <<tree, run, edited, externals>>
        /\ dist'.components = dist.components /\ dist'.manifest = dist.manifest
    BY <1>2, <1>7 DEF WriteProvenance, PackageAar, ghosts, IsDist
  <2>2. pc \in Sealing /\ pc' \in Sealing \cup {"idle"} /\ outcome' \in {outcome, "failed"}
    BY <1>7 DEF WriteProvenance, PackageAar, Sealing
  <2>. QED
    BY <1>1, <2>1, <2>2, AcceptQuiet DEF Empty, Filling, Sealing
<1>. QED
  BY <1>3, <1>4, <1>5, <1>6, <1>7

(* Before the manifest an edit is remembered; after it, it changes no      *)
(* record.                                                                 *)
LEMMA AcceptStepEdit ==
  ASSUME AcceptInv, TypeInv', EditComponent \/ RestoreComponent
  PROVE  AcceptInv'
<1>1. /\ dist'.manifest = dist.manifest
      /\ dist'.components = dist.components \/ dist.components # <<>>
      /\ UNCHANGED <<tree, run, externals, pc, outcome>>
      /\ pc # "idle" /\ outcome # "ok"
      /\ edited' = edited \cup {IF dist.manifest = NoManifest THEN "before" ELSE "after"}
  BY EditStep DEF AcceptInv, TypeInv, DirectoryInv, Shapes
<1>2. ManifestOfThisRun'
  BY <1>1 DEF AcceptInv, ManifestOfThisRun
<1>3. GoodSoFar'
  BY <1>1 DEF AcceptInv, ManifestOfThisRun, GoodSoFar
<1>4. Good(dist.manifest.components)' <=> Good(dist.manifest.components)
  BY <1>1 DEF Good, AllContracted, Contracted, Origin, LicencesOfTree, SoundJar
<1>5. GoodManifest'
  BY <1>1, <1>4 DEF AcceptInv, GoodManifest
<1>. QED
  BY <1>1, <1>2, <1>3, <1>5 DEF AcceptInv, AcceptedIsContract

(* What a step inside Filling has to show. *)
LEMMA AcceptFilled ==
  ASSUME AcceptInv, TypeInv', pc' \in Filling \cup {"idle"}, outcome' # "ok",
         dist'.manifest = NoManifest, GoodSoFar'
  PROVE  AcceptInv'
  BY DEF AcceptInv, ManifestOfThisRun, GoodManifest, AcceptedIsContract, Empty, Filling, Sealing

(* The API that is built may be defective; the check of its contract lets  *)
(* only the sound one go on.                                               *)
LEMMA AcceptStepApi ==
  ASSUME AcceptInv, TypeInv', BuildApi \/ VerifyContract
  PROVE  AcceptInv'
<1> USE DEF Goto, Raise, CheckThen
<1>1. IsDist /\ (outcome = "ok" => pc = "idle") /\ ManifestOfThisRun
  BY DEF AcceptInv, TypeInv, DirectoryInv, Shapes
<1>2. CASE BuildApi
  <2>1. PICK jar \in Jars :
          dist' = [Graph EXCEPT !.components = <<"api">> :> package_api_aar(jar) @@ @]
    BY <1>2 DEF BuildApi, Jars
  <2>2. /\ pc = "api" /\ pc' = "contract" /\ UNCHANGED <<tree, outcome>>
        /\ externals' = externals \cup {tree.commit}
    BY <1>2 DEF BuildApi
  <2>3. dist.components = <<>> /\ dist.manifest = NoManifest
    BY <1>1, <2>2 DEF ManifestOfThisRun, Empty
  <2>4. /\ dist'.components = <<"api">> :> package_api_aar(jar) @@ <<>>
        /\ dist'.manifest = NoManifest
    BY <1>1, <2>1, <2>3 DEF Graph, IsDist
  <2>5. DOMAIN dist'.components = {<<"api">>} /\ dist'.components[<<"api">>] = package_api_aar(jar)
    BY <2>4 DEF @@, :>
  <2>6. NamesAreNames(dist.components)' /\ AllCompiled(dist.components)'
    BY <2>5, Disjoint DEF NamesAreNames, AllCompiled
  <2>7. Jars' = Jars
    BY <2>2 DEF Jars, SoundJar, DefectiveJars, Origin
  <2>8. GoodSoFar'
    BY <2>2, <2>5, <2>6, <2>7 DEF GoodSoFar
  <2>. QED
    BY <1>1, <2>2, <2>4, <2>8, AcceptFilled DEF Filling
<1>3. CASE VerifyContract
  <2>1. /\ pc = "contract" /\ pc' \in {"build", "idle"}
        /\ UNCHANGED <<tree, externals, dist, run, edited>> /\ outcome' # "ok"
    BY <1>1, <1>3 DEF VerifyContract, disk, ghosts
  <2>2. dist.manifest = NoManifest
    BY <1>1, <2>1 DEF ManifestOfThisRun, Filling
  <2>3. ASSUME pc' = "build", "before" \notin edited
        PROVE  dist.components[<<"api">>] = package_api_aar(SoundJar)
    <3>1. PICK jar \in Jars : dist.components[<<"api">>] = package_api_aar(jar)
      BY <2>1, <2>3 DEF AcceptInv, GoodSoFar, Filling
    <3>2. verify_runtime_contract(package_api_aar(jar)) = {}
      BY <1>3, <2>3, <3>1 DEF VerifyContract
    <3>. QED
      BY <3>1, <3>2, JarVerified
  <2>4. /\ NamesAreNames(dist.components)' <=> NamesAreNames(dist.components)
        /\ AllCompiled(dist.components)' <=> AllCompiled(dist.components)
        /\ Jars' = Jars /\ SoundJar' = SoundJar
    BY <2>1 DEF NamesAreNames, AllCompiled, Compiled, Origin, Jars, SoundJar, DefectiveJars
  <2>5. GoodSoFar'
    BY <2>1, <2>3, <2>4 DEF AcceptInv, GoodSoFar, Filling
  <2>. QED
    BY <2>1, <2>2, <2>5, AcceptFilled DEF Filling
<1>. QED
  BY <1>2, <1>3

(* A library is added that its audited actions compiled from this tree.    *)
LEMMA AcceptStepNative ==
  ASSUME AcceptInv, TypeInv', BuildNative
  PROVE  AcceptInv'
<1> USE DEF Goto, Raise, CheckThen
<1>1. IsDist /\ (outcome = "ok" => pc = "idle") /\ ManifestOfThisRun /\ todo \subseteq Abis \X Libraries
  BY DEF AcceptInv, TypeInv, TypeOK, DirectoryInv, Shapes, expected_native_paths
<1>2. /\ pc \in {"build", "accelerators"} /\ UNCHANGED <<tree, externals, run, edited>>
      /\ todo # {} /\ BuildLibrary(TRUE)
  BY DEF BuildNative, BuildLibrary, ghosts
<1>3. dist.manifest = NoManifest /\ outcome # "ok"
  BY <1>1, <1>2 DEF ManifestOfThisRun, Filling
<1>4. PICK p \in Abis \X Libraries :
        \E file \in {SoundLibrary(p[1], p[2])} \cup DefectiveLibraries(p[1], p[2]) :
          IF file.prebuilt
          THEN Raise(pc) /\ UNCHANGED dist
          ELSE /\ dist' = [Graph EXCEPT !.components = <<"native", p[1], p[2]>> :> file @@ @]
               /\ UNCHANGED <<pc, outcome>>
  <2> DEFINE p == CHOOSE q \in todo : TRUE
  <2>1. p \in Abis \X Libraries
    BY <1>1, <1>2
  <2>2. \E file \in {SoundLibrary(p[1], p[2])} \cup DefectiveLibraries(p[1], p[2]) :
          IF file.prebuilt
          THEN Raise(pc) /\ UNCHANGED dist
          ELSE /\ dist' = [Graph EXCEPT !.components = <<"native", p[1], p[2]>> :> file @@ @]
               /\ UNCHANGED <<pc, outcome>>
    BY <1>2 DEF BuildLibrary
  <2>. HIDE DEF p
  <2>. QED
    BY <2>1, <2>2
<1>5. PICK file \in {SoundLibrary(p[1], p[2])} \cup DefectiveLibraries(p[1], p[2]) :
        IF file.prebuilt
        THEN Raise(pc) /\ UNCHANGED dist
        ELSE /\ dist' = [Graph EXCEPT !.components = <<"native", p[1], p[2]>> :> file @@ @]
             /\ UNCHANGED <<pc, outcome>>
  BY <1>4
<1>6. CASE file.prebuilt
  <2>1. pc' = "idle" /\ outcome' = "failed" /\ dist' = dist
    BY <1>5, <1>6
  <2>. QED
    BY <2>1, AcceptElsewhere DEF Empty, Filling, Sealing
<1>7. CASE ~ file.prebuilt
  <2>1. /\ dist'.components = NativeName(p) :> file @@ dist.components
        /\ dist'.manifest = dist.manifest /\ UNCHANGED <<pc, outcome>>
    BY <1>1, <1>5, <1>7 DEF Graph, IsDist, NativeName
  <2>2. /\ DOMAIN dist'.components = {NativeName(p)} \cup DOMAIN dist.components
        /\ dist'.components[NativeName(p)] = file
        /\ \A n \in DOMAIN dist.components :
             n # NativeName(p) => dist'.components[n] = dist.components[n]
    BY <2>1 DEF @@, :>
  <2>3. Compiled(file, p[2])'
    <3>1. Compiled(file, p[2])
      BY <1>4, <1>7, LibraryOfTree
    <3>. QED
      BY <1>2, <3>1 DEF Compiled, Origin
  <2>4. ASSUME "before" \notin edited
        PROVE  /\ NamesAreNames(dist.components)'
               /\ AllCompiled(dist.components)'
               /\ <<"api">> \in DOMAIN dist'.components
               /\ dist'.components[<<"api">>] = package_api_aar(SoundJar)
    <3>1. /\ NamesAreNames(dist.components) /\ AllCompiled(dist.components)
          /\ <<"api">> \in DOMAIN dist.components
          /\ dist.components[<<"api">>] = package_api_aar(SoundJar)
      BY <1>2, <2>4 DEF AcceptInv, GoodSoFar, Filling
    <3>2. NamesAreNames(dist.components)'
      BY <1>4, <2>2, <3>1 DEF NamesAreNames
    <3>3. ASSUME NEW q \in Abis \X Libraries, NativeName(q) \in DOMAIN dist'.components
          PROVE  Compiled(dist.components[NativeName(q)], q[2])'
      <4>1. CASE q = p
        BY <2>2, <2>3, <4>1
      <4>2. CASE q # p
        <5>1. NativeName(q) # NativeName(p)
          BY <1>4, <4>2, Disjoint
        <5>2. Compiled(dist.components[NativeName(q)], q[2])
          BY <2>2, <3>1, <3>3, <5>1 DEF AllCompiled
        <5>3. dist'.components[NativeName(q)] = dist.components[NativeName(q)]
          BY <2>2, <3>3, <5>1
        <5>. QED
          BY <1>2, <5>2, <5>3 DEF Compiled, Origin
      <4>. QED
        BY <4>1, <4>2
    <3>4. <<"api">> # NativeName(p)
      BY Disjoint
    <3>5. AllCompiled(dist.components)'
      BY <3>3 DEF AllCompiled
    <3>. QED
      BY <2>2, <3>1, <3>2, <3>4, <3>5
  <2>5. Jars' = Jars /\ SoundJar' = SoundJar /\ SoundJar \in Jars
    BY <1>2 DEF Jars, SoundJar, DefectiveJars, Origin
  <2>6. GoodSoFar'
    BY <1>2, <2>1, <2>4, <2>5 DEF AcceptInv, GoodSoFar, Filling
  <2>. QED
    BY <1>2, <1>3, <2>1, <2>6, AcceptFilled DEF Filling
<1>. QED
  BY <1>6, <1>7

(* Verification and licences complete what the manifest will record. *)
LEMMA AcceptStepValidate ==
  ASSUME AcceptInv, TypeInv', ValidateNative
  PROVE  AcceptInv'
<1> USE DEF Goto, Raise, CheckThen
<1>1. IsDist /\ ManifestOfThisRun /\ run.mode \in Modes
  BY DEF AcceptInv, TypeInv, TypeOK, DirectoryInv, Shapes
<1>2. /\ pc = "validate" /\ pc' \in {"licences", "idle"} /\ UNCHANGED <<tree, externals, run, edited>>
      /\ dist'.components = dist.components /\ dist'.manifest = dist.manifest /\ outcome' # "ok"
  BY <1>1 DEF ValidateNative, Report, ghosts, IsDist, AcceptInv
<1>3. dist.manifest = NoManifest
  BY <1>1, <1>2 DEF ManifestOfThisRun, Filling
<1>4. CASE pc' = "idle"
  BY <1>2, <1>4, AcceptElsewhere DEF Empty, Filling, Sealing
<1>5. CASE pc' = "licences"
  <2>1. /\ \A p \in expected_native_paths(run.mode) \cap DOMAIN Native : Inspectable(Native[p])
        /\ verify_native_artifacts(Native, run.mode) = {}
    BY <1>5 DEF ValidateNative
  <2>2. ASSUME "before" \notin edited
        PROVE  /\ tree.commit \in externals
               /\ NamesAreNames(dist.components) /\ AllCompiled(dist.components)
               /\ <<"api">> \in DOMAIN dist.components
               /\ dist.components[<<"api">>] = package_api_aar(SoundJar)
               /\ AllContracted(dist.components)
    <3>1. /\ tree.commit \in externals
          /\ NamesAreNames(dist.components) /\ AllCompiled(dist.components)
          /\ <<"api">> \in DOMAIN dist.components
          /\ dist.components[<<"api">>] = package_api_aar(SoundJar)
      BY <1>2, <2>2 DEF AcceptInv, GoodSoFar, Filling
    <3>2. AllContracted(dist.components)
      BY <1>1, <2>1, <3>1, LibrariesVerified DEF AllContracted
    <3>. QED
      BY <3>1, <3>2
  <2>3. /\ NamesAreNames(dist.components)' <=> NamesAreNames(dist.components)
        /\ AllCompiled(dist.components)' <=> AllCompiled(dist.components)
        /\ AllContracted(dist.components)' <=> AllContracted(dist.components)
        /\ Jars' = Jars /\ SoundJar' = SoundJar /\ SoundJar \in Jars
    BY <1>2 DEF NamesAreNames, AllCompiled, Compiled, AllContracted, Contracted, Origin, Jars,
       SoundJar, DefectiveJars
  <2>4. GoodSoFar'
    BY <1>2, <1>5, <2>2, <2>3 DEF GoodSoFar
  <2>. QED
    BY <1>2, <1>3, <1>5, <2>4, AcceptFilled DEF Filling
<1>. QED
  BY <1>2, <1>4, <1>5

(* The licences collected include those of this tree, which was fetched.   *)
LEMMA AcceptStepLicences ==
  ASSUME AcceptInv, TypeInv', CollectLicences
  PROVE  AcceptInv'
<1> USE DEF Goto
<1>1. IsDist /\ ManifestOfThisRun /\ (outcome = "ok" => pc = "idle")
  BY DEF AcceptInv, TypeInv, DirectoryInv, Shapes
<1> DEFINE text(of) == [of |-> of, edited |-> FALSE]
           texts == <<"THIRD_PARTY_LICENSES.txt">> :> text(externals)
                    @@ <<"LICENSE-LiteRT.txt">> :> text({tree.commit})
                    @@ <<"THIRD_PARTY_NOTICES.md">> :> text({})
<1>2. /\ pc = "licences" /\ pc' = "manifest" /\ UNCHANGED <<tree, externals, run, edited, outcome>>
      /\ dist'.components = texts @@ dist.components /\ dist'.manifest = dist.manifest
  BY <1>1 DEF CollectLicences, AddComponents, ghosts, IsDist
<1>3. dist.manifest = NoManifest /\ outcome # "ok"
  BY <1>1, <1>2 DEF ManifestOfThisRun, Filling
<1>4. /\ DOMAIN texts = {<<"THIRD_PARTY_LICENSES.txt">>, <<"LICENSE-LiteRT.txt">>,
                         <<"THIRD_PARTY_NOTICES.md">>}
      /\ texts[<<"THIRD_PARTY_LICENSES.txt">>].of = externals
  BY DEF @@, :>
<1>. HIDE DEF texts
<1>5. /\ DOMAIN dist'.components = DOMAIN texts \cup DOMAIN dist.components
      /\ dist'.components[<<"THIRD_PARTY_LICENSES.txt">>].of = externals
      /\ \A n \in DOMAIN dist.components \ DOMAIN texts :
           dist'.components[n] = dist.components[n]
  BY <1>2, <1>4 DEF @@
<1>6. ASSUME "before" \notin edited
      PROVE  /\ tree.commit \in externals
             /\ NamesAreNames(dist.components) /\ AllCompiled(dist.components)
             /\ <<"api">> \in DOMAIN dist.components
             /\ dist.components[<<"api">>] = package_api_aar(SoundJar)
             /\ AllContracted(dist.components)
  BY <1>2, <1>6 DEF AcceptInv, GoodSoFar, Filling
<1>7. \A p \in Abis \X Libraries :
        NativeName(p) \in DOMAIN dist'.components <=> NativeName(p) \in DOMAIN dist.components
  BY <1>4, <1>5, Disjoint
<1>8. \A p \in Abis \X Libraries :
        NativeName(p) \in DOMAIN dist.components =>
          dist'.components[NativeName(p)] = dist.components[NativeName(p)]
  BY <1>4, <1>5, Disjoint
<1>9. ASSUME "before" \notin edited
      PROVE  /\ NamesAreNames(dist.components)' /\ AllCompiled(dist.components)'
             /\ AllContracted(dist.components)' /\ LicencesOfTree(dist.components)'
             /\ <<"api">> \in DOMAIN dist'.components
             /\ dist'.components[<<"api">>] = package_api_aar(SoundJar)
  <2>1. NamesAreNames(dist.components)'
    <3>1. \A n \in DOMAIN texts : n[1] # "native"
      BY <1>4
    <3>. QED
      BY <1>5, <1>6, <1>9, <3>1 DEF NamesAreNames
  <2>2. AllCompiled(dist.components)'
    BY <1>2, <1>6, <1>7, <1>8, <1>9 DEF AllCompiled, Compiled, Origin
  <2>3. AllContracted(dist.components)'
    <3>1. expected_native_paths(run.mode) \subseteq Abis \X Libraries
      BY DEF expected_native_paths
    <3>. QED
      BY <1>2, <1>6, <1>7, <1>8, <1>9, <3>1 DEF AllContracted, Contracted, Origin
  <2>4. LicencesOfTree(dist.components)'
    BY <1>2, <1>5, <1>6, <1>9 DEF LicencesOfTree
  <2>5. <<"api">> \notin DOMAIN texts
    BY <1>4
  <2>. QED
    BY <1>5, <1>6, <1>9, <2>1, <2>2, <2>3, <2>4, <2>5
<1>10. Jars' = Jars /\ SoundJar' = SoundJar /\ SoundJar \in Jars
  BY <1>2 DEF Jars, SoundJar, DefectiveJars, Origin
<1>11. GoodSoFar'
  BY <1>2, <1>6, <1>9, <1>10 DEF GoodSoFar
<1>. QED
  BY <1>2, <1>3, <1>11, AcceptFilled DEF Filling

(* The manifest records good components if nothing was edited before it.   *)
LEMMA AcceptStepManifest ==
  ASSUME AcceptInv, TypeInv', WriteManifest
  PROVE  AcceptInv'
<1> USE DEF Goto
<1>1. IsDist /\ (outcome = "ok" => pc = "idle") /\ run.mode \in Modes
  BY DEF AcceptInv, TypeInv, TypeOK, DirectoryInv, Shapes
<1>2. /\ pc = "manifest" /\ pc' = "provenance" /\ UNCHANGED <<tree, run, edited, outcome>>
      /\ dist'.manifest.components = dist.components
      /\ dist'.manifest.mode = run.mode
  BY <1>1 DEF WriteManifest, ghosts, IsDist
<1>3. ManifestOfThisRun'
  <2>1. dist'.manifest # NoManifest
    BY <1>1, <1>2 DEF NoManifest, Modes
  <2>. QED
    BY <1>2, <2>1 DEF ManifestOfThisRun, Empty, Filling
<1>4. "before" \notin edited => Good(dist.components)
  BY <1>2 DEF AcceptInv, GoodSoFar, Good, Filling
<1>5. Good(dist.components) <=> Good(dist.manifest.components)'
  BY <1>2 DEF Good, AllContracted, Contracted, Origin, LicencesOfTree, SoundJar
<1>6. GoodManifest'
  BY <1>2, <1>4, <1>5 DEF GoodManifest
<1>7. GoodSoFar' /\ outcome' # "ok"
  BY <1>1, <1>2 DEF GoodSoFar, Filling
<1>. QED
  BY <1>3, <1>6, <1>7 DEF AcceptInv, AcceptedIsContract

(* The audit sees to it that what was recorded is what is there.           *)
LEMMA AcceptStepAudit ==
  ASSUME AcceptInv, TypeInv', AuditReleaseInputs
  PROVE  AcceptInv'
<1> USE DEF Goto
<1>1. IsDist /\ ManifestOfThisRun
  BY DEF AcceptInv, TypeInv, DirectoryInv, Shapes
<1>2. /\ pc = "audit" /\ pc' = "idle" /\ UNCHANGED <<tree, run, edited>>
      /\ dist'.components = dist.components /\ dist'.manifest = dist.manifest
  BY <1>1 DEF AuditReleaseInputs, Audit, Report, ghosts, IsDist
<1>3. CASE outcome' # "ok"
  BY <1>2, <1>3, AcceptElsewhere DEF Empty, Filling, Sealing
<1>4. CASE outcome' = "ok"
  <2>1. /\ audit_component_dir(dist.components, dist.manifest, repo.lock, run.mode) = {}
        /\ audit_source_placeholders(tree) = {}
    BY <1>4, UnionEmpty DEF AuditReleaseInputs, Audit, AuditErrors
  <2>2. tree.binaries = "pointers"
    BY <2>1, NoErrorMeansNot DEF audit_source_placeholders
  <2>3. /\ ErrorIf(DOMAIN dist.components # expected_component_paths(run.mode),
                   "component file drift") = {}
        /\ ErrorIf(dist.manifest.components # dist.components, "manifest hashes") = {}
    BY <2>1, UnionEmpty DEF audit_component_dir
  <2>4. /\ DOMAIN dist.components = expected_component_paths(run.mode)
        /\ dist.manifest.components = dist.components
    BY <2>3, NoErrorMeansNot
  <2>5. DOMAIN Native = expected_native_paths(run.mode)
    <3>1. DOMAIN Native =
            {<<n[2], n[3]>> : n \in {c \in expected_component_paths(run.mode) : c[1] = "native"}}
      BY <2>4 DEF Native
    <3>2. {c \in expected_component_paths(run.mode) : c[1] = "native"}
            = {NativeName(p) : p \in expected_native_paths(run.mode)}
      BY DEF expected_component_paths, NativeName
    <3>3. \A p \in expected_native_paths(run.mode) :
            p = <<p[1], p[2]>> /\ p[1] = NativeName(p)[2] /\ p[2] = NativeName(p)[3]
      BY DEF expected_native_paths, NativeName
    <3>. QED
      BY <3>1, <3>2, <3>3
  <2>6. \A p \in DOMAIN Native : Native[p] = dist.components[NativeName(p)]
    BY DEF Native, NativeName
  <2>7. "before" \notin edited => Good(dist.manifest.components)
    BY <1>2 DEF AcceptInv, GoodManifest, Sealing
  <2>8. "before" \notin edited =>
          /\ DOMAIN Native = expected_native_paths(run.mode)
          /\ \A p \in DOMAIN Native : Contracted(Native[p], p[1], p[2])
          /\ dist.components[<<"api">>] = package_api_aar(SoundJar)
          /\ tree.commit \in dist.components[<<"THIRD_PARTY_LICENSES.txt">>].of
          /\ tree.binaries = "pointers"
    BY <2>2, <2>4, <2>5, <2>6, <2>7 DEF Good, AllContracted, LicencesOfTree
  <2>9. Native' = Native /\ SoundJar' = SoundJar
    BY <1>2 DEF Native, SoundJar, Origin
  <2>10. (\A p \in DOMAIN Native : Contracted(Native[p], p[1], p[2]))'
           <=> \A p \in DOMAIN Native : Contracted(Native[p], p[1], p[2])
    BY <1>2, <2>9 DEF Contracted, Origin
  <2>11. AcceptedIsContract'
    BY <1>2, <2>8, <2>9, <2>10 DEF AcceptedIsContract
  <2>12. Good(dist.manifest.components)' <=> Good(dist.manifest.components)
    BY <1>2 DEF Good, AllContracted, Contracted, Origin, LicencesOfTree, SoundJar
  <2>13. GoodManifest' /\ GoodSoFar' /\ ManifestOfThisRun'
    BY <1>2, <2>7, <2>12 DEF GoodManifest, GoodSoFar, ManifestOfThisRun, Empty, Filling, Sealing
  <2>. QED
    BY <1>2, <2>11, <2>13 DEF AcceptInv
<1>. QED
  BY <1>3, <1>4

(* Every step keeps what is known of the components.                       *)
LEMMA AcceptStep == AcceptInv /\ [Next]_vars => AcceptInv'
<1> SUFFICES ASSUME AcceptInv, [Next]_vars
             PROVE  AcceptInv'
  OBVIOUS
<1>1. TypeInv'
  BY TypeStep DEF AcceptInv
<1>. QED
  BY <1>1, AcceptStepEarly, AcceptStepEdit, AcceptStepApi, AcceptStepNative, AcceptStepValidate,
     AcceptStepLicences, AcceptStepManifest, AcceptStepAudit DEF Next

(* What a run that succeeds leaves is what the contract asks, compiled     *)
(* from the tree with its licences, for every set of ABIs and checkouts,   *)
(* whatever a toolchain puts out and whoever edits a recorded component    *)
(* (verify_native_artifacts.py:154-298, verify-runtime-contract.py:42-170, *)
(* audit_release_inputs.py:128-241).                                       *)
THEOREM AcceptedIsSound == Spec => []AcceptedIsContract
<1>1. AcceptInv => AcceptedIsContract
  BY DEF AcceptInv
<1>. QED
  BY <1>1, AcceptInit, AcceptStep, PTL DEF Spec
=============================================================================
