--------------------------- MODULE CompleteBuild ---------------------------
(***************************************************************************)
(* scripts/build-complete-runtime.sh with the scripts it calls, run again  *)
(* and again on one checkout.  A run may stop at any step: a tool fails,   *)
(* or somebody kills it.  What it has written stays on disk: the cached    *)
(* Bazel, the source tree, the Bazel output, the dist directory.  While a  *)
(* run is going on the checkout may move to other contents, for most       *)
(* scripts read the lock and the patches anew, and somebody may edit a     *)
(* component.                                                              *)
(***************************************************************************)
EXTENDS RuntimeContract

CONSTANTS
  Repositories, (* contents of the checkout: the commit of the .env file,  *)
                (* the lock, the patch files, whether git status is clean, *)
                (* whether git tracks a binary                             *)
  Fits,         (* <<commit, series>> |-> "exact", "offset" or "no"        *)
  TextSeries,   (* the series without a binary patch                       *)
  RequireClean, (* whether BSS_REQUIRE_CLEAN_BUILD is 1                    *)
  Defects,      (* what may be wrong with a library Bazel puts out: names  *)
                (* of DefectiveLibraries                                   *)
  MaxRuns,      (* bound: runs of the script                               *)
  MaxMoves,     (* bound: moves of the checkout                            *)
  MaxFaults     (* bound: defective outputs, edits and bad downloads       *)

ASSUME BoundAssumption == {MaxRuns, MaxMoves, MaxFaults} \subseteq Nat
ASSUME DefectAssumption ==
  Defects \subseteq {"elf", "machine", "androidApi", "soname", "needed", "symbols", "jni",
                     "prebuilt"}
ASSUME FitAssumption ==
  \A r, s \in Repositories : Fits[<<r.env, s.patches>>] \in {"exact", "offset", "no"}

VARIABLES
  repo,       (* the checkout                                              *)
  bazel,      (* the file under Bazel's cached name                        *)
  tree,       (* the source tree                                           *)
  externals,  (* commits whose dependencies the Bazel output holds         *)
  dist,       (* the dist directory                                        *)
  run,        (* what this run was started with                            *)
  pc, todo,
  outcome,    (* how the last run ended                                    *)
  runs, moves, faults,
  early,      (* the checkout moved after the patches were resolved and    *)
              (* before the component manifest was written                 *)
  edited,     (* when a component, or the AAR, was edited: before or after *)
              (* the manifest was written                                  *)
  writers     (* the runs that wrote into the tree and into dist           *)

disk == <<bazel, tree, externals, dist>>
ghosts == <<early, edited>>
counters == <<runs, moves, faults>>
vars == <<repo, disk, run, pc, todo, outcome, counters, ghosts, writers>>

NoTree == [commit |-> "none", series |-> "none", binaries |-> "none"]
EmptyTree == [NoTree EXCEPT !.binaries = "pointers"]
NoLock == [commit |-> "none", series |-> "none"]
NoManifest == [components |-> <<>>, mode |-> "none", lock |-> NoLock]
NoProvenance == [commit |-> "none", clean |-> FALSE]
EmptyDist ==
  [made |-> FALSE, graph |-> FALSE, components |-> <<>>, manifest |-> NoManifest,
   provenance |-> NoProvenance, aar |-> <<>>, reports |-> <<>>]

Init ==
  /\ repo \in Repositories
  /\ bazel = "absent"
  /\ tree = NoTree
  /\ externals = {}
  /\ dist = EmptyDist
  /\ run = [mode |-> "complete", env |-> "none"]
  /\ pc = "idle"
  /\ todo = {}
  /\ outcome = "none"
  /\ runs = 0 /\ moves = 0 /\ faults = 0
  /\ early = FALSE /\ edited = {}
  /\ writers = [tree |-> {}, dist |-> {}]

Goto(from, to) == pc = from /\ pc' = to

(* set -e: a script that exits with an error ends the run.                 *)
Raise(from) == Goto(from, "idle") /\ outcome' = "failed"
CheckThen(from, to, errors) ==
  /\ pc = from
  /\ IF errors = {} THEN pc' = to /\ UNCHANGED outcome ELSE Raise(from)

Fault == faults < MaxFaults /\ faults' = faults + 1
WriteTree == writers' = [writers EXCEPT !.tree = @ \cup {runs}]
WriteDist == writers' = [writers EXCEPT !.dist = @ \cup {runs}]

AddComponents(files) == dist' = [dist EXCEPT !.components = files @@ @]
Native ==
  [p \in {<<n[2], n[3]>> : n \in {c \in DOMAIN dist.components : c[1] = "native"}} |->
     dist.components[<<"native", p[1], p[2]>>]]

----------------------------------------------------------------------------
(* Around the run *)

(* A run that is stopped leaves everything as it is.                       *)
Stop ==
  /\ pc # "idle"
  /\ pc' = "idle"
  /\ outcome' = "failed"
  /\ UNCHANGED <<repo, disk, run, todo, counters, ghosts, writers>>

MoveRepo ==
  /\ repo' \in Repositories \ {repo}
  /\ moves < MaxMoves
  /\ moves' = moves + 1
  /\ early' = (early \/ pc \in {"check", "apply", "api", "contract", "build", "accelerators",
                                "validate", "licences", "manifest"})
  /\ outcome' = "none"
  /\ UNCHANGED <<disk, run, pc, todo, runs, faults, edited, writers>>

(* The JAR in the API's archive, or any other file, has other bytes or its *)
(* own.                                                                    *)
WithEdit(n, file, changed) ==
  IF n = <<"api">> THEN [file EXCEPT ![<<"classes.jar">>].edited = changed]
  ELSE [file EXCEPT !.edited = changed]

(* Of a component, or of what was packaged from one.                       *)
SetBytes(changed) ==
  /\ pc # "idle"
  /\ \/ \E n \in DOMAIN dist.components :
          dist' = [dist EXCEPT !.components[n] = WithEdit(n, @, changed)]
     \/ \E n \in DOMAIN dist.aar \ {<<"AndroidManifest.xml">>, BuildManifestName} :
          dist' = [dist EXCEPT !.aar[n] = WithEdit(n, @, changed)]
  /\ dist' # dist
  /\ edited' = edited \cup {IF dist.manifest = NoManifest THEN "before" ELSE "after"}
  /\ UNCHANGED <<repo, bazel, tree, externals, run, pc, todo, outcome, runs, moves, early,
                 writers>>

EditComponent == SetBytes(TRUE) /\ Fault

RestoreComponent == SetBytes(FALSE) /\ UNCHANGED faults

(* What a failed run left is removed by hand, one directory at a time.     *)
RemoveByHand ==
  /\ pc = "idle"
  /\ \/ /\ tree # NoTree
        /\ tree' = NoTree
        /\ writers' = [writers EXCEPT !.tree = {}]
        /\ UNCHANGED <<bazel, dist>>
     \/ /\ dist # EmptyDist
        /\ dist' = EmptyDist
        /\ writers' = [writers EXCEPT !.dist = {}]
        /\ UNCHANGED <<bazel, tree>>
     \/ /\ bazel # "absent"
        /\ bazel' = "absent"
        /\ UNCHANGED <<tree, dist, writers>>
  /\ outcome' = "none"
  /\ UNCHANGED <<repo, externals, run, pc, todo, counters, ghosts>>

----------------------------------------------------------------------------
(* Before anything is compiled *)

Start ==
  /\ runs < MaxRuns
  /\ Goto("idle", "lock")
  /\ \E mode \in Modes : run' = [mode |-> mode, env |-> repo.env]
  /\ runs' = runs + 1
  /\ outcome' = "none"
  /\ early' = FALSE /\ edited' = {}
  /\ todo' = {}
  /\ UNCHANGED <<repo, disk, moves, faults, writers>>

(* verify_complete_source_lock.py, in complete mode with the GPU source.   *)
VerifySourceLock ==
  /\ CheckThen("lock", "guards",
       ErrorIf(repo.patches # repo.lock.series, "patch series")
       \cup ErrorIf(run.mode = "complete" /\ ~ repo.lock.gpu, "GPU source"))
  /\ UNCHANGED <<repo, disk, run, todo, counters, ghosts, writers>>

MakeDist ==
  /\ dist' = [dist EXCEPT !.made = TRUE]
  /\ WriteDist

(* Mutant: a dist directory that is not empty is used as it is. *)
GuardsTreeOnly ==
  /\ CheckThen("guards", "bazel", ErrorIf(tree # NoTree, "source exists"))
  /\ IF pc' = "bazel" THEN MakeDist ELSE UNCHANGED <<dist, writers>>
  /\ UNCHANGED <<repo, bazel, tree, externals, run, todo, counters, ghosts>>

(* The source tree must not exist and dist must be empty; then dist and    *)
(* its two report files are created.                                       *)
Guards ==
  /\ CheckThen("guards", "bazel",
       ErrorIf(tree # NoTree, "source exists") \cup ErrorIf(dist.made, "dist not empty"))
  /\ IF pc' = "bazel" THEN MakeDist ELSE UNCHANGED <<dist, writers>>
  /\ UNCHANGED <<repo, bazel, tree, externals, run, todo, counters, ghosts>>

(* curl writes to the final name.  It may break off or be given another    *)
(* file; a run that is stopped meanwhile leaves what has arrived.          *)
DownloadBazel ==
  /\ bazel = "absent"
  /\ \/ /\ bazel' = "pinned"
        /\ Goto("bazel", "sha256")
        /\ UNCHANGED <<faults, outcome>>
     \/ /\ bazel' = "wrong"
        /\ Fault
        /\ \/ Goto("bazel", "sha256") /\ UNCHANGED outcome
           \/ Raise("bazel")
  /\ UNCHANGED <<repo, tree, externals, dist, run, todo, runs, moves, ghosts, writers>>

UseCachedBazel ==
  /\ bazel # "absent"
  /\ Goto("bazel", "sha256")
  /\ UNCHANGED <<repo, disk, run, todo, outcome, counters, ghosts, writers>>

(* Mutant: the cached file is run as it is. *)
RunAnyBazel ==
  /\ Goto("sha256", "fetch")
  /\ UNCHANGED <<repo, disk, run, todo, outcome, counters, ghosts, writers>>

CheckBazel ==
  /\ CheckThen("sha256", "fetch", ErrorIf(bazel # "pinned", "sha256sum"))
  /\ UNCHANGED <<repo, disk, run, todo, counters, ghosts, writers>>

(* git init makes the tree and git fetch fills it with the commit in the   *)
(* .env file, or fails and leaves it empty.  A git with LFS filters would  *)
(* replace the pointers of prebuilt binaries by the binaries.              *)
FetchSource ==
  /\ \/ /\ Goto("fetch", "resolve")
        /\ tree' = [commit |-> run.env, series |-> "none", binaries |-> "pointers"]
        /\ UNCHANGED <<faults, outcome>>
     \/ /\ Goto("fetch", "resolve")
        /\ tree' = [commit |-> run.env, series |-> "none", binaries |-> "materialized"]
        /\ Fault
        /\ UNCHANGED outcome
     \/ /\ Raise("fetch")
        /\ tree' = EmptyTree
        /\ UNCHANGED faults
  /\ WriteTree
  /\ UNCHANGED <<repo, bazel, externals, dist, run, todo, runs, moves, ghosts>>

----------------------------------------------------------------------------
(* apply-complete-runtime-patches.py *)

(* read_lock, resolve_patches and the checks of the worktree.              *)
ResolvePatches ==
  /\ CheckThen("resolve", "check",
       ErrorIf(repo.patches # repo.lock.series, "patch series")
       \cup ErrorIf(tree.commit # repo.lock.commit, "commit")
       \cup ErrorIf(tree.series # "none", "worktree not clean"))
  /\ UNCHANGED <<repo, disk, run, todo, counters, ghosts, writers>>

FitOf(series) == Fits[<<tree.commit, series>>]

(* git apply --check, then reject_fuzzy_application.                       *)
CheckPatches ==
  /\ CheckThen("check", "apply", ErrorIf(FitOf(repo.patches) # "exact", "preflight"))
  /\ UNCHANGED <<repo, disk, run, todo, counters, ghosts, writers>>

ApplySeries(rejected) ==
  /\ pc = "apply"
  /\ tree' = IF FitOf(repo.patches) = "no" THEN tree
             ELSE [tree EXCEPT !.series = repo.patches]
  /\ CheckThen("apply", "api", ErrorIf(FitOf(repo.patches) \in rejected, "apply"))
  /\ UNCHANGED <<repo, bazel, externals, dist, run, todo, counters, ghosts, writers>>

(* Mutant: an offset is not rejected once the preflight has passed. *)
ApplyPatchesAnyhow == ApplySeries({"no"})

(* git apply --index reads the patch files again; an offset is rejected    *)
(* when the tree has been changed.                                         *)
ApplyPatches == ApplySeries({"no", "offset"})

----------------------------------------------------------------------------
(* Bazel and what is copied from it *)

Origin == [commit |-> tree.commit, series |-> tree.series]

SoundLibrary(abi, library) ==
  [elf |-> TRUE, abi |-> abi, androidApi |-> AndroidApi, soname |-> library,
   needed |-> Needed(library),
   symbols |-> RequiredSymbols(library) \cup IF ExportsJni(library) THEN JniExports ELSE {},
   prebuilt |-> FALSE, from |-> Origin, edited |-> FALSE]

(* What a toolchain or a build rule that went wrong may put out instead.   *)
DefectiveLibraries(abi, library) ==
  LET sound == SoundLibrary(abi, library)
      defective ==
        [elf |-> [sound EXCEPT !.elf = FALSE],
         machine |-> [sound EXCEPT !.abi = "other"],
         androidApi |-> [sound EXCEPT !.androidApi = @ + 1],
         soname |-> [sound EXCEPT !.soname = "other"],
         needed |-> [sound EXCEPT !.needed = {}],
         symbols |-> [sound EXCEPT !.symbols = {}],
         jni |-> [sound EXCEPT !.symbols = @ \cup {<<"Java_", "other">>}],
         prebuilt |-> [sound EXCEPT !.prebuilt = TRUE]]
  IN {defective[d] : d \in Defects}

SoundJar ==
  [members |-> RequiredMembers \cup BssExtensionMembers, target |-> JvmTarget,
   classes |-> {"CompiledModel"}, tree |-> Origin, edited |-> FALSE]
DefectiveJars ==
  {[SoundJar EXCEPT !.members = RequiredMembers], [SoundJar EXCEPT !.target = @ + 1],
   [SoundJar EXCEPT !.classes = @ \cup ForbiddenClasses]}

Graph == [dist EXCEPT !.graph = TRUE]

(* The API is built, its action graph audited and recorded, the JAR        *)
(* packaged.                                                               *)
BuildApi ==
  /\ Goto("api", "contract")
  /\ \E jar \in {SoundJar} \cup DefectiveJars :
       /\ IF jar = SoundJar THEN UNCHANGED faults ELSE Fault
       /\ dist' = [Graph EXCEPT !.components = <<"api">> :> package_api_aar(jar) @@ @]
  /\ externals' = externals \cup {tree.commit}
  /\ WriteDist
  /\ UNCHANGED <<repo, bazel, tree, run, todo, outcome, runs, moves, ghosts>>

VerifyContract ==
  /\ CheckThen("contract", "build", verify_runtime_contract(dist.components[<<"api">>]))
  /\ todo' = Abis \X {"liblitert_jni.so", "libLiteRt.so"}
  /\ UNCHANGED <<repo, disk, run, counters, ghosts, writers>>

(* The next library: bazel_build, audit_bazel_action_inputs, which fails   *)
(* if the actions read a prebuilt binary, record_dependency_graph and      *)
(* copy_target_output.                                                     *)
BuildLibrary(audited) ==
  /\ todo # {}
  /\ LET p == CHOOSE q \in todo : TRUE
         sound == SoundLibrary(p[1], p[2])
     IN \E file \in {sound} \cup DefectiveLibraries(p[1], p[2]) :
         /\ IF file = sound THEN UNCHANGED faults ELSE Fault
         /\ IF audited /\ file.prebuilt
            THEN /\ Raise(pc)
                 /\ UNCHANGED <<dist, todo, writers>>
            ELSE /\ dist' = [Graph EXCEPT !.components =
                                            <<"native", p[1], p[2]>> :> file @@ @]
                 /\ todo' = todo \ {p}
                 /\ WriteDist
                 /\ UNCHANGED <<pc, outcome>>

(* Mutant: the actions are not searched for prebuilt binaries. *)
BuildNativeUnaudited ==
  /\ pc \in {"build", "accelerators"}
  /\ BuildLibrary(FALSE)
  /\ UNCHANGED <<repo, bazel, tree, externals, run, runs, moves, ghosts>>

BuildNative ==
  /\ pc \in {"build", "accelerators"}
  /\ BuildLibrary(TRUE)
  /\ UNCHANGED <<repo, bazel, tree, externals, run, runs, moves, ghosts>>

(* Mutant: the accelerators are built in every mode. *)
NextTargetsInAnyMode ==
  /\ todo = {}
  /\ \/ /\ Goto("build", "accelerators")
        /\ todo' = GpuAbis \X {Accelerator}
     \/ /\ Goto("accelerators", "validate")
        /\ UNCHANGED todo
  /\ UNCHANGED <<repo, disk, run, outcome, counters, ghosts, writers>>

(* After the libraries of every ABI come the accelerators, if at all.      *)
NextTargets ==
  /\ todo = {}
  /\ \/ /\ Goto("build", "accelerators")
        /\ todo' = IF run.mode = "complete" THEN GpuAbis \X {Accelerator} ELSE {}
     \/ /\ Goto("accelerators", "validate")
        /\ UNCHANGED todo
  /\ UNCHANGED <<repo, disk, run, outcome, counters, ghosts, writers>>

----------------------------------------------------------------------------
(* Validation, manifest, provenance *)

Report(name, errors) == [dist EXCEPT !.reports = name :> errors @@ @]

(* verify_native_artifacts.py: no report if a file cannot be inspected.    *)
ValidateNative ==
  /\ pc = "validate"
  /\ LET inspected == expected_native_paths(run.mode) \cap DOMAIN Native
         errors == verify_native_artifacts(Native, run.mode)
     IN IF \E p \in inspected : ~ Inspectable(Native[p])
        THEN /\ Raise("validate")
             /\ UNCHANGED <<dist, writers>>
        ELSE /\ CheckThen("validate", "licences", errors)
             /\ dist' = Report("native-validation.json", errors)
             /\ WriteDist
  /\ UNCHANGED <<repo, bazel, tree, externals, run, todo, counters, ghosts>>

(* collect_licenses.py takes the licences of every repository the Bazel    *)
(* output holds; LICENSE is the source tree's, the notices the checkout's. *)
CollectLicences ==
  /\ Goto("licences", "manifest")
  /\ LET text(of) == [of |-> of, edited |-> FALSE]
     IN AddComponents(<<"THIRD_PARTY_LICENSES.txt">> :> text(externals)
                      @@ <<"LICENSE-LiteRT.txt">> :> text({tree.commit})
                      @@ <<"THIRD_PARTY_NOTICES.md">> :> text({}))
  /\ WriteDist
  /\ UNCHANGED <<repo, bazel, tree, externals, run, todo, outcome, counters, ghosts>>

WriteManifest ==
  /\ Goto("manifest", "provenance")
  /\ dist' = [dist EXCEPT !.manifest = [components |-> dist.components,
                                        mode |-> run.mode, lock |-> Sources(repo.lock)]]
  /\ WriteDist
  /\ UNCHANGED <<repo, bazel, tree, externals, run, todo, outcome, counters, ghosts>>

ProvenanceErrors(commitChecked) ==
  ErrorIf(RequireClean /\ ~ repo.clean, "not clean")
  \cup ErrorIf(commitChecked /\ tree.commit # repo.lock.commit, "commit")
  \cup ErrorIf(~ dist.graph, "dependency graph")

(* Mutant: the commit of the tree is not compared with the lock. *)
WriteProvenanceUnchecked ==
  /\ CheckThen("provenance", "package", ProvenanceErrors(FALSE))
  /\ IF pc' = "package"
     THEN /\ dist' = [dist EXCEPT !.provenance = [commit |-> tree.commit,
                                                  clean |-> repo.clean]]
          /\ WriteDist
     ELSE UNCHANGED <<dist, writers>>
  /\ UNCHANGED <<repo, bazel, tree, externals, run, todo, counters, ghosts>>

WriteProvenance ==
  /\ CheckThen("provenance", "package", ProvenanceErrors(TRUE))
  /\ IF pc' = "package"
     THEN /\ dist' = [dist EXCEPT !.provenance = [commit |-> tree.commit,
                                                  clean |-> repo.clean]]
          /\ WriteDist
     ELSE UNCHANGED <<dist, writers>>
  /\ UNCHANGED <<repo, bazel, tree, externals, run, todo, counters, ghosts>>

----------------------------------------------------------------------------
(* The AAR and the last audit *)

TextNames ==
  {<<"META-INF", "LICENSE-LiteRT.txt">>, <<"META-INF", "THIRD_PARTY_LICENSES.txt">>,
   <<"META-INF", "THIRD_PARTY_NOTICES.md">>, <<"consumer-rules.pro">>}

Texts ==
  [n \in TextNames |-> IF n[1] = "META-INF" THEN dist.components[<<n[2]>>]
                       ELSE [of |-> {}, edited |-> FALSE]]

(* package_complete_aar.py, in complete mode only.                         *)
PackageAar ==
  /\ pc = "package"
  /\ IF run.mode = "complete"
     THEN /\ CheckThen("package", "audit",
               ErrorIf(~ ReadableApi(dist.components[<<"api">>]), "API AAR")
               \cup ErrorIf(~ ReadableNative(Native), "native libraries"))
          /\ IF pc' = "audit"
             THEN /\ dist' = [dist EXCEPT !.aar =
                                package_complete_aar(dist.components[<<"api">>], Native, Texts,
                                                     repo.lock)]
                  /\ WriteDist
             ELSE UNCHANGED <<dist, writers>>
     ELSE /\ Goto("package", "audit")
          /\ UNCHANGED <<dist, writers, outcome>>
  /\ UNCHANGED <<repo, bazel, tree, externals, run, todo, counters, ghosts>>

Candidate == IF run.mode = "complete" THEN dist.aar ELSE dist.components[<<"api">>]

AuditErrors(componentErrors) ==
  audit_repository([binaries |-> repo.binaries, textual |-> repo.patches \in TextSeries])
  \cup audit_source_placeholders(tree)
  \cup componentErrors
  \cup audit_candidate(Candidate, dist.components, run.mode)

(* The report is written whatever it says.                                 *)
Audit(errors) ==
  /\ Goto("audit", "idle")
  /\ dist' = Report("release-input-audit.json", errors)
  /\ outcome' = IF errors = {} THEN "ok" ELSE "failed"
  /\ WriteDist
  /\ UNCHANGED <<repo, bazel, tree, externals, run, todo, counters, ghosts>>

(* Mutant: the components are not compared with their manifest. *)
AuditReleaseInputsLoosely == Audit(AuditErrors({}))

AuditReleaseInputs ==
  Audit(AuditErrors(audit_component_dir(dist.components, dist.manifest, repo.lock, run.mode)))

Next ==
  \/ Stop \/ MoveRepo \/ EditComponent \/ RestoreComponent \/ RemoveByHand
  \/ Start \/ VerifySourceLock \/ Guards \/ DownloadBazel \/ UseCachedBazel \/ CheckBazel
  \/ FetchSource \/ ResolvePatches \/ CheckPatches \/ ApplyPatches
  \/ BuildApi \/ VerifyContract \/ BuildNative \/ NextTargets
  \/ ValidateNative \/ CollectLicences \/ WriteManifest \/ WriteProvenance
  \/ PackageAar \/ AuditReleaseInputs

Spec == Init /\ [][Next]_vars

----------------------------------------------------------------------------
(* Properties *)

(* The small state keeps its type; only libraries of the mode are built,   *)
(* and nothing lies in a dist directory that no run has made.              *)
TypeOK ==
  /\ repo \in Repositories
  /\ bazel \in {"absent", "wrong", "pinned"}
  /\ pc \in {"idle", "lock", "guards", "bazel", "sha256", "fetch", "resolve", "check", "apply",
             "api", "contract", "build", "accelerators", "validate", "licences", "manifest",
             "provenance", "package", "audit"}
  /\ run.mode \in Modes
  /\ todo \subseteq expected_native_paths(run.mode)
  /\ dist # EmptyDist => dist.made
  /\ outcome \in {"none", "failed", "ok"}
  /\ runs \in 0..MaxRuns /\ moves \in 0..MaxMoves /\ faults \in 0..MaxFaults
  /\ edited \subseteq {"before", "after"} /\ early \in BOOLEAN

(* A Bazel that is not the pinned one never runs, not even after a         *)
(* download that an earlier run left behind half done.                     *)
OnlyPinnedBazelRuns ==
  pc \notin {"idle", "lock", "guards", "bazel", "sha256"} => bazel = "pinned"

(* Nothing is compiled from a tree whose patches needed an offset, though  *)
(* git apply has changed the tree before the offset is seen and the        *)
(* checkout may move between the preflight and the application.            *)
NoInexactTreeIsBuilt ==
  pc \in {"api", "contract", "build", "accelerators"} => FitOf(tree.series) = "exact"

(* The tree and the dist directory of a run that succeeds were written by  *)
(* that run alone, whatever earlier runs left.                             *)
OneRunPerDirectory ==
  outcome = "ok" => writers.tree = {runs} /\ writers.dist = {runs}

(* What the contract asks of a library of this tree.                       *)
Contracted(file, abi, library) ==
  /\ file.elf /\ file.abi = abi /\ file.androidApi = AndroidApi
  /\ file.soname \in Sonames(library) /\ file.needed = Needed(library)
  /\ RequiredSymbols(library) \subseteq file.symbols
  /\ ExportsJni(library) => file.symbols = JniExports
  /\ ~ file.prebuilt /\ file.from = Origin

(* A run that succeeds leaves exactly the libraries of its mode, each      *)
(* compiled from this tree and as the contract wants it, an API with its   *)
(* members and no forbidden class, and the licences of what was compiled;  *)
(* no prebuilt binary was in the tree.  An edit that came before the       *)
(* manifest is beyond what the scripts can see.                            *)
AcceptedIsContract ==
  outcome = "ok" /\ "before" \notin edited =>
    /\ DOMAIN Native = expected_native_paths(run.mode)
    /\ \A p \in DOMAIN Native : Contracted(Native[p], p[1], p[2])
    /\ dist.components[<<"api">>] = package_api_aar(SoundJar)
    /\ tree.commit \in dist.components[<<"THIRD_PARTY_LICENSES.txt">>].of
    /\ tree.binaries = "pointers"

(* The components a run that succeeds hands on are the ones its manifest   *)
(* recorded, and so are the libraries in its AAR, whatever was edited and  *)
(* put back meanwhile.  The API and the licences in the AAR, which the     *)
(* audit does not compare, are the recorded ones if nothing was edited     *)
(* after the manifest was written.                                         *)
SealedByManifest ==
  outcome = "ok" =>
    /\ dist.components = dist.manifest.components
    /\ run.mode = "complete" =>
         /\ \A p \in expected_native_paths("complete") :
              dist.aar[Jni(p)] = dist.manifest.components[<<"native", p[1], p[2]>>]
         /\ "after" \notin edited =>
              /\ dist.aar[<<"classes.jar">>] =
                   dist.manifest.components[<<"api">>][<<"classes.jar">>]
              /\ dist.aar[<<"META-INF", "THIRD_PARTY_LICENSES.txt">>] =
                   dist.manifest.components[<<"THIRD_PARTY_LICENSES.txt">>]

(* The lock in the manifest names the tree that was compiled, unless the   *)
(* checkout moved between the resolution of the patches and the manifest,  *)
(* which reads the lock again.  Even then the commit is right, for the     *)
(* provenance compares it, unless the checkout moved three times.          *)
LabelIsWhatWasBuilt ==
  outcome = "ok" =>
    /\ ~ early => dist.manifest.lock.commit = tree.commit
                  /\ dist.manifest.lock.series = tree.series
    /\ moves <= 2 => dist.manifest.lock.commit = tree.commit
=============================================================================
