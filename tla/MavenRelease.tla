---------------------------- MODULE MavenRelease ----------------------------
(***************************************************************************)
(* The release of the complete runtime as a Maven component: two replicas  *)
(* are built and staged by scripts/stage-maven-publication.sh one after    *)
(* the other (.github/workflows/complete-runtime.yml), compared by         *)
(* compare_release_builds.py, and the second, which is signed, becomes the *)
(* bundle (assemble_maven_bundle.py).                                      *)
(*                                                                         *)
(* A build need not give the same bytes twice, Gradle need not publish     *)
(* what it was given, the lock may change, an AAR may be replaced at any   *)
(* time after its build, and a staging may stop anywhere and be tried      *)
(* again.  A digest or a signature carries the content it was made over.   *)
(* Nothing writes into a repository that has been staged.                  *)
(***************************************************************************)
EXTENDS Naturals, Sequences, Functions, Entries

CONSTANTS
  Locks,      (* contents of the source lock                               *)
  Classes,    (* what a compilation of the API may give                    *)
  Others,     (* the same for the rest of an AAR                           *)
  Matrix,     (* the native libraries of the contract                      *)
  Keyring,    (* the keys the gpg of the staging has in its home           *)
  MaxStages,  (* bound: stagings started                                   *)
  MaxFaults   (* bound: wrong publications, replaced AARs, moved locks     *)

ASSUME BoundAssumption == MaxStages \in Nat /\ MaxFaults \in Nat
ASSUME MatrixAssumption == Matrix # {}

VARIABLES
  lock,       (* the source lock of the checkout                           *)
  apiOnly,    (* the release is the API-only fixture                       *)
  build,      (* replica |-> its AAR and the manifest of its build         *)
  input,      (* replica |-> the directory inputs of its staging           *)
  version,    (* replica |-> its Maven version directory                   *)
  metadata,   (* replica |-> the files beside that directory               *)
  pc, replica, todo,
  staged,     (* the replicas whose staging ended well                     *)
  compared,   (* replica |-> the tree the comparison accepted, or <<>>     *)
  bundle,     (* the bundle, or <<>>                                       *)
  stages, faults,
  writers     (* replica |-> the stagings that wrote into its output       *)

directories == <<input, version, metadata, writers>>
counters == <<stages, faults>>
results == <<compared, bundle>>
vars == <<lock, apiOnly, build, directories, pc, replica, todo, staged, results, counters>>

Replicas == {"first", "second"}
Signs(r) == r = "second"
Key == "release key"
Keys == {Key, "another key", "foreign key"}

NotBuilt == <<>>
Empty(r) == input[r] = <<>> /\ version[r] = <<>> /\ metadata[r] = {}

(* The files of a version directory are named by payload and suffix.       *)
Inputs == {"aar", "sources", "javadoc", "module", "cyclonedx", "build-manifest",
           "third-party-licenses", "notices"}
Payloads == Inputs \cup {"pom"}
Payload(name) == <<name, "">>
Sidecar(name) == <<name, ".sha256">>
Signature(name) == <<name, ".asc">>
ExtraFile == <<"extra", "">>
MetadataNames == {"maven-metadata.xml", "maven-metadata.xml.sha256"}

Init ==
  /\ lock \in Locks
  /\ apiOnly \in BOOLEAN
  /\ build = [r \in Replicas |-> NotBuilt]
  /\ input = [r \in Replicas |-> <<>>]
  /\ version = [r \in Replicas |-> <<>>]
  /\ metadata = [r \in Replicas |-> {}]
  /\ pc = "idle"
  /\ replica = "first"
  /\ todo = {}
  /\ staged = {}
  /\ compared = <<>> /\ bundle = <<>>
  /\ stages = 0 /\ faults = 0
  /\ writers = [r \in Replicas |-> {}]

Goto(from, to) == pc = from /\ pc' = to
Fault == faults < MaxFaults /\ faults' = faults + 1
Wrote == writers' = [writers EXCEPT ![replica] = @ \cup {stages}]
CheckThen(from, to, ok) == pc = from /\ pc' = IF ok THEN to ELSE "idle"

----------------------------------------------------------------------------
(* The builds, and what may happen between the steps *)

NativeOf == IF apiOnly THEN {} ELSE Matrix

(* Mutant: the second replica does not wait for the first. *)
BuildInAnyOrder(r) ==
  /\ pc = "idle" /\ build[r] = NotBuilt
  /\ \E c \in Classes, o \in Others :
       LET components == [classes |-> c, native |-> NativeOf]
       IN build' = [build EXCEPT ![r] = [aar |-> [components |-> components, other |-> o],
                                         manifest |-> [lock |-> lock, components |-> components]]]
  /\ UNCHANGED <<lock, apiOnly, directories, pc, replica, todo, staged, results, counters>>

(* A build ends with a manifest that describes its AAR and its lock.       *)
Build(r) ==
  /\ pc = "idle" /\ build[r] = NotBuilt
  /\ r = "second" => "first" \in staged
  /\ \E c \in Classes, o \in Others :
       LET components == [classes |-> c, native |-> NativeOf]
       IN build' = [build EXCEPT ![r] = [aar |-> [components |-> components, other |-> o],
                                         manifest |-> [lock |-> lock, components |-> components]]]
  /\ UNCHANGED <<lock, apiOnly, directories, pc, replica, todo, staged, results, counters>>

(* Somebody replaces the AAR of a build.                                   *)
ReplaceAar(r) ==
  /\ build[r] # NotBuilt
  /\ Fault
  /\ \E c \in Classes, native \in {{}, Matrix} :
       build' = [build EXCEPT ![r].aar.components = [classes |-> c, native |-> native]]
  /\ UNCHANGED <<lock, apiOnly, directories, pc, replica, todo, staged, results, stages>>

MoveLock ==
  /\ Fault
  /\ lock' \in Locks \ {lock}
  /\ UNCHANGED <<apiOnly, build, directories, pc, replica, todo, staged, results, stages>>

(* A step of the staging fails or is killed.                               *)
Stop ==
  /\ pc \in {"prepare", "publish", "metadata", "checksums", "verify", "consume"}
  /\ pc' = "idle"
  /\ UNCHANGED <<lock, apiOnly, build, directories, replica, todo, staged, results, counters>>

EmptyOutput(r) ==
  /\ pc = "idle" /\ r \notin staged /\ ~ Empty(r)
  /\ input' = [input EXCEPT ![r] = <<>>]
  /\ version' = [version EXCEPT ![r] = <<>>]
  /\ metadata' = [metadata EXCEPT ![r] = {}]
  /\ writers' = [writers EXCEPT ![r] = {}]
  /\ UNCHANGED <<lock, apiOnly, build, pc, replica, todo, staged, results, counters>>

----------------------------------------------------------------------------
(* stage-maven-publication.sh *)

(* Mutant: an output directory that is not empty will do. *)
StartStageAnywhere(r) ==
  /\ Goto("idle", "prepare")
  /\ build[r] # NotBuilt /\ r \notin staged
  /\ stages < MaxStages
  /\ stages' = stages + 1
  /\ replica' = r
  /\ UNCHANGED <<lock, apiOnly, build, directories, todo, staged, results, faults>>

StartStage(r) ==
  /\ Goto("idle", "prepare")
  /\ build[r] # NotBuilt /\ r \notin staged
  /\ Empty(r)
  /\ stages < MaxStages
  /\ stages' = stages + 1
  /\ replica' = r
  /\ UNCHANGED <<lock, apiOnly, build, directories, todo, staged, results, faults>>

(* publication_build_manifest: only a complete release is compared with    *)
(* the manifest of its build.                                              *)
ManifestAllows(b) ==
  IF apiOnly THEN b.aar.components.native = {}
  ELSE b.manifest.components = b.aar.components

Fixture == IF apiOnly THEN "api-only" ELSE "complete"

PublicationBuildManifest(b) ==
  [lock |-> b.manifest.lock, components |-> b.aar.components, fixture |-> Fixture]

(* cyclonedx_sbom and gradle_module_metadata.                              *)
Sbom(aar, manifest) == [aar |-> aar, components |-> manifest.components]
ModuleMetadata(aar) == [aar |-> aar]

(* What prepare_maven_publication.py writes.  The sources come from the    *)
(* tree, the Javadoc from the contract; neither depends on the AAR.        *)
PreparedInputs(b) ==
  LET manifest == PublicationBuildManifest(b)
  IN [n \in Inputs |->
        CASE n = "aar" -> b.aar
          [] n = "build-manifest" -> manifest
          [] n = "cyclonedx" -> Sbom(b.aar, manifest)
          [] n = "module" -> ModuleMetadata(b.aar)
          [] OTHER -> [whole |-> TRUE, name |-> n]]

(* The AAR is copied before anything is checked.                           *)
Prepare ==
  /\ CheckThen("prepare", "publish", ManifestAllows(build[replica]))
  /\ input' = [input EXCEPT ![replica] = IF pc' = "publish" THEN PreparedInputs(build[replica])
                                         ELSE [n \in {"aar"} |-> build[replica].aar]]
  /\ todo' = Payloads
  /\ Wrote
  /\ UNCHANGED <<lock, apiOnly, build, version, metadata, replica, staged, results, counters>>

Pom(dependencies) == [dependencies |-> dependencies, whole |-> TRUE, name |-> "pom"]

(* What Gradle may publish for a payload: what it was given, or wrong.     *)
Faithful(name) == IF name = "pom" THEN Pom({}) ELSE input[replica][name]
Wrong(name) ==
  CASE name = "pom" -> {Pom({"com.google.ai.edge.litert"})}
    [] name = "aar" -> {[Faithful(name) EXCEPT !.other = o] : o \in Others}
                         \cup {[Faithful(name) EXCEPT !.components.native = {}]}
    [] name = "module" -> {[Faithful(name) EXCEPT !.aar.other = o] : o \in Others}
    [] name = "cyclonedx" -> {[Faithful(name) EXCEPT !.components.native = n] : n \in {{}, Matrix}}
    [] name = "build-manifest" ->
         {[Faithful(name) EXCEPT !.lock = l] : l \in Locks}
           \cup {[Faithful(name) EXCEPT !.components.native = n] : n \in {{}, Matrix}}
    [] OTHER -> {[Faithful(name) EXCEPT !.whole = FALSE]}

Put(files) == version' = [version EXCEPT ![replica] = files @@ @]

(* Gradle uploads a payload with its sidecar and, given a key, its         *)
(* signature.                                                              *)
PublishPayload ==
  /\ pc = "publish" /\ todo # {}
  /\ LET name == CHOOSE n \in todo : TRUE
         unsigned(content) ==
           Payload(name) :> content @@ Sidecar(name) :> [digest |-> content]
         signed(content, key) ==
           Signature(name) :> [over |-> content, key |-> key] @@ unsigned(content)
         files(content) == IF Signs(replica) THEN signed(content, Key) ELSE unsigned(content)
     IN /\ todo' = todo \ {name}
        /\ \/ Put(files(Faithful(name))) /\ UNCHANGED faults
           \/ /\ Fault
              /\ \/ \E content \in Wrong(name) : Put(files(content))
                 \/ Signs(replica) /\ Put(unsigned(Faithful(name)))
                 \/ /\ Signs(replica)
                    /\ \E key \in Keys \ {Key} : Put(signed(Faithful(name), key))
                 \/ Put(ExtraFile :> [whole |-> TRUE, name |-> "extra"]
                        @@ files(Faithful(name)))
  /\ Wrote
  /\ UNCHANGED <<lock, apiOnly, build, input, metadata, pc, replica, staged, results, stages>>

PublishMetadata ==
  /\ todo = {}
  /\ Goto("publish", "metadata")
  /\ \/ /\ metadata' = [metadata EXCEPT ![replica] = MetadataNames]
        /\ UNCHANGED faults
     \/ /\ metadata' = [metadata EXCEPT ![replica] = MetadataNames \cup {"other"}]
        /\ Fault
  /\ Wrote
  /\ UNCHANGED <<lock, apiOnly, build, input, version, replica, todo, staged, results, stages>>

(* remove_maven_repository_metadata.py removes nothing if it finds a file  *)
(* it does not know.                                                       *)
RemoveMetadata ==
  /\ CheckThen("metadata", "checksums", metadata[replica] \subseteq MetadataNames)
  /\ metadata' = [metadata EXCEPT ![replica] = IF pc' = "checksums" THEN {} ELSE @]
  /\ UNCHANGED <<lock, apiOnly, build, input, version, writers, replica, todo, staged, results,
                 counters>>

(* write_maven_checksums.py, over every file that is no sidecar.           *)
WriteChecksums ==
  /\ Goto("checksums", "verify")
  /\ LET files == {n \in DOMAIN version[replica] : n[2] = ""}
     IN Put([s \in {Sidecar(n[1]) : n \in files} |->
               [digest |-> version[replica][Payload(s[1])]]])
  /\ Wrote
  /\ UNCHANGED <<lock, apiOnly, build, input, metadata, replica, todo, staged, results, counters>>

----------------------------------------------------------------------------
(* verify_maven_staging.py, on the files dir of a version directory *)

VerifyChecksums(dir) ==
  \A name \in Payloads :
    Sidecar(name) \in DOMAIN dir /\ dir[Sidecar(name)].digest = dir[Payload(name)]

(* gpg --verify takes any key it has; no fingerprint is asked for.         *)
SignedBy(dir, name) ==
  /\ Signature(name) \in DOMAIN dir
  /\ \E key \in Keyring : dir[Signature(name)] = [over |-> dir[Payload(name)], key |-> key]

VerifyPom(pom) == pom.dependencies = {}
VerifyModule(module, aar) == module.aar = aar
VerifyNativeMatrix(aar) == aar.components.native = NativeOf

VerifyBuildManifest(manifest, aar) ==
  /\ manifest.fixture = Fixture
  /\ manifest.lock = lock
  /\ manifest.components = aar.components

VerifySbom(sbom, aar, manifest) ==
  sbom.aar = aar /\ sbom.components = manifest.components

VerifyPayloads(dir) ==
  LET file(name) == dir[Payload(name)]
  IN /\ VerifyPom(file("pom"))
     /\ VerifyModule(file("module"), file("aar"))
     /\ VerifyNativeMatrix(file("aar"))
     /\ VerifyBuildManifest(file("build-manifest"), file("aar"))
     /\ \A name \in {"sources", "javadoc", "third-party-licenses", "notices"} : file(name).whole
     /\ VerifySbom(file("cyclonedx"), file("aar"), file("build-manifest"))

Complete(dir) == {Payload(name) : name \in Payloads} \subseteq DOMAIN dir

Verify(dir, signed) ==
  /\ Complete(dir)
  /\ VerifyChecksums(dir)
  /\ signed => \A name \in Payloads : SignedBy(dir, name)
  /\ VerifyPayloads(dir)

(* Mutant: the SBOM and the module metadata are taken as Gradle left them. *)
VerifyStagingPartly ==
  /\ LET dir == version[replica]
     IN CheckThen("verify", "consume",
          /\ Complete(dir) /\ VerifyChecksums(dir)
          /\ Signs(replica) => \A name \in Payloads : SignedBy(dir, name)
          /\ VerifyNativeMatrix(dir[Payload("aar")]))
  /\ UNCHANGED <<lock, apiOnly, build, directories, replica, todo, staged, results, counters>>

(* Mutant: signatures are not required although a key is set. *)
VerifyStagingUnsigned ==
  /\ CheckThen("verify", "consume", Verify(version[replica], FALSE))
  /\ UNCHANGED <<lock, apiOnly, build, directories, replica, todo, staged, results, counters>>

VerifyStaging ==
  /\ CheckThen("verify", "consume", Verify(version[replica], Signs(replica)))
  /\ UNCHANGED <<lock, apiOnly, build, directories, replica, todo, staged, results, counters>>

(* The contract smoke application compiles against the staged component.   *)
Consume ==
  /\ Goto("consume", "idle")
  /\ staged' = staged \cup {replica}
  /\ UNCHANGED <<lock, apiOnly, build, directories, replica, todo, results, counters>>

----------------------------------------------------------------------------
(* compare_release_builds.py and assemble_maven_bundle.py *)

(* file_tree leaves out every name with .asc in it.                        *)
FileTree(dir) == Restrict(dir, {n \in DOMAIN dir : n[2] # ".asc"})

BuildTree(r) == [build |-> build[r], input |-> input[r], version |-> FileTree(version[r])]

Accept(same) ==
  /\ staged = Replicas
  /\ CheckThen("idle", "assemble", same)
  /\ compared' = IF same THEN [r \in Replicas |-> BuildTree(r)] ELSE compared
  /\ UNCHANGED <<lock, apiOnly, build, directories, replica, todo, staged, bundle, counters>>

(* Mutant: the builds are compared by the names of their files. *)
CompareNames ==
  Accept(DOMAIN FileTree(version["first"]) = DOMAIN FileTree(version["second"]))

Compare == Accept(BuildTree("first") = BuildTree("second"))

SidecarSuffixes == {".asc", ".sha256"}

(* Every payload of the second repository must have a signature beside it. *)
Assemble ==
  /\ LET dir == version["second"]
         signed(n) == n[2] \in SidecarSuffixes \/ Signature(n[1]) \in DOMAIN dir
     IN /\ CheckThen("assemble", "done", \A n \in DOMAIN dir : signed(n))
        /\ bundle' = IF pc' = "done" THEN dir ELSE bundle
  /\ UNCHANGED <<lock, apiOnly, build, directories, replica, todo, staged, compared, counters>>

Next ==
  \/ MoveLock \/ Stop \/ Prepare \/ PublishPayload \/ PublishMetadata \/ RemoveMetadata
  \/ WriteChecksums \/ VerifyStaging \/ Consume \/ Compare \/ Assemble
  \/ \E r \in Replicas : Build(r) \/ ReplaceAar(r) \/ EmptyOutput(r) \/ StartStage(r)

Spec == Init /\ [][Next]_vars

----------------------------------------------------------------------------
(* Properties *)

(* The small state keeps its type; a replica that has been staged has      *)
(* every payload in its version directory, and the second replica is built *)
(* and staged after the first.                                             *)
TypeOK ==
  /\ lock \in Locks /\ apiOnly \in BOOLEAN
  /\ pc \in {"idle", "prepare", "publish", "metadata", "checksums", "verify", "consume",
             "assemble", "done"}
  /\ replica \in Replicas /\ staged \subseteq Replicas
  /\ todo \subseteq Payloads
  /\ stages \in 0..MaxStages /\ faults \in 0..MaxFaults
  /\ \A r \in Replicas : writers[r] \subseteq 1..stages
  /\ build["second"] # NotBuilt => "first" \in staged
  /\ "second" \in staged => build["second"] # NotBuilt
  /\ \A r \in staged : Complete(version[r])

Released(name) == bundle[Payload(name)]

(* The files of a bundle describe its AAR: module metadata and SBOM carry  *)
(* its hash, the SBOM and the build manifest its components, its native    *)
(* libraries are those the contract asks of the mode, the POM draws in     *)
(* nothing, and each payload has its own checksum.                         *)
BundleDescribesItself ==
  bundle # <<>> =>
    /\ Released("module").aar = Released("aar")
    /\ Released("cyclonedx").aar = Released("aar")
    /\ Released("cyclonedx").components = Released("aar").components
    /\ Released("build-manifest").components = Released("aar").components
    /\ Released("aar").components.native = IF apiOnly THEN {} ELSE Matrix
    /\ Released("pom").dependencies = {}
    /\ \A name \in Payloads : bundle[Sidecar(name)].digest = Released(name)

(* Every payload of a bundle carries a signature over the bytes the bundle *)
(* holds, by a key that was in gpg's home when it was staged, though the   *)
(* assembler only looks whether there is a signature.  It is the release   *)
(* key's as far as that home has no other, as the one the workflow makes   *)
(* for the staging.                                                        *)
BundleIsSigned ==
  bundle # <<>> =>
    \A name \in Payloads : /\ bundle[Signature(name)].over = Released(name)
                           /\ bundle[Signature(name)].key \in Keyring

(* What a replica hands on was written by one staging: nothing of one that *)
(* stopped before is among it.                                             *)
NothingStagedOverLeftovers == \A r \in staged : \E s \in 1..stages : writers[r] = {s}

(* A replica's tree without signatures is its candidate, and what the      *)
(* comparison read of it stays the candidate when an AAR is replaced       *)
(* later; the release is what was compared, with the files of the bundle.  *)
CandidateOf(r) ==
  IF compared # <<>> THEN compared[r] ELSE IF r \in staged THEN BuildTree(r) ELSE <<>>
Reproducible == INSTANCE ReproducibleRelease WITH
  None <- <<>>,
  candidate <- [r \in Replicas |-> CandidateOf(r)],
  released <- IF bundle = <<>> THEN <<>>
              ELSE [compared["second"] EXCEPT !.version = FileTree(bundle)]

(* A bundle is released only when two builds and two stagings agree in     *)
(* every byte but the signatures, and it is what they agree on.            *)
ImplementsReproducibleRelease == Reproducible!Spec
=============================================================================
