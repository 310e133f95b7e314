------------------------- MODULE MavenReleaseProofs -------------------------
(***************************************************************************)
(* Proofs about MavenRelease for every set of locks, compilations and      *)
(* libraries and any number of stagings.                                   *)
(***************************************************************************)
EXTENDS MavenRelease, TLAPS

Staging == {"prepare", "publish", "metadata", "checksums", "verify", "consume"}

IsDirectories ==
  /\ build = [r \in Replicas |-> build[r]]
  /\ input = [r \in Replicas |-> input[r]]
  /\ version = [r \in Replicas |-> version[r]]
  /\ metadata = [r \in Replicas |-> metadata[r]]
  /\ writers = [r \in Replicas |-> writers[r]]
  /\ \A r \in Replicas :
       build[r] = NotBuilt \/ build[r] = [aar |-> build[r].aar, manifest |-> build[r].manifest]

Types ==
  /\ lock \in Locks /\ apiOnly \in BOOLEAN
  /\ pc \in Staging \cup {"idle", "assemble", "done"}
  /\ replica \in Replicas /\ staged \subseteq Replicas
  /\ todo \subseteq Payloads
  /\ stages \in 0..MaxStages /\ faults \in 0..MaxFaults
  /\ \A r \in Replicas : writers[r] \subseteq 1..stages

(* The second replica is built and staged after the first.                 *)
OneAfterAnother ==
  /\ build["second"] # NotBuilt => "first" \in staged
  /\ "second" \in staged => build["second"] # NotBuilt
  /\ pc \in Staging => build[replica] # NotBuilt

(* What the staging that is going on has written, it has written alone: it *)
(* began in an empty directory, and the first thing it puts there is the   *)
(* AAR.                                                                    *)
Alone ==
  /\ \A r \in Replicas : input[r] = <<>> => writers[r] = {}
  /\ pc \in Staging => stages # 0 /\ replica \notin staged
  /\ pc = "prepare" => writers[replica] = {}
  /\ pc \in Staging \ {"prepare"} => writers[replica] = {stages} /\ input[replica] # <<>>
  /\ NothingStagedOverLeftovers

(* A version directory that passed the verification.  The lock may move    *)
(* after it, so nothing is said of the lock.                               *)
Described(dir) ==
  LET file(name) == dir[Payload(name)]
  IN /\ file("pom").dependencies = {}
     /\ file("module").aar = file("aar")
     /\ file("aar").components.native = NativeOf
     /\ file("build-manifest").components = file("aar").components
     /\ file("cyclonedx").aar = file("aar")
     /\ file("cyclonedx").components = file("aar").components
     /\ \A name \in Payloads : dir[Sidecar(name)].digest = file(name)

Verified(r) ==
  /\ Complete(version[r]) /\ Described(version[r])
  /\ Signs(r) => \A name \in Payloads :
                   /\ version[r][Signature(name)].over = version[r][Payload(name)]
                   /\ version[r][Signature(name)].key \in Keyring

StagedAreVerified ==
  /\ pc = "consume" => Verified(replica)
  /\ \A r \in staged : Verified(r)

(* What the comparison accepted: the trees of the builds may have changed  *)
(* since, the version directory has not.                                   *)
Accepted ==
  [build |-> compared["second"].build, input |-> compared["second"].input,
   version |-> FileTree(version["second"])]

Agreed ==
  /\ pc \in {"assemble", "done"} => staged = Replicas
  /\ pc \in {"assemble", "done"} => compared = [r \in Replicas |-> Accepted]
  /\ bundle # <<>> => pc = "done" /\ bundle = version["second"]

IInv == IsDirectories /\ Types /\ OneAfterAnother /\ Alone /\ StagedAreVerified /\ Agreed

LEMMA InitIInv == Init => IInv
<1> SUFFICES ASSUME Init PROVE IInv
  OBVIOUS
<1>1. IsDirectories
  BY DEF Init, IsDirectories
<1>2. Types
  BY BoundAssumption DEF Init, Types, Staging, Replicas
<1>3. OneAfterAnother
  BY DEF Init, OneAfterAnother, NotBuilt, Replicas, Staging
<1>4. Alone /\ StagedAreVerified /\ Agreed
  BY DEF Init, Alone, NothingStagedOverLeftovers, StagedAreVerified, Agreed, Staging
<1>. QED
  BY <1>1, <1>2, <1>3, <1>4 DEF IInv

(* Nothing of what was checked changes if its directory does not.          *)
LEMMA VerifiedStays ==
  ASSUME NEW r, Verified(r), version'[r] = version[r], apiOnly' = apiOnly
  PROVE  Verified(r)'
  BY DEF Verified, Described, NativeOf

(* Where an action leaves the files that were verified as they are.        *)
LEMMA PublishShape ==
  ASSUME IInv, PublishPayload
  PROVE  /\ pc = "publish" /\ todo' \subseteq todo /\ faults' \in {faults, faults + 1}
         /\ faults' = faults + 1 => faults < MaxFaults
         /\ version' = [version EXCEPT ![replica] = version'[replica]]
         /\ Wrote
         /\ UNCHANGED <<lock, apiOnly, build, input, metadata, pc, replica, staged, results,
                        stages>>
<1>1. PICK files : Put(files)
  BY DEF PublishPayload
<1>2. version' = [version EXCEPT ![replica] = version'[replica]]
  BY <1>1 DEF Put, IInv, IsDirectories, Types
<1>3. \/ UNCHANGED faults
      \/ faults' = faults + 1 /\ faults < MaxFaults
  BY DEF PublishPayload, Fault
<1>4. todo' \subseteq todo
  BY DEF PublishPayload
<1>5. /\ pc = "publish" /\ Wrote
      /\ UNCHANGED <<lock, apiOnly, build, input, metadata, pc, replica, staged, results, stages>>
  BY DEF PublishPayload
<1>6. faults \in Nat
  BY BoundAssumption DEF IInv, Types
<1>. QED
  BY <1>2, <1>3, <1>4, <1>5, <1>6

LEMMA TypesStep ==
  ASSUME IInv, [Next]_vars
  PROVE  IsDirectories' /\ Types'
<1> USE BoundAssumption DEF IInv, IsDirectories, Types, Staging, Goto, CheckThen, Replicas, Alone
<1>1. CASE MoveLock \/ Stop \/ Compare \/ Assemble \/ VerifyStaging \/ UNCHANGED vars
  BY <1>1 DEF MoveLock, Stop, Compare, Accept, Assemble, VerifyStaging, vars, directories, counters, Fault
<1>2. CASE PublishMetadata
  <2>1. IsDirectories'
    BY <1>2 DEF PublishMetadata, Wrote
  <2>2. writers' = [writers EXCEPT ![replica] = @ \cup {stages}] /\ stages # 0
    BY <1>2 DEF PublishMetadata, Wrote
  <2>3. \A r \in Replicas : writers'[r] \subseteq 1..stages
    BY <2>2
  <2>. QED
    BY <1>2, <2>1, <2>3 DEF PublishMetadata, Fault
<1>3. CASE RemoveMetadata
  BY <1>3 DEF RemoveMetadata, counters
<1>4. CASE Consume
  BY <1>4 DEF Consume, directories, counters
<1>5. CASE Prepare
  <2>1. IsDirectories'
    BY <1>5 DEF Prepare, Wrote
  <2>2. writers' = [writers EXCEPT ![replica] = @ \cup {stages}] /\ stages # 0
    BY <1>5 DEF Prepare, Wrote
  <2>3. \A r \in Replicas : writers'[r] \subseteq 1..stages
    BY <2>2
  <2>4. Types'
    BY <1>5, <2>3 DEF Prepare, counters
  <2>. QED
    BY <2>1, <2>4
<1>6. CASE PublishPayload
  BY <1>6, PublishShape DEF Wrote
<1>7. CASE WriteChecksums
  <2>1. PICK files : Put(files)
    BY <1>7 DEF WriteChecksums
  <2>2. IsDirectories'
    BY <1>7, <2>1 DEF WriteChecksums, Put, Wrote
  <2>3. Types'
    BY <1>7 DEF WriteChecksums, Wrote, counters
  <2>. QED
    BY <2>2, <2>3
<1>8. ASSUME NEW r \in Replicas, Build(r) PROVE IsDirectories' /\ Types'
  <2>1. PICK a, m : build' = [build EXCEPT ![r] = [aar |-> a, manifest |-> m]]
    BY <1>8 DEF Build
  <2>2. build'[r] = [aar |-> a, manifest |-> m]
    BY <2>1
  <2>. QED
    BY <1>8, <2>1, <2>2 DEF Build, directories, counters
<1>9. ASSUME NEW r \in Replicas, ReplaceAar(r) PROVE IsDirectories' /\ Types'
  <2>1. PICK b : build' = [build EXCEPT ![r].aar.components = b] /\ build[r] # NotBuilt
    BY <1>9 DEF ReplaceAar
  <2>2. build'[r] = [aar |-> [build[r].aar EXCEPT !.components = b],
                     manifest |-> build[r].manifest]
    BY <2>1
  <2>3. IsDirectories'
    BY <1>9, <2>1, <2>2 DEF ReplaceAar, directories
  <2>4. Types'
    BY <1>9 DEF ReplaceAar, directories, Fault
  <2>. QED
    BY <2>3, <2>4
<1>10. ASSUME NEW r \in Replicas, EmptyOutput(r) PROVE IsDirectories' /\ Types'
  BY <1>10 DEF EmptyOutput, counters
<1>11. ASSUME NEW r \in Replicas, StartStage(r) PROVE IsDirectories' /\ Types'
  BY <1>11 DEF StartStage, directories
<1>. QED
  BY <1>1, <1>2, <1>3, <1>4, <1>5, <1>6, <1>7, <1>8, <1>9, <1>10, <1>11 DEF Next

LEMMA OrderStep ==
  ASSUME IInv, [Next]_vars
  PROVE  OneAfterAnother'
<1> USE DEF IInv, OneAfterAnother, Staging, Goto, CheckThen, Replicas
<1>1. CASE MoveLock \/ Stop \/ Compare \/ Assemble \/ VerifyStaging \/ UNCHANGED vars
  BY <1>1 DEF MoveLock, Stop, Compare, Accept, Assemble, VerifyStaging, vars
<1>2. CASE PublishMetadata \/ RemoveMetadata \/ Prepare \/ WriteChecksums
  BY <1>2 DEF PublishMetadata, RemoveMetadata, Prepare, WriteChecksums
<1>3. CASE Consume
  BY <1>3 DEF Consume, Types
<1>4. CASE PublishPayload
  BY <1>4, PublishShape
<1>5. ASSUME NEW r \in Replicas, Build(r) PROVE OneAfterAnother'
  BY <1>5 DEF Build, NotBuilt, IsDirectories
<1>6. ASSUME NEW r \in Replicas, ReplaceAar(r) PROVE OneAfterAnother'
  <2>1. PICK b : build' = [build EXCEPT ![r].aar.components = b] /\ build[r] # NotBuilt
    BY <1>6 DEF ReplaceAar
  <2>2. build'[r] = [aar |-> [build[r].aar EXCEPT !.components = b],
                     manifest |-> build[r].manifest]
    BY <2>1 DEF IsDirectories
  <2>3. build'[r] # NotBuilt
    BY <2>2 DEF NotBuilt
  <2>. QED
    BY <1>6, <2>1, <2>3 DEF ReplaceAar, IsDirectories, Types
<1>7. ASSUME NEW r \in Replicas, EmptyOutput(r) PROVE OneAfterAnother'
  BY <1>7 DEF EmptyOutput
<1>8. ASSUME NEW r \in Replicas, StartStage(r) PROVE OneAfterAnother'
  BY <1>8 DEF StartStage
<1>. QED
  BY <1>1, <1>2, <1>3, <1>4, <1>5, <1>6, <1>7, <1>8 DEF Next

(* A staging that has written into its output adds nothing to its writers. *)
LEMMA WritesAgain ==
  ASSUME IInv, pc \in Staging \ {"prepare"}, Wrote
  PROVE  UNCHANGED writers
<1>1. writers[replica] \cup {stages} = writers[replica]
  BY DEF IInv, Alone
<1>2. writers' = [r \in Replicas |-> writers[r]]
  BY <1>1 DEF Wrote, IInv, IsDirectories
<1>. QED
  BY <1>2 DEF IInv, IsDirectories

LEMMA AloneStep ==
  ASSUME IInv, [Next]_vars
  PROVE  Alone'
<1> USE DEF IInv, Alone, NothingStagedOverLeftovers, Staging, Goto, CheckThen
<1>1. CASE MoveLock \/ Stop \/ Compare \/ Assemble \/ VerifyStaging \/ UNCHANGED vars
  BY <1>1 DEF MoveLock, Stop, Compare, Accept, Assemble, VerifyStaging, vars, directories, counters
<1>2. CASE PublishMetadata \/ RemoveMetadata \/ WriteChecksums
  <2>1. pc \in Staging \ {"prepare"} /\ pc' \in Staging \cup {"idle"} /\ pc' # "prepare"
    BY <1>2 DEF PublishMetadata, RemoveMetadata, WriteChecksums
  <2>2. UNCHANGED <<input, replica, staged, stages>>
    BY <1>2 DEF PublishMetadata, RemoveMetadata, WriteChecksums, counters
  <2>3. Wrote \/ UNCHANGED writers
    BY <1>2 DEF PublishMetadata, RemoveMetadata, WriteChecksums
  <2>4. UNCHANGED writers
    BY <2>1, <2>3, WritesAgain
  <2>. QED
    BY <2>1, <2>2, <2>4
<1>3. CASE Consume
  BY <1>3 DEF Consume, directories, counters, Types
<1>4. CASE Prepare
  <2>1. /\ input'[replica] # <<>> /\ \A r \in Replicas \ {replica} : input'[r] = input[r]
    BY <1>4 DEF Prepare, PreparedInputs, Inputs, IsDirectories, Types
  <2>2. /\ writers'[replica] = {stages}
        /\ \A r \in Replicas \ {replica} : writers'[r] = writers[r]
    BY <1>4 DEF Prepare, Wrote, IsDirectories, Types
  <2>3. pc = "prepare" /\ pc' \in {"publish", "idle"} /\ UNCHANGED <<replica, staged, stages>>
    BY <1>4 DEF Prepare, counters
  <2>. QED
    BY <2>1, <2>2, <2>3 DEF Types
<1>5. CASE PublishPayload
  <2>1. pc = "publish" /\ Wrote /\ UNCHANGED <<input, pc, replica, staged, stages>>
    BY <1>5, PublishShape
  <2>2. UNCHANGED writers
    BY <2>1, WritesAgain
  <2>. QED
    BY <2>1, <2>2
<1>6. ASSUME NEW r \in Replicas, Build(r) \/ ReplaceAar(r) PROVE Alone'
  BY <1>6 DEF Build, ReplaceAar, directories, counters
<1>7. ASSUME NEW r \in Replicas, EmptyOutput(r) PROVE Alone'
  BY <1>7 DEF EmptyOutput, counters, IsDirectories, Types
<1>8. ASSUME NEW r \in Replicas, StartStage(r) PROVE Alone'
  <2>1. stages' = stages + 1 /\ stages \in Nat /\ writers' = writers /\ staged' = staged
    BY <1>8, BoundAssumption DEF StartStage, directories, Types
  <2>2. NothingStagedOverLeftovers'
    BY <2>1
  <2>. QED
    BY <1>8, <2>1, <2>2 DEF StartStage, directories, Empty
<1>. QED
  BY <1>1, <1>2, <1>3, <1>4, <1>5, <1>6, <1>7, <1>8 DEF Next

(* A directory is verified right before it is handed on, and nothing       *)
(* writes into it from then on.                                            *)
LEMMA StagedStep ==
  ASSUME IInv, [Next]_vars
  PROVE  StagedAreVerified'
<1> USE DEF IInv, StagedAreVerified, Goto, CheckThen, Types
<1>1. CASE MoveLock \/ Stop \/ Compare \/ Assemble \/ Prepare \/ PublishMetadata
           \/ RemoveMetadata \/ UNCHANGED vars
  BY <1>1, VerifiedStays
     DEF MoveLock, Stop, Compare, Accept, Assemble, Prepare, PublishMetadata, RemoveMetadata, vars,
         directories, counters
<1>2. CASE Consume
  BY <1>2, VerifiedStays DEF Consume, directories
<1>3. CASE VerifyStaging
  <2>1. ASSUME pc' = "consume" PROVE Verified(replica)
    <3>1. Verify(version[replica], Signs(replica))
      BY <1>3, <2>1 DEF VerifyStaging
    <3>2. Complete(version[replica]) /\ Described(version[replica])
      BY <3>1 DEF Verify, VerifyChecksums, VerifyPayloads, VerifyPom, VerifyModule,
                  VerifyNativeMatrix, VerifyBuildManifest, VerifySbom, Described
    <3>3. Signs(replica) => \A name \in Payloads : SignedBy(version[replica], name)
      BY <3>1 DEF Verify
    <3>4. \A name \in Payloads :
            SignedBy(version[replica], name) =>
              /\ version[replica][Signature(name)].over = version[replica][Payload(name)]
              /\ version[replica][Signature(name)].key \in Keyring
      BY DEF SignedBy
    <3>. QED
      BY <3>2, <3>3, <3>4 DEF Verified
  <2>. QED
    BY <1>3, <2>1, VerifiedStays DEF VerifyStaging, directories
<1>4. CASE PublishPayload \/ WriteChecksums
  <2>1. replica \notin staged /\ pc' # "consume" /\ UNCHANGED <<apiOnly, staged>>
    BY <1>4, PublishShape DEF WriteChecksums, Alone, Staging
  <2>2. PICK files : Put(files)
    BY <1>4 DEF PublishPayload, WriteChecksums
  <2>3. \A r \in staged : version'[r] = version[r]
    BY <2>1, <2>2 DEF Put, IsDirectories
  <2>. QED
    BY <2>1, <2>3, VerifiedStays
<1>5. ASSUME NEW r \in Replicas, Build(r) \/ ReplaceAar(r) \/ StartStage(r)
      PROVE  StagedAreVerified'
  BY <1>5, VerifiedStays DEF Build, ReplaceAar, StartStage, directories
<1>6. ASSUME NEW r \in Replicas, EmptyOutput(r) PROVE StagedAreVerified'
  <2>1. \A q \in staged : version'[q] = version[q]
    BY <1>6 DEF EmptyOutput, IsDirectories
  <2>. QED
    BY <1>6, <2>1, VerifiedStays DEF EmptyOutput
<1>. QED
  BY <1>1, <1>2, <1>3, <1>4, <1>5, <1>6 DEF Next

LEMMA AgreedStep ==
  ASSUME IInv, [Next]_vars
  PROVE  Agreed'
<1> USE DEF IInv, Agreed, Accepted, Goto, CheckThen, Types, Staging
<1>1. CASE UNCHANGED vars
  BY <1>1 DEF vars, directories, results, FileTree
<1>2. CASE Compare
  <2>1. CASE BuildTree("first") = BuildTree("second")
    <3>1. /\ pc' = "assemble" /\ staged' = Replicas /\ UNCHANGED <<version, bundle>>
          /\ compared' = [r \in Replicas |-> BuildTree(r)]
      BY <1>2, <2>1 DEF Compare, Accept, directories
    <3>2. compared' = [r \in Replicas |-> BuildTree("second")]
      BY <2>1, <3>1 DEF Replicas
    <3>3. compared'["second"] = BuildTree("second")
      BY <3>2 DEF Replicas
    <3>4. BuildTree("second") = Accepted'
      BY <3>1, <3>3 DEF BuildTree, FileTree
    <3>. QED
      BY <1>2, <3>1, <3>2, <3>4 DEF Compare, Accept
  <2>2. CASE BuildTree("first") # BuildTree("second")
    BY <1>2, <2>2 DEF Compare, Accept
  <2>. QED
    BY <2>1, <2>2
<1>3. CASE Assemble
  BY <1>3 DEF Assemble, directories, FileTree
<1>4. CASE MoveLock
  BY <1>4 DEF MoveLock, directories, results, FileTree
<1>5. CASE Stop \/ Prepare \/ PublishMetadata \/ RemoveMetadata \/ WriteChecksums
           \/ VerifyStaging \/ Consume
  BY <1>5 DEF Stop, Prepare, PublishMetadata, RemoveMetadata, WriteChecksums, VerifyStaging,
              Consume, results
<1>6. CASE PublishPayload
  <2>1. pc = "publish" /\ UNCHANGED <<pc, bundle>>
    BY <1>6, PublishShape DEF results
  <2>. QED
    BY <2>1
<1>7. ASSUME NEW r \in Replicas, Build(r) \/ EmptyOutput(r) \/ StartStage(r) PROVE Agreed'
  BY <1>7 DEF Build, EmptyOutput, StartStage, results
<1>8. ASSUME NEW r \in Replicas, ReplaceAar(r) PROVE Agreed'
  BY <1>8 DEF ReplaceAar, directories, results, FileTree
<1>. QED
  BY <1>1, <1>2, <1>3, <1>4, <1>5, <1>6, <1>7, <1>8 DEF Next

LEMMA Inductive == IInv /\ [Next]_vars => IInv'
  BY TypesStep, OrderStep, AloneStep, StagedStep, AgreedStep DEF IInv

LEMMA Invariant == Spec => []IInv
  BY InitIInv, Inductive, PTL DEF Spec

----------------------------------------------------------------------------
(* Type correctness; with it, that the second replica is built and staged  *)
(* after the first (complete-runtime.yml:57-84).                           *)
THEOREM TypeCorrect == Spec => []TypeOK
<1>1. IInv => TypeOK
  BY DEF IInv, Types, Staging, OneAfterAnother, StagedAreVerified, Verified, TypeOK
<1>. QED
  BY <1>1, Invariant, PTL

(* What a replica hands on was written by one staging, however many        *)
(* stopped before (stage-maven-publication.sh:41-49).                      *)
THEOREM OneStaging == Spec => []NothingStagedOverLeftovers
<1>1. IInv => NothingStagedOverLeftovers
  BY DEF IInv, Alone
<1>. QED
  BY <1>1, Invariant, PTL

(* The bundle is the verified directory of the second replica.             *)
LEMMA BundleIsVerified ==
  ASSUME IInv, bundle # <<>>
  PROVE  bundle = version["second"] /\ Verified("second")
  BY DEF IInv, Agreed, StagedAreVerified, Replicas

(* Every payload of a bundle is signed over its bytes by a key of the      *)
(* keyring, whichever keyring it is, though the assembler only looks for   *)
(* the signature (verify_maven_staging.py:63-81,                           *)
(* assemble_maven_bundle.py:18-70).                                        *)
THEOREM Signed == Spec => []BundleIsSigned
<1>1. IInv => BundleIsSigned
  BY BundleIsVerified DEF BundleIsSigned, Verified, Signs, Released
<1>. QED
  BY <1>1, Invariant, PTL

(* The metadata in a bundle describe its AAR, whatever Gradle published    *)
(* and whatever was replaced (verify_maven_staging.py:84-347).             *)
THEOREM SelfDescribing == Spec => []BundleDescribesItself
<1>1. IInv => BundleDescribesItself
  BY BundleIsVerified DEF BundleDescribesItself, Verified, Described, NativeOf, Released
<1>. QED
  BY <1>1, Invariant, PTL

----------------------------------------------------------------------------
(* Every step delivers candidates or releases the one they agree on.       *)

ReleasedBar ==
  IF bundle = <<>> THEN <<>>
  ELSE [compared["second"] EXCEPT !.version = FileTree(bundle)]

LEMMA RefinementStep ==
  ASSUME IInv, [Next]_vars
  PROVE  [Reproducible!Next]_(Reproducible!vars)
<1> DEFINE candidate == [r \in Replicas |-> CandidateOf(r)]
<1>1. ASSUME UNCHANGED ReleasedBar PROVE Reproducible!Next
  <2>1. candidate' = [r \in Replicas |-> candidate'[r]]
    OBVIOUS
  <2>. QED
    BY <1>1, <2>1 DEF Reproducible!Next, Reproducible!Deliver, ReleasedBar
<1>2. CASE Assemble /\ bundle' # bundle
  <2>1. /\ bundle = <<>> /\ bundle' = version["second"] /\ pc = "assemble"
        /\ UNCHANGED <<version, compared>>
    BY <1>2 DEF Assemble, CheckThen, IInv, Agreed, directories
  <2>2. compared = [r \in Replicas |-> Accepted] /\ bundle' # <<>>
    BY <1>2, <2>1 DEF IInv, Agreed
  <2>3. compared["second"] = Accepted /\ compared # <<>>
    BY <2>2 DEF Replicas
  <2>4. ReleasedBar = <<>> /\ ReleasedBar' = Accepted
    <3>1. [Accepted EXCEPT !.version = FileTree(version["second"])] = Accepted
      BY DEF Accepted
    <3>. QED
      BY <2>1, <2>2, <2>3, <3>1 DEF ReleasedBar, FileTree
  <2>5. Accepted # <<>>
    BY DEF Accepted
  <2>6. candidate' = candidate
    BY <2>1, <2>3 DEF CandidateOf
  <2>7. \A r \in Replicas : candidate[r] = ReleasedBar'
    BY <2>2, <2>3, <2>4 DEF CandidateOf
  <2>. QED
    BY <2>4, <2>5, <2>6, <2>7 DEF Reproducible!Next, Reproducible!Release, ReleasedBar
<1>3. CASE ~ (Assemble /\ bundle' # bundle)
  <2>1. bundle' = bundle
    <3>1. CASE Assemble
      BY <1>3, <3>1
    <3>2. CASE PublishPayload
      BY <3>2, PublishShape DEF results
    <3>3. CASE MoveLock \/ Stop \/ Prepare \/ PublishMetadata \/ RemoveMetadata
               \/ WriteChecksums \/ VerifyStaging \/ Consume \/ Compare \/ UNCHANGED vars
      BY <3>3 DEF results, Accept, MoveLock, Stop, Prepare, PublishMetadata, RemoveMetadata, WriteChecksums,
                  VerifyStaging, Consume, Compare, vars
    <3>4. ASSUME NEW r \in Replicas,
                 Build(r) \/ ReplaceAar(r) \/ EmptyOutput(r) \/ StartStage(r)
          PROVE  bundle' = bundle
      BY <3>4 DEF Build, ReplaceAar, EmptyOutput, StartStage, results
    <3>. QED
      BY <3>1, <3>2, <3>3, <3>4 DEF Next
  <2>2. CASE bundle = <<>>
    BY <2>1, <2>2, <1>1 DEF ReleasedBar
  <2>3. CASE bundle # <<>>
    <3>1. pc = "done" /\ staged = Replicas
      BY <2>3 DEF IInv, Agreed
    <3>2. compared' = compared
      <4>1. ~ Compare
        BY <3>1 DEF Compare, Accept, CheckThen
      <4>2. CASE MoveLock \/ Stop \/ Prepare \/ PublishMetadata \/ RemoveMetadata
                 \/ WriteChecksums \/ VerifyStaging \/ Consume \/ Assemble \/ UNCHANGED vars
        BY <4>2 DEF MoveLock, Stop, Prepare, PublishMetadata, RemoveMetadata, WriteChecksums,
                    VerifyStaging, Consume, Assemble, vars, results
      <4>3. CASE PublishPayload
        BY <4>3, PublishShape DEF results
      <4>4. ASSUME NEW r \in Replicas,
                   Build(r) \/ ReplaceAar(r) \/ EmptyOutput(r) \/ StartStage(r)
            PROVE  compared' = compared
        BY <4>4 DEF Build, ReplaceAar, EmptyOutput, StartStage, results
      <4>. QED
        BY <4>1, <4>2, <4>3, <4>4 DEF Next
    <3>. QED
      BY <2>1, <3>2, <1>1 DEF ReleasedBar, FileTree
  <2>. QED
    BY <2>2, <2>3
<1>. QED
  BY <1>2, <1>3

(* A bundle is what two builds and two stagings agree on but for the       *)
(* signatures (compare_release_builds.py:20-121).                          *)
THEOREM ReleaseIsReproducible == Spec => ImplementsReproducibleRelease
<1>1. Init => Reproducible!Init
  BY DEF Init, Reproducible!Init, CandidateOf
<1>. QED
  BY Invariant, <1>1, RefinementStep, PTL
     DEF Spec, Reproducible!Spec, ImplementsReproducibleRelease
=============================================================================
