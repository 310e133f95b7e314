------------------------- MODULE BoundedGpuRelease -------------------------
(***************************************************************************)
(* Where the bounded GPU runtime is built: on a workstation, whose cache   *)
(* and checkout stay from run to run, or by                                *)
(* .github/workflows/bounded-gpu-runtime.yml, which builds two replicas on *)
(* fresh runners, compares what they uploaded, and publishes it under the  *)
(* tag that was pushed.                                                    *)
(*                                                                         *)
(* The two build jobs of a workflow share nothing but the commit, so their *)
(* steps are taken one job after the other.  Failed jobs, or all of them,  *)
(* may be run again; a tag may be moved while the workflow is going on;    *)
(* workflows of one ref wait for each other (concurrency).                 *)
(***************************************************************************)
EXTENDS BoundedGpuBuild, FiniteSets

CONSTANTS
  TagVersion, (* the tag is runtime-v<TagVersion>                          *)
  Pushed,     (* bound: the checkouts a workflow may run on                *)
  MaxLocal,   (* bound: runs at the workstation                            *)
  MaxPushes   (* bound: pushes of the tag                                  *)

ASSUME PushedAssumption == Pushed \subseteq Checkouts
ASSUME LocalAssumption == {MaxLocal, MaxPushes} \subseteq Nat

VARIABLES
  site,       (* where this behaviour happens                              *)
  tag,        (* the checkout the tag points to, or <<>>                   *)
  pushes,     (* how often it was pushed                                   *)
  flow,       (* what the workflow runs on, or <<>>                        *)
  jobs,       (* job |-> its state                                         *)
  artifact,   (* replica |-> what it has uploaded                          *)
  released    (* the assets of the release, or <<>>                        *)

workflow == <<tag, pushes, flow, jobs, artifact, released>>
vars == <<machine, counters, site, workflow>>

Replicas == {"a", "b"}
Jobs == Replicas \cup {"publish"}

(* A runner gets its checkout from the job.                                *)
AnyCheckout == CHOOSE c \in Checkouts : TRUE

Init ==
  /\ MachineInit
  /\ site \in {"workstation", "runner"}
  /\ site = "runner" => repo = AnyCheckout
  /\ tag = <<>> /\ pushes = 0
  /\ flow = <<>>
  /\ jobs = [j \in Jobs |-> "waiting"]
  /\ artifact = [r \in Replicas |-> <<>>]
  /\ released = <<>>

SetJob(j, state) == jobs' = [jobs EXCEPT ![j] = state]
NoneRuns == \A j \in Jobs : jobs[j] \in {"waiting", "failed", "done"}
Ended ==
  /\ NoneRuns
  /\ \A r \in Replicas : jobs[r] # "waiting"
  /\ (\A r \in Replicas : jobs[r] = "done") => jobs["publish"] # "waiting"

----------------------------------------------------------------------------
(* The workstation *)

StartLocally ==
  /\ site = "workstation" /\ runs < MaxLocal
  /\ Start(repo)
  /\ UNCHANGED <<cache, site, workflow>>

AtWorkstation ==
  /\ site = "workstation"
  /\ UseSupplied \/ MoveRepo \/ RemoveCached
  /\ UNCHANGED <<site, workflow>>

Step == RunStep /\ UNCHANGED <<site, workflow>>

----------------------------------------------------------------------------
(* The workflow *)

(* No step of a build sees the tag, so it is enough to move it between.    *)
PushTag ==
  /\ site = "runner" /\ pc = "idle"
  /\ pushes < MaxPushes
  /\ pushes' = pushes + 1
  /\ tag' \in Pushed \ {tag}
  /\ UNCHANGED <<machine, counters, site, flow, jobs, artifact, released>>

(* For the commit the tag points to, or for any by workflow_dispatch.      *)
StartFlow ==
  /\ site = "runner"
  /\ flow = <<>> \/ Ended
  /\ \/ tag # <<>> /\ flow' = [checkout |-> tag, tagged |-> TRUE]
     \/ \E c \in Pushed : flow' = [checkout |-> c, tagged |-> FALSE]
  /\ jobs' = [j \in Jobs |-> "waiting"]
  /\ artifact' = [r \in Replicas |-> <<>>]
  /\ UNCHANGED <<machine, counters, site, tag, pushes, released>>

(* The tag must be the version's, and the tests require the capability of  *)
(* the contract in the shim's source.                                      *)
TagIsVersion == flow.tagged => TagVersion = flow.checkout.version
TestsPass == flow.checkout.shim = flow.checkout.contract.capability

MayStart(r) == site = "runner" /\ flow # <<>> /\ NoneRuns /\ jobs[r] = "waiting"

JobBuilds(r, allowed) ==
  /\ MayStart(r)
  /\ IF allowed
     THEN /\ Start(flow.checkout)
          /\ cache' = <<>>
          /\ SetJob(r, "running")
     ELSE SetJob(r, "failed") /\ UNCHANGED <<machine, counters>>
  /\ UNCHANGED <<site, tag, pushes, flow, artifact, released>>

(* Mutant: the tag is not compared with the version. *)
StartJobOfAnyVersion(r) == JobBuilds(r, TestsPass)

StartJob(r) == JobBuilds(r, TagIsVersion /\ TestsPass)

UploadedSuffixes == {".aar", ".json", ".txt", ".zip"}

(* Mutant: the licences are left out of the globs. *)
UploadedWithoutTexts(files) ==
  Restrict(files, {n \in DOMAIN files : n[2] \in UploadedSuffixes \ {".txt"} \/ n = Sums})

(* The globs of the upload.                                                *)
Uploaded(files) == Restrict(files, {n \in DOMAIN files : n[2] \in UploadedSuffixes \/ n = Sums})

DiscardRunner ==
  /\ repo' = AnyCheckout /\ env' = AnyCheckout
  /\ cache' = <<>> /\ work' = <<>> /\ dist' = <<>>
  /\ supplied' = {} /\ writers' = {}
  /\ pc' = "idle" /\ next' = 1 /\ outcome' = "none" /\ moved' = FALSE

(* The build ended; the manifest must name the commit of the workflow.     *)
FinishJob(r) ==
  /\ jobs[r] = "running" /\ pc = "idle"
  /\ IF outcome = "ok" /\ dist[Manifest].repositoryCommit = flow.checkout.commit
     THEN /\ artifact' = [artifact EXCEPT ![r] = Uploaded(dist)]
          /\ SetJob(r, "done")
     ELSE /\ SetJob(r, "failed")
          /\ UNCHANGED artifact
  /\ DiscardRunner
  /\ UNCHANGED <<counters, site, tag, pushes, flow, released>>

Rerun ==
  /\ flow # <<>> /\ Ended
  /\ \E j \in Jobs : jobs[j] = "failed"
  /\ \/ jobs' = [j \in Jobs |-> "waiting"]
     \/ jobs' = [j \in Jobs |-> IF jobs[j] = "done" THEN "done" ELSE "waiting"]
  /\ UNCHANGED <<machine, counters, site, tag, pushes, flow, artifact, released>>

----------------------------------------------------------------------------
(* compare-and-publish *)

Publishing(from, to, ok) ==
  /\ jobs["publish"] = from
  /\ SetJob("publish", IF ok THEN to ELSE "failed")
  /\ UNCHANGED <<machine, counters, site, tag, pushes, flow, artifact>>

BothBuilt == \A r \in Replicas : jobs[r] = "done"

(* Mutant: one candidate is looked at only. *)
CompareNothing ==
  /\ BothBuilt
  /\ Publishing("waiting", "sums", TRUE)
  /\ UNCHANGED released

(* diff -rq of the two downloads.                                          *)
Compare ==
  /\ BothBuilt
  /\ Publishing("waiting", "sums", artifact["a"] = artifact["b"])
  /\ UNCHANGED released

CheckSums == Publishing("sums", "release", Matches(artifact["a"])) /\ UNCHANGED released

(* gh release create fails if there is a release of this tag.              *)
PublishRelease ==
  /\ jobs["publish"] = "release"
  /\ IF flow.tagged
     THEN /\ Publishing("release", "done", released = <<>>)
          /\ released' = IF released = <<>> THEN artifact["a"] ELSE released
     ELSE Publishing("release", "done", TRUE) /\ UNCHANGED released

(* A service does not answer, or the job is cancelled.                     *)
PublishFails ==
  /\ jobs["publish"] \in {"sums", "release"}
  /\ SetJob("publish", "failed")
  /\ UNCHANGED <<machine, counters, site, tag, pushes, flow, artifact, released>>

Next ==
  \/ StartLocally \/ AtWorkstation \/ Step
  \/ PushTag \/ StartFlow \/ Rerun \/ Compare \/ CheckSums \/ PublishRelease \/ PublishFails
  \/ \E r \in Replicas : StartJob(r) \/ FinishJob(r)

Spec == Init /\ [][Next]_vars

----------------------------------------------------------------------------
(* Properties *)

(* Every variable has its type; the environment names no input but tools,  *)
(* and a job that is done has uploaded something.                          *)
TypeOK ==
  /\ {repo, env} \subseteq Checkouts
  /\ DOMAIN cache \subseteq CachedNames
  /\ \A n \in DOMAIN cache : cache[n] \in {"pinned", "partial", "wrong"}
  /\ supplied \subseteq Tools
  /\ pc \in {"idle", "download", "sha256", "pins", "jni", "shim", "accelerator", "package",
             "verify", "maven", "copies", "sums", "check"}
  /\ next \in 1..Len(Inputs) + 1
  /\ outcome \in {"none", "failed", "ok"}
  /\ runs \in 0..MaxRuns /\ moves \in 0..MaxMoves /\ faults \in 0..MaxFaults
  /\ pushes \in 0..MaxPushes /\ writers \subseteq 1..runs
  /\ \A r \in Replicas : jobs[r] \in {"waiting", "running", "failed", "done"}
  /\ jobs["publish"] \in {"waiting", "sums", "release", "failed", "done"}
  /\ \A r \in Replicas : jobs[r] = "done" => artifact[r] # <<>>

(* From the first compilation on, every input is the pinned one, or a tool *)
(* the user has named: a download that broke off under its final name, in  *)
(* this run or an earlier one, is never taken for the file.                *)
OnlyPinnedInputsAreRead ==
  pc \notin {"idle", "download", "sha256"} =>
    \A p \in 1..Len(Inputs) :
      \/ Inputs[p] \in supplied
      \/ /\ CachedName(Inputs[p]) \in DOMAIN cache
         /\ cache[CachedName(Inputs[p])] = "pinned"

(* A dist directory with checksums was written by one run, its checksums   *)
(* are those of its files, and the copies of the AAR and of the contract   *)
(* agree with the AAR, unless the checkout moved during the run: the       *)
(* contract is copied after the AAR was compared with it.                  *)
SumsVouchForDist ==
  Sums \in DOMAIN dist =>
    /\ Cardinality(writers) = 1
    /\ DOMAIN dist[Sums] = Assets /\ Matches(dist)
    /\ \A n \in DOMAIN dist : n[2] = ".aar" =>
         /\ dist[Repository][n] = dist[n] /\ dist[Bundle(n[1])][n] = dist[n]
         /\ ~ moved => dist[ContractCopy] = dist[n][ContractEntry]

(* What the contract wants of each native library of the AAR: for arm64    *)
(* the library built with the option, the redirected accelerator and the   *)
(* shim that has the contract's capability, all aligned; the official      *)
(* library of its ABI for everything else, and no other accelerator.       *)
IntendedFrom(name) ==
  IF name[2] # Arm64 \/ name[3] = Runtime THEN "official"
  ELSE IF name[3] = Accelerator THEN "patched" ELSE "built"

Intended(file, name, contract) ==
  /\ file.from = IntendedFrom(name) /\ file.abi = name[2] /\ file.library = name[3]
  /\ name[2] = Arm64 => file.aligned
  /\ name[3] = Accelerator => name[2] = Arm64 /\ file.loads = <<ShimLibrary>>
  /\ name[3] = ShimLibrary => file.marker[1] = contract.capability
  /\ file.from = "built" /\ name[3] = JniLibrary => file.marker = JniMarker

VerifiedAarIsContract ==
  \A n \in DOMAIN dist :
    Sums \in DOMAIN dist /\ n[2] = ".aar" =>
      LET aar == dist[n]
          contract == aar[ContractEntry]
      IN /\ DOMAIN Natives(aar) = expected_native_entries(contract)
         /\ \A name \in DOMAIN Natives(aar) : Intended(aar[name], name, contract)
         /\ RequiredClasses \subseteq DOMAIN aar[ClassesJar]
         /\ dist[Manifest].aar = aar /\ dist[Manifest].capability = contract.capability

(* The globs of the upload and the list of checksums, written in two       *)
(* places, name the same files, so candidates that agree never fail their  *)
(* checksums.                                                              *)
UploadIsWhatSumsList ==
  \A r \in Replicas : artifact[r] # <<>> =>
    /\ DOMAIN artifact[r] = DOMAIN artifact[r][Sums] \cup {Sums}
    /\ Matches(artifact[r])

(* What is released under a tag was built from the commit of the tag, if   *)
(* the tag was not moved meanwhile, and the AAR and its POM have the       *)
(* version of the tag.                                                     *)
ReleaseIsOfItsTag ==
  released # <<>> =>
    /\ pushes = 1 => released[Manifest].repositoryCommit = tag.commit
    /\ {Aar(TagVersion), Bundle(TagVersion)} \subseteq DOMAIN released
    /\ released[Bundle(TagVersion)][<<TagVersion, ".pom">>].version = TagVersion

Reproducible == INSTANCE ReproducibleRelease WITH
  None <- <<>>,
  candidate <- [r \in Replicas |-> IF jobs[r] = "done" THEN artifact[r] ELSE <<>>]

(* A release is what two independent builds agree on, and what was         *)
(* released once is never replaced.                                        *)
ImplementsReproducibleRelease == Reproducible!Spec
=============================================================================
