---------------------- MODULE BoundedGpuReleaseProofs ----------------------
(***************************************************************************)
(* Proofs about BoundedGpuRelease for every set of checkouts and any       *)
(* number of runs, pushes and faults: which inputs are read, that a        *)
(* release is reproducible, and then, along the stages of a run, what the  *)
(* work and dist directories hold, what is uploaded and what is released.  *)
(***************************************************************************)
EXTENDS BoundedGpuRelease, FiniteSetTheorems, TLAPS

(* The number of inputs, which the provers do not compute from Inputs.     *)
LEMMA FiveInputs == Len(Inputs) = 5
  BY DEF Inputs

----------------------------------------------------------------------------
(* Inputs.  They are checked in order, and no step takes away or replaces  *)
(* a file of the cache while a run is going on: what was checked once      *)
(* stays as it was, since curl is not called for a name that exists.       *)

Checked(p) ==
  \/ Inputs[p] \in supplied
  \/ /\ CachedName(Inputs[p]) \in DOMAIN cache
     /\ cache[CachedName(Inputs[p])] = "pinned"

InputInv ==
  /\ next \in 1..6
  /\ pc \in {"download", "sha256"} => \A p \in 1..(next - 1) : Checked(p)
  /\ pc = "sha256" => next <= 5 /\ CachedName(Inputs[next]) \in DOMAIN cache
  /\ OnlyPinnedInputsAreRead

LEMMA InputInit == Init => InputInv
  BY DEF Init, MachineInit, InputInv, OnlyPinnedInputsAreRead

(* The inputs that were checked do not change with any of these.           *)
LEMMA CheckedStays ==
  ASSUME NEW p, Checked(p), supplied \subseteq supplied', env' = env,
         DOMAIN cache \subseteq DOMAIN cache', \A n \in DOMAIN cache : cache'[n] = cache[n]
  PROVE  Checked(p)'
  BY DEF Checked, CachedName

(* A file of the cache that was checked is still there if nothing was      *)
(* removed.                                                                *)
LEMMA CachedStays ==
  ASSUME NEW i, CachedName(i) \in DOMAIN cache, env' = env,
         DOMAIN cache \subseteq DOMAIN cache'
  PROVE  (CachedName(i) \in DOMAIN cache)'
  BY DEF CachedName

(* Every step that neither ends a run nor touches an input.                *)
LEMMA LaterStep ==
  ASSUME InputInv, UNCHANGED <<env, cache, supplied, next>>,
         pc' = pc \/ pc' = "idle" \/ (pc # "sha256" /\ pc # "download" /\ pc # "idle")
         \/ (pc = "download" /\ next > 5 /\ pc' = "pins"),
         pc' \notin {"download", "sha256"} \/ pc' = pc
  PROVE  InputInv'
<1> USE FiveInputs DEF InputInv, OnlyPinnedInputsAreRead
<1>1. \A p : Checked(p) => Checked(p)'
  BY CheckedStays
<1>2. \A i : CachedName(i) \in DOMAIN cache => (CachedName(i) \in DOMAIN cache)'
  BY CachedStays
<1>3. pc' \in {"download", "sha256"} => \A p \in 1..(next' - 1) : Checked(p)'
  BY <1>1
<1>4. pc' \notin {"idle", "download", "sha256"} => \A p \in 1..Len(Inputs) : Checked(p)
  BY DEF Checked
<1>5. OnlyPinnedInputsAreRead'
  BY <1>1, <1>4 DEF Checked
<1>6. pc' = "sha256" => next' <= 5 /\ (CachedName(Inputs[next]) \in DOMAIN cache)'
  BY <1>2
<1>. QED
  BY <1>3, <1>5, <1>6

(* A run ends, or none is going on.                                        *)
LEMMA IdleStep ==
  ASSUME pc' = "idle", next' \in 1..6
  PROVE  InputInv'
  BY DEF InputInv, OnlyPinnedInputsAreRead

(* Getting an input or checking it: the inputs before it stay checked.     *)
LEMMA DownloadStep ==
  ASSUME InputInv, Curl \/ UseCached \/ CheckInput \/ UseSupplied
  PROVE  InputInv'
<1> USE FiveInputs DEF InputInv, OnlyPinnedInputsAreRead, Goto, Raise, CheckThen
<1>1. CASE Curl
  <2>1. next <= 5 /\ pc = "download" /\ pc' \in {"sha256", "idle"}
        /\ UNCHANGED <<env, supplied, next>>
    BY <1>1 DEF Curl
  <2>2. PICK file : Cache(CachedName(Inputs[next]), file)
    BY <1>1 DEF Curl
  <2>3. CachedName(Inputs[next]) \notin DOMAIN cache
    BY <1>1 DEF Curl
  <2>4. /\ DOMAIN cache \subseteq DOMAIN cache'
        /\ \A n \in DOMAIN cache : cache'[n] = cache[n]
        /\ CachedName(Inputs[next]) \in DOMAIN cache'
    BY <2>2, <2>3 DEF Cache
  <2>5. \A p \in 1..(next' - 1) : Checked(p)'
    BY <2>1, <2>4, CheckedStays
  <2>6. (CachedName(Inputs[next]) \in DOMAIN cache)'
    BY <2>1, <2>4 DEF CachedName
  <2>. QED
    BY <2>1, <2>5, <2>6
<1>2. CASE UseCached
  <2>1. \A p : Checked(p) => Checked(p)'
    BY <1>2, CheckedStays DEF UseCached
  <2>2. (CachedName(Inputs[next]) \in DOMAIN cache)'
    BY <1>2 DEF UseCached, CachedName
  <2>. QED
    BY <1>2, <2>1, <2>2 DEF UseCached
<1>3. CASE CheckInput
  <2>1. \A p : Checked(p) => Checked(p)'
    BY <1>3, CheckedStays DEF CheckInput
  <2>2. CASE pc' = "download"
    <3>1. cache[CachedName(Inputs[next])] = "pinned" /\ next' = next + 1 /\ pc = "sha256"
      BY <1>3, <2>2 DEF CheckInput, ErrorIf
    <3>2. Checked(next)
      BY <3>1 DEF Checked
    <3>3. \A p \in 1..(next' - 1) : Checked(p)
      BY <3>1, <3>2
    <3>. QED
      BY <2>1, <2>2, <3>1, <3>3
  <2>3. CASE pc' # "download"
    BY <1>3, <2>3, IdleStep DEF CheckInput
  <2>. QED
    BY <2>2, <2>3
<1>4. CASE UseSupplied
  <2>1. \A p : Checked(p) => Checked(p)'
    <3>1. /\ supplied \subseteq supplied' /\ UNCHANGED <<env, cache>>
      BY <1>4 DEF UseSupplied
    <3>. QED
      BY <3>1, CheckedStays
  <2>2. ASSUME NEW p, p = next PROVE Checked(p)'
    BY <1>4, <2>2 DEF UseSupplied, Checked
  <2>3. next' = next + 1 /\ next <= 5 /\ pc = "download" /\ pc' = "download"
    BY <1>4 DEF UseSupplied
  <2>4. \A p \in 1..(next' - 1) : Checked(p)'
    BY <2>1, <2>2, <2>3
  <2>. QED
    BY <2>3, <2>4
<1>. QED
  BY <1>1, <1>2, <1>3, <1>4

(* No later step of a run touches the cache.                               *)
LEMMA BuildStep ==
  ASSUME InputInv,
         \/ BuildJni \/ CheckNativePins \/ InstallJni \/ CompileShim \/ PatchAccelerator
         \/ PackageAar \/ VerifyAar \/ PackageMaven \/ CopyTexts \/ WriteChecksums
         \/ CheckChecksums \/ Stop
  PROVE  InputInv'
<1> USE DEF Goto, Raise, CheckThen
<1>1. CASE Stop
  BY <1>1, LaterStep DEF Stop
<1>2. CASE BuildJni
  BY <1>2, LaterStep, FiveInputs DEF BuildJni, InputInv
<1>3. CASE CheckNativePins \/ InstallJni \/ CompileShim \/ PatchAccelerator
  BY <1>3, LaterStep DEF CheckNativePins, InstallJni, CompileShim, PatchAccelerator
<1>4. CASE PackageAar \/ VerifyAar \/ PackageMaven
  BY <1>4, LaterStep DEF PackageAar, VerifyAar, PackageMaven
<1>5. CASE CopyTexts \/ WriteChecksums \/ CheckChecksums
  BY <1>5, LaterStep DEF CopyTexts, WriteChecksums, CheckChecksums
<1>. QED
  BY <1>1, <1>2, <1>3, <1>4, <1>5

(* A run that starts has checked no input yet.                             *)
LEMMA StartStep ==
  ASSUME NEW checkout, Start(checkout)
  PROVE  InputInv'
  BY DEF Start, Goto, InputInv, OnlyPinnedInputsAreRead

(* Every step keeps what is known of the inputs.                           *)
LEMMA InputStep == InputInv /\ [Next]_vars => InputInv'
<1> SUFFICES ASSUME InputInv, [Next]_vars
             PROVE  InputInv'
  OBVIOUS
<1>1. CASE StartLocally
  BY <1>1, StartStep DEF StartLocally
<1>2. CASE AtWorkstation
  <2>1. CASE UseSupplied
    BY <2>1, DownloadStep
  <2>2. CASE MoveRepo
    BY <2>2, LaterStep DEF MoveRepo
  <2>3. CASE RemoveCached
    BY <2>3, IdleStep DEF RemoveCached, InputInv
  <2>. QED
    BY <1>2, <2>1, <2>2, <2>3 DEF AtWorkstation
<1>3. CASE Step
  BY <1>3, DownloadStep, BuildStep DEF Step, RunStep
<1>4. CASE PushTag \/ StartFlow \/ Rerun
  BY <1>4, LaterStep DEF PushTag, StartFlow, Rerun, machine
<1>5. CASE Compare \/ CheckSums \/ PublishRelease \/ PublishFails
  BY <1>5, LaterStep DEF Compare, CheckSums, PublishRelease, PublishFails, Publishing, machine
<1>6. ASSUME NEW r \in Replicas, StartJob(r) PROVE InputInv'
  <2>1. CASE Start(flow.checkout)
    BY <2>1, StartStep
  <2>2. CASE UNCHANGED machine
    BY <2>2, LaterStep DEF machine
  <2>. QED
    BY <1>6, <2>1, <2>2 DEF StartJob, JobBuilds
<1>7. ASSUME NEW r \in Replicas, FinishJob(r) PROVE InputInv'
  BY <1>7, IdleStep DEF FinishJob, DiscardRunner
<1>8. CASE UNCHANGED vars
  BY <1>8, LaterStep DEF vars, machine
<1>. QED
  BY <1>1, <1>2, <1>3, <1>4, <1>5, <1>6, <1>7, <1>8 DEF Next

(* Nothing is compiled or packaged from a download that broke off or       *)
(* brought another file, in this run or an earlier one                     *)
(* (build-bounded-gpu-runtime.sh:36-74).                                   *)
THEOREM PinnedInputs == Spec => []OnlyPinnedInputsAreRead
<1>1. InputInv => OnlyPinnedInputsAreRead
  BY DEF InputInv
<1>. QED
  BY <1>1, InputInit, InputStep, PTL DEF Spec

----------------------------------------------------------------------------
(* The release.  While the publishing job is going on no build job can     *)
(* start, so the two artifacts stay as they were compared.                 *)

IsJobs ==
  /\ jobs = [j \in Jobs |-> jobs[j]]
  /\ artifact = [r \in Replicas |-> artifact[r]]

FlowInv ==
  /\ IsJobs
  /\ flow = <<>> => \A j \in Jobs : jobs[j] = "waiting"
  /\ jobs["publish"] \in {"sums", "release"} =>
       BothBuilt /\ artifact["a"] = artifact["b"]

LEMMA FlowInit == Init => FlowInv
  BY DEF Init, FlowInv, IsJobs, Jobs, Replicas

(* No build job starts while the publishing job is going on, and an        *)
(* artifact is replaced only by a build job.                               *)
LEMMA FlowStep == FlowInv /\ [Next]_vars => FlowInv'
<1> SUFFICES ASSUME FlowInv, [Next]_vars
             PROVE  FlowInv'
  OBVIOUS
<1> USE DEF FlowInv, IsJobs, Jobs, Replicas, BothBuilt, SetJob
<1>1. CASE StartLocally \/ AtWorkstation \/ Step \/ UNCHANGED vars
  BY <1>1 DEF StartLocally, AtWorkstation, Step, vars, workflow
<1>2. CASE PushTag
  BY <1>2 DEF PushTag
<1>3. CASE StartFlow
  BY <1>3 DEF StartFlow
<1>4. CASE Rerun
  BY <1>4 DEF Rerun, Ended, NoneRuns
<1>5. CASE Compare
  BY <1>5 DEF Compare, Publishing
<1>6. CASE CheckSums \/ PublishFails
  BY <1>6 DEF CheckSums, PublishFails, Publishing
<1>7. CASE PublishRelease
  BY <1>7 DEF PublishRelease, Publishing
<1>8. ASSUME NEW r \in Replicas, StartJob(r) PROVE FlowInv'
  BY <1>8 DEF StartJob, JobBuilds, MayStart, NoneRuns
<1>9. ASSUME NEW r \in Replicas, FinishJob(r) PROVE FlowInv'
  BY <1>9 DEF FinishJob
<1>. QED
  BY <1>1, <1>2, <1>3, <1>4, <1>5, <1>6, <1>7, <1>8, <1>9 DEF Next

(* A step of a machine or a job is a step of the abstract release or a     *)
(* stutter.                                                                *)
LEMMA RefinementStep ==
  ASSUME FlowInv, [Next]_vars
  PROVE  [Reproducible!Next]_(Reproducible!vars)
<1> DEFINE candidate == [r \in Replicas |-> IF jobs[r] = "done" THEN artifact[r] ELSE <<>>]
<1>1. ASSUME UNCHANGED released PROVE Reproducible!Next
  <2>1. candidate' = [r \in Replicas |-> candidate'[r]]
    OBVIOUS
  <2>. QED
    BY <1>1, <2>1 DEF Reproducible!Next, Reproducible!Deliver
<1>2. CASE PublishRelease
  <2>1. CASE released' = released
    BY <2>1, <1>1
  <2>2. CASE released' # released
    <3>1. released = <<>> /\ released' = artifact["a"] /\ jobs["publish"] = "release"
      BY <1>2, <2>2 DEF PublishRelease
    <3>2. jobs' = [jobs EXCEPT !["publish"] = "done"] /\ artifact' = artifact
      BY <1>2, <2>2, <3>1 DEF PublishRelease, Publishing, SetJob
    <3>3. \A r \in Replicas : jobs'[r] = jobs[r]
      BY <3>2 DEF Replicas, FlowInv, IsJobs, Jobs
    <3>4. candidate' = candidate
      BY <3>2, <3>3
    <3>5. \A r \in Replicas : candidate[r] = released'
      BY <3>1 DEF FlowInv, BothBuilt, Replicas
    <3>. QED
      BY <2>2, <3>1, <3>4, <3>5 DEF Reproducible!Next, Reproducible!Release
  <2>. QED
    BY <2>1, <2>2
<1>3. CASE StartLocally \/ AtWorkstation \/ Step \/ UNCHANGED vars
  BY <1>3, <1>1 DEF StartLocally, AtWorkstation, Step, vars, workflow
<1>4. CASE PushTag \/ StartFlow \/ Rerun \/ Compare \/ CheckSums \/ PublishFails
  BY <1>4, <1>1 DEF PushTag, StartFlow, Rerun, Compare, CheckSums, PublishFails
<1>5. ASSUME NEW r \in Replicas, StartJob(r) \/ FinishJob(r) PROVE Reproducible!Next
  BY <1>5, <1>1 DEF StartJob, JobBuilds, FinishJob
<1>. QED
  BY <1>2, <1>3, <1>4, <1>5 DEF Next

(* What is released is what both build jobs uploaded, whatever jobs are    *)
(* run again and wherever the tag moves, and it is never replaced          *)
(* (bounded-gpu-runtime.yml:85-137).                                       *)
THEOREM ReleaseIsReproducible == Spec => ImplementsReproducibleRelease
<1>1. Init => Reproducible!Init
  BY DEF Init, Reproducible!Init, Jobs
<1>. QED
  BY FlowInit, FlowStep, <1>1, RefinementStep, PTL
     DEF Spec, Reproducible!Spec, ImplementsReproducibleRelease
----------------------------------------------------------------------------
(* Types.  Nothing but a checkout is ever built from: the tag and the      *)
(* workflow hold checkouts that were pushed.  A run that goes on has been  *)
(* counted.                                                                *)

Stages == {"idle", "download", "sha256", "pins", "jni", "shim", "accelerator", "package",
           "verify", "maven", "copies", "sums", "check"}

CheckoutType == {repo, env} \subseteq Checkouts
CacheType ==
  /\ DOMAIN cache \subseteq CachedNames
  /\ \A n \in DOMAIN cache : cache[n] \in {"pinned", "partial", "wrong"}
RunType ==
  /\ supplied \subseteq Tools
  /\ pc \in Stages
  /\ outcome \in {"none", "failed", "ok"}
  /\ pc # "idle" => runs # 0
CountType ==
  /\ runs \in 0..MaxRuns /\ moves \in 0..MaxMoves /\ faults \in 0..MaxFaults
  /\ writers \subseteq 1..runs
MachineType == CheckoutType /\ CacheType /\ RunType /\ CountType

PushType ==
  /\ pushes \in 0..MaxPushes
  /\ tag # <<>> => tag \in Pushed
  /\ flow # <<>> => flow.checkout \in Pushed /\ flow.tagged \in BOOLEAN
JobType ==
  /\ \A r \in Replicas : jobs[r] \in {"waiting", "running", "failed", "done"}
  /\ jobs["publish"] \in {"waiting", "sums", "release", "failed", "done"}

(* The input a run is at has a name in the cache.                          *)
LEMMA InputsAreNamed ==
  ASSUME CheckoutType, next \in 1..6, next <= 5
  PROVE  CachedName(Inputs[next]) \in CachedNames
<1>1. Inputs[next] \in {"impl", "api", "x86"} \cup Tools
  <2>1. next \in {1, 2, 3, 4, 5}
    OBVIOUS
  <2>. QED
    BY <2>1 DEF Inputs, Tools
<1>. QED
  BY <1>1 DEF CheckoutType, CachedName, CachedNames, Tools

(* A run that starts, on a kept cache or on an empty one.                  *)
LEMMA StartType ==
  ASSUME MachineType, NEW checkout \in Checkouts, Start(checkout), cache' = cache \/ cache' = <<>>
  PROVE  MachineType'
<1>1. CheckoutType' /\ RunType'
  BY DEF Start, Goto, CheckoutType, RunType, Stages, MachineType, CountType
<1>2. CountType'
  BY BoundAssumption DEF Start, Goto, CountType, MachineType
<1>3. CacheType'
  BY DEF CacheType, MachineType, CachedNames
<1>. QED
  BY <1>1, <1>2, <1>3 DEF MachineType

(* A step of the script changes no checkout, and counters only up to their *)
(* bounds.                                                                 *)
LEMMA RunStepType ==
  ASSUME MachineType, next \in 1..6, RunStep
  PROVE  MachineType'
<1> USE DEF Goto, Raise, CheckThen, Put, Fault
<1>1. CheckoutType'
  BY DEF MachineType, CheckoutType, RunStep, Stop, Curl, UseCached, CheckInput, BuildJni,
         CheckNativePins, InstallJni, CompileShim, PatchAccelerator, PackageAar, VerifyAar,
         PackageMaven, CopyTexts, WriteChecksums, CheckChecksums
<1>2. RunType'
  BY DEF MachineType, RunType, Stages, RunStep, Stop, Curl, UseCached, CheckInput, BuildJni,
         CheckNativePins, InstallJni, CompileShim, PatchAccelerator, PackageAar, VerifyAar,
         PackageMaven, CopyTexts, WriteChecksums, CheckChecksums, counters
<1>3. CountType'
  <2> USE BoundAssumption DEF MachineType, CountType, RunType
  <2>1. CASE Stop \/ Curl \/ UseCached \/ CheckInput \/ BuildJni \/ CheckNativePins
             \/ InstallJni \/ CompileShim \/ PatchAccelerator \/ VerifyAar \/ CheckChecksums
    <3>1. UNCHANGED <<runs, moves, writers>>
      BY <2>1 DEF Stop, Curl, UseCached, CheckInput, BuildJni, CheckNativePins, InstallJni,
                  CompileShim, PatchAccelerator, VerifyAar, CheckChecksums, counters
    <3>2. faults' = faults \/ (faults < MaxFaults /\ faults' = faults + 1)
      BY <2>1 DEF Stop, Curl, UseCached, CheckInput, BuildJni, CheckNativePins, InstallJni,
                  CompileShim, PatchAccelerator, VerifyAar, CheckChecksums, counters
    <3>. QED
      BY <3>1, <3>2
  <2>2. CASE PackageAar \/ PackageMaven \/ CopyTexts \/ WriteChecksums
    <3>1. UNCHANGED counters /\ writers' \in {writers, writers \cup {runs}} /\ pc # "idle"
      BY <2>2 DEF PackageAar, PackageMaven, CopyTexts, WriteChecksums
    <3>2. runs \in 1..runs
      BY <3>1
    <3>. QED
      BY <3>1, <3>2 DEF counters
  <2>. QED
    BY <2>1, <2>2 DEF RunStep
<1>4. CacheType'
  <2>1. CASE Curl
    <3>1. PICK file \in {"pinned", "partial", "wrong"} : Cache(CachedName(Inputs[next]), file)
      BY <2>1 DEF Curl
    <3>2. CachedName(Inputs[next]) \in CachedNames /\ CachedNames' = CachedNames
      BY <2>1, InputsAreNamed, FiveInputs DEF Curl, MachineType, CachedNames
    <3>. QED
      BY <3>1, <3>2 DEF Cache, CacheType, MachineType
  <2>2. CASE ~ Curl
    <3>1. UNCHANGED cache
      BY <2>2 DEF RunStep, Stop, UseCached, CheckInput, BuildJni, CheckNativePins,
             InstallJni, CompileShim, PatchAccelerator, PackageAar, VerifyAar, PackageMaven,
             CopyTexts, WriteChecksums, CheckChecksums
    <3>. QED
      BY <3>1 DEF MachineType, CacheType, CachedNames
  <2>. QED
    BY <2>1, <2>2
<1>. QED
  BY <1>1, <1>2, <1>3, <1>4 DEF MachineType

(* What a workstation may do between and during runs.                      *)
LEMMA WorkstationType ==
  ASSUME MachineType, next \in 1..6, AtWorkstation
  PROVE  MachineType'
<1>1. CASE UseSupplied
  <2>1. CheckoutType' /\ CacheType' /\ CountType'
    BY <1>1 DEF UseSupplied, MachineType, CheckoutType, CacheType, CachedNames, CountType, counters
  <2>2. RunType'
    BY <1>1 DEF UseSupplied, Goto, MachineType, RunType, counters
  <2>. QED
    BY <2>1, <2>2 DEF MachineType
<1>2. CASE MoveRepo
  BY <1>2, BoundAssumption
     DEF MoveRepo, MachineType, CheckoutType, CacheType, CachedNames, RunType, CountType
<1>3. CASE RemoveCached
  BY <1>3 DEF RemoveCached, MachineType, CheckoutType, CacheType, CachedNames, RunType,
              CountType, counters, Restrict
<1>. QED
  BY <1>1, <1>2, <1>3 DEF AtWorkstation

(* A runner that is given back leaves an empty machine.                    *)
LEMMA DiscardType ==
  ASSUME MachineType, DiscardRunner, UNCHANGED counters
  PROVE  MachineType'
<1>1. AnyCheckout \in Checkouts
  BY DEF AnyCheckout, MachineType, CheckoutType
<1>. QED
  BY <1>1 DEF DiscardRunner, MachineType, CheckoutType, CacheType, CachedNames, RunType,
              CountType, Stages, counters

(* Nothing happens to the machine.                                         *)
LEMMA KeptType ==
  ASSUME MachineType, UNCHANGED <<machine, counters>>
  PROVE  MachineType'
  BY DEF machine, counters, MachineType, CheckoutType, CacheType, CachedNames, RunType,
         CountType

TypeInv == MachineType /\ PushType /\ JobType /\ InputInv /\ FlowInv

LEMMA TypeInit == Init => TypeInv
<1> SUFFICES ASSUME Init PROVE TypeInv
  OBVIOUS
<1>1. MachineType
  BY BoundAssumption DEF Init, MachineInit, MachineType, CheckoutType, CacheType, CachedNames,
     RunType, CountType, Stages
<1>2. PushType /\ JobType
  BY LocalAssumption DEF Init, PushType, JobType, Replicas, Jobs
<1>. QED
  BY <1>1, <1>2, InputInit, FlowInit DEF TypeInv

(* Only what was pushed becomes a tag, and only what is pushed is built.   *)
LEMMA PushStep ==
  ASSUME PushType, [Next]_vars
  PROVE  PushType'
<1> USE DEF PushType
<1>1. CASE StartLocally \/ AtWorkstation \/ Step \/ UNCHANGED vars
  BY <1>1 DEF StartLocally, AtWorkstation, Step, vars, workflow
<1>2. CASE PushTag
  BY <1>2, LocalAssumption DEF PushTag
<1>3. CASE StartFlow
  <2>1. PICK c \in Pushed, tagged \in BOOLEAN : flow' = [checkout |-> c, tagged |-> tagged]
    BY <1>3 DEF StartFlow
  <2>2. flow'.checkout = c /\ flow'.tagged = tagged
    BY <2>1
  <2>. QED
    BY <1>3, <2>2 DEF StartFlow
<1>4. CASE Rerun \/ Compare \/ CheckSums \/ PublishRelease \/ PublishFails
  BY <1>4 DEF Rerun, Compare, CheckSums, PublishRelease, PublishFails, Publishing
<1>5. ASSUME NEW r \in Replicas, StartJob(r) \/ FinishJob(r) PROVE PushType'
  BY <1>5 DEF StartJob, JobBuilds, FinishJob
<1>. QED
  BY <1>1, <1>2, <1>3, <1>4, <1>5 DEF Next

(* The states jobs pass through.                                           *)
LEMMA JobStep ==
  ASSUME JobType, FlowInv, [Next]_vars
  PROVE  JobType'
<1> USE DEF JobType, Jobs, Replicas, FlowInv, IsJobs, SetJob
<1>1. CASE StartLocally \/ AtWorkstation \/ Step \/ UNCHANGED vars
  BY <1>1 DEF StartLocally, AtWorkstation, Step, vars, workflow
<1>2. CASE PushTag
  BY <1>2 DEF PushTag
<1>3. CASE StartFlow
  BY <1>3 DEF StartFlow
<1>4. CASE Rerun
  BY <1>4 DEF Rerun
<1>5. CASE Compare \/ CheckSums \/ PublishFails
  BY <1>5 DEF Compare, CheckSums, PublishFails, Publishing
<1>6. CASE PublishRelease
  BY <1>6 DEF PublishRelease, Publishing
<1>7. ASSUME NEW r \in Replicas, StartJob(r) PROVE JobType'
  BY <1>7 DEF StartJob, JobBuilds
<1>8. ASSUME NEW r \in Replicas, FinishJob(r) PROVE JobType'
  BY <1>8 DEF FinishJob
<1>. QED
  BY <1>1, <1>2, <1>3, <1>4, <1>5, <1>6, <1>7, <1>8 DEF Next

(* Every step keeps the types, with the invariants of inputs and jobs.     *)
LEMMA TypeStep == TypeInv /\ [Next]_vars => TypeInv'
<1> SUFFICES ASSUME TypeInv, [Next]_vars
             PROVE  MachineType'
  BY InputStep, FlowStep, PushStep, JobStep DEF TypeInv
<1> USE DEF TypeInv
<1>1. CASE StartLocally
  BY <1>1, StartType DEF StartLocally, MachineType, CheckoutType
<1>2. CASE AtWorkstation
  BY <1>2, WorkstationType DEF InputInv
<1>3. CASE Step
  BY <1>3, RunStepType DEF Step, InputInv
<1>4. CASE PushTag \/ StartFlow \/ Rerun \/ Compare \/ CheckSums \/ PublishRelease \/ PublishFails
  BY <1>4, KeptType DEF PushTag, StartFlow, Rerun, Compare, CheckSums, PublishRelease,
                        PublishFails, Publishing
<1>5. ASSUME NEW r \in Replicas, StartJob(r) PROVE MachineType'
  <2>1. CASE Start(flow.checkout) /\ cache' = <<>>
    BY <1>5, <2>1, StartType, PushedAssumption DEF StartJob, JobBuilds, MayStart, PushType
  <2>2. CASE UNCHANGED <<machine, counters>>
    BY <2>2, KeptType
  <2>. QED
    BY <1>5, <2>1, <2>2 DEF StartJob, JobBuilds
<1>6. ASSUME NEW r \in Replicas, FinishJob(r) PROVE MachineType'
  BY <1>6, DiscardType DEF FinishJob
<1>7. CASE UNCHANGED vars
  BY <1>7, KeptType DEF vars
<1>. QED
  BY <1>1, <1>2, <1>3, <1>4, <1>5, <1>6, <1>7 DEF Next

(* The stages before anything is in the dist directory, and those after.   *)
BeforePackage == {"download", "sha256", "pins", "jni", "shim", "accelerator", "package"}
AfterPackage == {"verify", "maven", "copies", "sums", "check"}

----------------------------------------------------------------------------
(* Entries put together, errors, and the libraries of the official AARs.   *)

(* Entries put together have the names of both.                            *)
LEMMA MergedNames ==
  ASSUME NEW f, NEW g
  PROVE  DOMAIN (f @@ g) = DOMAIN f \cup DOMAIN g
  BY DEF @@

(* Where both have a name, the first operand has the entry.                *)
LEMMA MergedFirst ==
  ASSUME NEW f, NEW g, NEW n \in DOMAIN f
  PROVE  (f @@ g)[n] = f[n]
  BY DEF @@

(* An archive of one entry.                                                *)
LEMMA OneEntry ==
  ASSUME NEW name, NEW content
  PROVE  DOMAIN (name :> content) = {name} /\ (name :> content)[name] = content
  BY DEF :>

(* What a restriction keeps.                                               *)
LEMMA Restricted ==
  ASSUME NEW f, NEW S
  PROVE  DOMAIN Restrict(f, S) = S /\ \A n \in S : Restrict(f, S)[n] = f[n]
  BY DEF Restrict

(* A check that found no error saw nothing wrong.                          *)
LEMMA NoErrorMeansNot ==
  ASSUME NEW wrong, NEW error, ErrorIf(wrong, error) = {}
  PROVE  ~ wrong
  BY DEF ErrorIf

(* A list of errors is empty only if each part of it is.                   *)
LEMMA UnionEmpty ==
  ASSUME NEW A, NEW B, A \cup B = {}
  PROVE  A = {} /\ B = {}
  OBVIOUS

(* The entries of an AAR that are no libraries.                            *)
LEMMA NotNative ==
  /\ ~ IsNative(ClassesJar) /\ ~ IsNative(ContractEntry)
  /\ ~ IsNative(<<"AndroidManifest.xml">>) /\ ~ IsNative(<<"LICENSE">>)
  BY DEF IsNative, ClassesJar, ContractEntry

OfficialNatives(aar, upstream, names) ==
  /\ \A n \in DOMAIN aar : IsNative(n) => n \in names
  /\ \A n \in names : n \in DOMAIN aar /\ aar[n] = OfficialLibrary(upstream, n[2], n[3])

(* What the official implementation holds in libraries.                    *)
LEMMA ImplementationNatives ==
  ASSUME NEW upstream
  PROVE  OfficialNatives(Implementation(upstream), upstream,
                         EachAbi({Arm64} \cup OtherAbis, {Runtime, Accelerator}))
<1> DEFINE names == EachAbi({Arm64} \cup OtherAbis, {Runtime, Accelerator})
<1> DEFINE libraries == LibrariesOf(upstream, names)
<1> DEFINE classes == Classes({"Interpreter"}, "implementation")
<1> DEFINE licence == <<"LICENSE">> :> "LiteRT"
<1>1. /\ DOMAIN libraries = names
      /\ \A n \in names : libraries[n] = OfficialLibrary(upstream, n[2], n[3])
  BY DEF LibrariesOf
<1>2. /\ DOMAIN classes = {ClassesJar} /\ DOMAIN licence = {<<"LICENSE">>}
      /\ DOMAIN Shared = {<<"AndroidManifest.xml">>}
  BY OneEntry DEF Classes, Shared
<1>3. Implementation(upstream) = ((libraries @@ classes) @@ licence) @@ Shared
  BY DEF Implementation
<1> HIDE DEF libraries, classes, licence, names
<1>4. /\ DOMAIN (libraries @@ classes) = DOMAIN libraries \cup DOMAIN classes
      /\ DOMAIN ((libraries @@ classes) @@ licence) =
           DOMAIN (libraries @@ classes) \cup DOMAIN licence
      /\ DOMAIN Implementation(upstream) =
           DOMAIN ((libraries @@ classes) @@ licence) \cup DOMAIN Shared
  BY <1>3, MergedNames
<1>5. DOMAIN Implementation(upstream) =
        ((names \cup {ClassesJar}) \cup {<<"LICENSE">>}) \cup {<<"AndroidManifest.xml">>}
  BY <1>1, <1>2, <1>4
<1>6. \A n \in names : Implementation(upstream)[n] = libraries[n]
  <2> TAKE n \in names
  <2>1. (libraries @@ classes)[n] = libraries[n] /\ n \in DOMAIN (libraries @@ classes)
    BY <1>1, MergedNames, MergedFirst
  <2>2. /\ ((libraries @@ classes) @@ licence)[n] = libraries[n]
        /\ n \in DOMAIN ((libraries @@ classes) @@ licence)
    BY <2>1, <1>4, MergedFirst
  <2>. QED
    BY <2>2, <1>3, MergedFirst
<1>7. OfficialNatives(Implementation(upstream), upstream, names)
  BY <1>1, <1>5, <1>6, NotNative DEF OfficialNatives
<1>. QED
  BY <1>7 DEF names

(* What the official API holds in libraries.                               *)
LEMMA ApiNatives ==
  ASSUME NEW upstream
  PROVE  OfficialNatives(Api(upstream), upstream,
                         EachAbi({Arm64} \cup OtherAbis, {JniLibrary}))
<1> DEFINE names == EachAbi({Arm64} \cup OtherAbis, {JniLibrary})
<1> DEFINE libraries == LibrariesOf(upstream, names)
<1> DEFINE classes == Classes(upstream.apiClasses, "api")
<1>1. /\ DOMAIN libraries = names
      /\ \A n \in names : libraries[n] = OfficialLibrary(upstream, n[2], n[3])
  BY DEF LibrariesOf
<1>2. DOMAIN classes = {ClassesJar} /\ DOMAIN Shared = {<<"AndroidManifest.xml">>}
  BY OneEntry DEF Classes, Shared
<1>3. Api(upstream) = (libraries @@ classes) @@ Shared
  BY DEF Api
<1> HIDE DEF libraries, classes, names
<1>4. DOMAIN (libraries @@ classes) = names \cup {ClassesJar}
  BY <1>1, <1>2, MergedNames
<1>5. DOMAIN Api(upstream) = (names \cup {ClassesJar}) \cup {<<"AndroidManifest.xml">>}
  <2>1. DOMAIN Api(upstream) = DOMAIN (libraries @@ classes) \cup DOMAIN Shared
    BY <1>3, MergedNames
  <2>. QED
    BY <1>2, <1>4, <2>1
<1>6. \A n \in names : Api(upstream)[n] = libraries[n]
  BY <1>1, <1>3, <1>4, MergedFirst
<1>7. OfficialNatives(Api(upstream), upstream, names)
  BY <1>1, <1>5, <1>6, NotNative DEF OfficialNatives
<1>. QED
  BY <1>7 DEF names

(* What the x86 supplement holds in libraries.                             *)
LEMMA X86Natives ==
  ASSUME NEW upstream
  PROVE  OfficialNatives(X86Supplement(upstream), upstream,
                         EachAbi({"x86"}, upstream.x86Libraries))
<1> DEFINE names == EachAbi({"x86"}, upstream.x86Libraries)
<1> DEFINE libraries == LibrariesOf(upstream, names)
<1>1. /\ DOMAIN libraries = names
      /\ \A n \in names : libraries[n] = OfficialLibrary(upstream, n[2], n[3])
  BY DEF LibrariesOf
<1>2. DOMAIN Shared = {<<"AndroidManifest.xml">>}
  BY OneEntry DEF Shared
<1>3. X86Supplement(upstream) = libraries @@ Shared
  BY DEF X86Supplement
<1> HIDE DEF libraries, names
<1>4. DOMAIN X86Supplement(upstream) = names \cup {<<"AndroidManifest.xml">>}
  BY <1>1, <1>2, <1>3, MergedNames
<1>5. \A n \in names : X86Supplement(upstream)[n] = libraries[n]
  BY <1>1, <1>3, MergedFirst
<1>6. OfficialNatives(X86Supplement(upstream), upstream, names)
  BY <1>1, <1>4, <1>5, NotNative DEF OfficialNatives
<1>. QED
  BY <1>6 DEF names

----------------------------------------------------------------------------
(* The work directory.  What a run has made for arm64-v8a has, under each  *)
(* name, the origin the contract wants; whether it is aligned and carries  *)
(* its marker is left to the checks.                                       *)

BazelBin == <<"bazel-bin">>
ArmJni == Jni(Arm64, JniLibrary)
ArmShim == Jni(Arm64, ShimLibrary)
ArmAccelerator == Jni(Arm64, Accelerator)

Made(file, name) ==
  /\ file.from = IntendedFrom(name) /\ file.abi = name[2] /\ file.library = name[3]
  /\ name = ArmAccelerator => file.loads = <<ShimLibrary>>

WorkInv ==
  /\ \A n \in {ArmJni, ArmShim, ArmAccelerator} \cap DOMAIN work : Made(work[n], n)
  /\ BazelBin \in DOMAIN work => Made(work[BazelBin], ArmJni)
  /\ pc \in {"pins", "jni"} => BazelBin \in DOMAIN work
  /\ pc \in {"shim", "accelerator", "package"} => ArmJni \in DOMAIN work
  /\ pc \in {"accelerator", "package"} => ArmShim \in DOMAIN work
  /\ pc = "package" => ArmAccelerator \in DOMAIN work

(* A file that is installed is in the work directory, which keeps all      *)
(* others.                                                                 *)
LEMMA Installed ==
  ASSUME NEW name, NEW content, Install(name, content)
  PROVE  /\ DOMAIN work' = {name} \cup DOMAIN work
         /\ work'[name] = content
         /\ \A n \in DOMAIN work \ {name} : work'[n] = work[n]
<1>1. work' = (name :> content) @@ work
  BY DEF Install
<1>. QED
  BY <1>1 DEF @@, :>

(* The three libraries of arm64 that a run makes, told apart by name.      *)
LEMMA ArmNames ==
  /\ ArmJni # ArmShim /\ ArmJni # ArmAccelerator /\ ArmShim # ArmAccelerator
  /\ \A n \in {ArmJni, ArmShim, ArmAccelerator} : n # BazelBin /\ IsNative(n) /\ n[2] = Arm64
  /\ ArmJni[3] = JniLibrary /\ ArmShim[3] = ShimLibrary /\ ArmAccelerator[3] = Accelerator
  /\ IntendedFrom(ArmJni) = "built" /\ IntendedFrom(ArmShim) = "built"
  /\ IntendedFrom(ArmAccelerator) = "patched"
  BY DEF ArmJni, ArmShim, ArmAccelerator, Jni, JniLibrary, ShimLibrary, Accelerator, Runtime,
         Arm64, BazelBin, IntendedFrom, IsNative

(* What the compilations put out, right or wrong, is a library of its      *)
(* name.                                                                   *)
LEMMA BuiltIsMade ==
  /\ \A marker : Made(Built(ShimLibrary, marker), ArmShim)
  /\ \A marker : Made([Built(ShimLibrary, marker) EXCEPT !.aligned = FALSE], ArmShim)
  /\ \A v : Made(Built(JniLibrary, JniMarker) @@ [variant |-> v], ArmJni)
  /\ \A v : Made([Built(JniLibrary, JniMarker) @@ [variant |-> v] EXCEPT !.marker = "none"], ArmJni)
  /\ \A v : Made([Built(JniLibrary, JniMarker) @@ [variant |-> v] EXCEPT !.aligned = FALSE],
                 ArmJni)
<1>1. \A library, marker :
        /\ Built(library, marker).from = "built" /\ Built(library, marker).abi = Arm64
        /\ Built(library, marker).library = library
        /\ {"from", "abi", "library"} \subseteq DOMAIN Built(library, marker)
  BY DEF Built
<1>2. /\ \A marker : Made(Built(ShimLibrary, marker), ArmShim)
      /\ \A marker : Made([Built(ShimLibrary, marker) EXCEPT !.aligned = FALSE], ArmShim)
  BY <1>1, ArmNames DEF Made
<1>3. ASSUME NEW v, NEW file, file = Built(JniLibrary, JniMarker) @@ [variant |-> v]
      PROVE  /\ Made(file, ArmJni) /\ Made([file EXCEPT !.marker = "none"], ArmJni)
             /\ Made([file EXCEPT !.aligned = FALSE], ArmJni)
  <2>1. /\ {"from", "abi", "library"} \subseteq DOMAIN file
        /\ \A field \in {"from", "abi", "library"} :
             file[field] = Built(JniLibrary, JniMarker)[field]
    BY <1>1, <1>3 DEF @@
  <2>2. file.from = "built" /\ file.abi = Arm64 /\ file.library = JniLibrary
    BY <1>1, <2>1
  <2>. QED
    BY <2>1, <2>2, ArmNames DEF Made
<1>. QED
  BY <1>2, <1>3

(* So is the redirected accelerator.                                       *)
LEMMA PatchedIsMade ==
  Made(patched(Implementation(env.upstream)[ArmAccelerator]), ArmAccelerator)
<1>1. ArmAccelerator \in EachAbi({Arm64} \cup OtherAbis, {Runtime, Accelerator})
  BY DEF ArmAccelerator, EachAbi
<1>2. Implementation(env.upstream)[ArmAccelerator] =
        OfficialLibrary(env.upstream, Arm64, Accelerator)
  BY <1>1, ImplementationNatives, ArmNames DEF OfficialNatives
<1>. QED
  BY <1>2, ArmNames DEF patched, OfficialLibrary, Made

(* A file is installed under the name it was made for. *)
LEMMA InstallMade ==
  ASSUME WorkInv, NEW name, NEW content, Install(name, content),
         \/ name \in {ArmJni, ArmShim, ArmAccelerator} /\ Made(content, name)
         \/ name = BazelBin /\ Made(content, ArmJni)
  PROVE  /\ \A n \in {ArmJni, ArmShim, ArmAccelerator} \cap DOMAIN work' : Made(work'[n], n)
         /\ BazelBin \in DOMAIN work' => Made(work'[BazelBin], ArmJni)
         /\ DOMAIN work' = {name} \cup DOMAIN work
<1> USE DEF WorkInv
<1>1. /\ DOMAIN work' = {name} \cup DOMAIN work /\ work'[name] = content
      /\ \A n \in DOMAIN work \ {name} : work'[n] = work[n]
  BY Installed
<1>. QED
  BY <1>1, ArmNames

(* A step that leaves the work directory alone.                            *)
LEMMA WorkKept ==
  ASSUME WorkInv, UNCHANGED work, pc' = pc \/ pc' \notin BeforePackage \ {"download", "sha256"}
  PROVE  WorkInv'
  BY DEF WorkInv, BeforePackage

(* A run that starts has an empty work directory.                          *)
LEMMA WorkGone ==
  ASSUME work' = <<>>, pc' \in {"idle", "download"}
  PROVE  WorkInv'
  BY DEF WorkInv

(* Each step of a run leaves in the work directory what the next one       *)
(* needs.                                                                  *)
LEMMA WorkRunStep ==
  ASSUME WorkInv, RunStep
  PROVE  WorkInv'
<1> USE DEF Goto, Raise, CheckThen
<1>1. CASE BuildJni
  <2>1. PICK content : Install(BazelBin, content) /\ Made(content, ArmJni)
    BY <1>1, BuiltIsMade DEF BuildJni, BazelBin
  <2>2. pc' = "pins"
    BY <1>1 DEF BuildJni
  <2>. QED
    BY <2>1, <2>2, InstallMade DEF WorkInv
<1>2. CASE CheckNativePins
  BY <1>2 DEF CheckNativePins, WorkInv
<1>3. CASE InstallJni
  <2>1. Install(ArmJni, work[BazelBin]) /\ pc = "jni" /\ pc' \in {"shim", "idle"}
    BY <1>3 DEF InstallJni, ArmJni, BazelBin
  <2>. QED
    BY <2>1, InstallMade DEF WorkInv
<1>4. CASE CompileShim
  <2>1. PICK content : Install(ArmShim, content) /\ Made(content, ArmShim)
    BY <1>4, BuiltIsMade DEF CompileShim, ArmShim
  <2>2. pc = "shim" /\ pc' = "accelerator"
    BY <1>4 DEF CompileShim
  <2>. QED
    BY <2>1, <2>2, InstallMade DEF WorkInv
<1>5. CASE PatchAccelerator
  <2>1. CASE pc' = "package"
    <3>1. Install(ArmAccelerator, patched(Implementation(env.upstream)[ArmAccelerator]))
          /\ pc = "accelerator"
      BY <1>5, <2>1 DEF PatchAccelerator, ArmAccelerator
    <3>. QED
      BY <2>1, <3>1, InstallMade, PatchedIsMade DEF WorkInv
  <2>2. CASE pc' # "package"
    BY <1>5, <2>2, WorkKept DEF PatchAccelerator, BeforePackage
  <2>. QED
    BY <2>1, <2>2
<1>6. CASE Stop \/ Curl \/ UseCached \/ CheckInput
  BY <1>6, WorkKept DEF Stop, Curl, UseCached, CheckInput, BeforePackage
<1>7. CASE PackageAar \/ VerifyAar \/ PackageMaven \/ CopyTexts \/ WriteChecksums
           \/ CheckChecksums
  BY <1>7, WorkKept DEF PackageAar, VerifyAar, PackageMaven, CopyTexts, WriteChecksums,
                        CheckChecksums, BeforePackage
<1>. QED
  BY <1>1, <1>2, <1>3, <1>4, <1>5, <1>6, <1>7 DEF RunStep

----------------------------------------------------------------------------
(* The dist directory.  A run fills it in a fixed order and never writes a *)
(* name twice, so which names are there says which steps were taken; the   *)
(* .env file is read once, so the version in the names stays.              *)

TheAar == dist[Aar(env.version)]

PackagedNames == {Aar(env.version), Manifest}
MavenNames == PackagedNames \cup {Repository, Bundle(env.version)}
CopiedNames == MavenNames \cup {ContractCopy} \cup Licences
AllNames == CopiedNames \cup {Sums}

NamesInv ==
  /\ pc \in BeforePackage => dist = <<>> /\ writers = {}
  /\ pc \in AfterPackage => writers = {runs}
  /\ pc \in {"verify", "maven"} => DOMAIN dist = PackagedNames
  /\ pc = "copies" => DOMAIN dist = MavenNames
  /\ pc = "sums" => DOMAIN dist = CopiedNames
  /\ pc = "check" \/ outcome = "ok" => Sums \in DOMAIN dist
  /\ outcome = "ok" => pc = "idle"
  /\ Sums \in DOMAIN dist =>
       pc \in {"idle", "check"} /\ DOMAIN dist = AllNames /\ \E run \in 1..runs : writers = {run}

(* The names of the files in dist are told apart by version and suffix.    *)
LEMMA NameParts ==
  /\ \A v : Aar(v)[1] = v /\ Aar(v)[2] = ".aar" /\ Bundle(v)[1] = v /\ Bundle(v)[2] = ".zip"
  /\ Manifest[2] = ".json" /\ ContractCopy[2] = ".json" /\ Manifest # ContractCopy
  /\ \A l \in Licences : l[2] = ".txt"
  /\ Repository[2] = "/" /\ Sums[2] = ""
  BY DEF Aar, Bundle, Manifest, ContractCopy, Licences, Repository, Sums

(* Files put into dist replace those of their names and no others.         *)
LEMMA PutFiles ==
  ASSUME NEW files, Put(files)
  PROVE  /\ DOMAIN dist' = DOMAIN files \cup DOMAIN dist
         /\ \A n \in DOMAIN files : dist'[n] = files[n]
         /\ \A n \in DOMAIN dist \ DOMAIN files : dist'[n] = dist[n]
         /\ writers' = writers \cup {runs}
<1>1. dist' = files @@ dist /\ writers' = writers \cup {runs}
  BY DEF Put
<1>. QED
  BY <1>1 DEF @@

(* What each step of a run writes. *)
LEMMA PackageAarWrites ==
  ASSUME PackageAar, pc' = "verify", NamesInv
  PROVE  LET entries == packaged_entries(InputAars, ArmLibraries, repo.contract)
         IN /\ DOMAIN dist' = PackagedNames
            /\ dist'[Aar(env.version)] = entries
            /\ dist'[Manifest] = build_manifest(repo.commit, InputAars, ArmLibraries,
                                                repo.contract, entries)
            /\ writers' = {runs}
<1> DEFINE entries == packaged_entries(InputAars, ArmLibraries, repo.contract)
<1> DEFINE manifest == build_manifest(repo.commit, InputAars, ArmLibraries, repo.contract, entries)
<1> DEFINE files == Aar(env.version) :> entries @@ Manifest :> manifest
<1>1. Put(files) /\ pc = "package"
  BY DEF PackageAar, CheckThen, Raise, Goto
<1>2. dist = <<>> /\ writers = {}
  BY <1>1 DEF NamesInv, BeforePackage
<1> HIDE DEF entries, manifest
<1>3. /\ DOMAIN files = PackagedNames
      /\ files[Aar(env.version)] = entries /\ files[Manifest] = manifest
  <2>1. Aar(env.version) # Manifest
    BY NameParts
  <2>. QED
    BY <2>1 DEF PackagedNames, @@, :>
<1> HIDE DEF files
<1>4. /\ DOMAIN dist' = PackagedNames
      /\ dist'[Aar(env.version)] = entries /\ dist'[Manifest] = manifest
  BY <1>1, <1>2, <1>3, PutFiles DEF PackagedNames
<1>. QED
  BY <1>1, <1>2, <1>4, PutFiles DEF entries, manifest

(* Packaging for Maven adds the repository and its bundle.                 *)
LEMMA PackageMavenWrites ==
  ASSUME PackageMaven, NamesInv
  PROVE  /\ DOMAIN dist' = MavenNames
         /\ \A n \in PackagedNames : dist'[n] = dist[n]
         /\ dist'[Repository] = maven_repository(TheAar, env.version)
         /\ dist'[Bundle(env.version)] = maven_repository(TheAar, env.version)
         /\ writers' = {runs}
<1> DEFINE m2 == maven_repository(TheAar, env.version)
<1> DEFINE files == Repository :> m2 @@ Bundle(env.version) :> m2
<1>1. Put(files) /\ pc = "maven"
  BY DEF PackageMaven, Goto, TheAar
<1>2. DOMAIN dist = PackagedNames /\ writers = {runs}
  BY <1>1 DEF NamesInv, AfterPackage
<1> HIDE DEF m2
<1>3. /\ DOMAIN files = {Repository, Bundle(env.version)}
      /\ files[Repository] = m2 /\ files[Bundle(env.version)] = m2
  <2>1. Repository # Bundle(env.version)
    BY NameParts
  <2>. QED
    BY <2>1 DEF @@, :>
<1> HIDE DEF files
<1>4. PackagedNames \cap {Repository, Bundle(env.version)} = {}
  <2>1. \A n \in PackagedNames : n[2] \in {".aar", ".json"}
    BY NameParts DEF PackagedNames
  <2>2. Repository[2] = "/" /\ Bundle(env.version)[2] = ".zip"
    BY NameParts
  <2>. QED
    BY ONLY <2>1, <2>2
<1>5. DOMAIN dist' = MavenNames
  BY <1>1, <1>2, <1>3, PutFiles DEF MavenNames
<1>6. \A n \in PackagedNames : dist'[n] = dist[n]
  BY <1>1, <1>2, <1>3, <1>4, PutFiles
<1>. QED
  BY <1>1, <1>2, <1>3, <1>5, <1>6, PutFiles DEF m2

(* Copying adds the contract and the licences.                             *)
LEMMA CopyTextsWrites ==
  ASSUME CopyTexts, NamesInv
  PROVE  /\ DOMAIN dist' = CopiedNames
         /\ \A n \in MavenNames : dist'[n] = dist[n]
         /\ dist'[ContractCopy] = repo.contract
         /\ writers' = {runs}
<1> DEFINE texts == [l \in Licences |-> "text"]
<1> DEFINE files == ContractCopy :> repo.contract @@ texts
<1>1. Put(files) /\ pc = "copies"
  BY DEF CopyTexts, Goto
<1>2. DOMAIN dist = MavenNames /\ writers = {runs}
  BY <1>1 DEF NamesInv, AfterPackage
<1>3. DOMAIN files = {ContractCopy} \cup Licences /\ files[ContractCopy] = repo.contract
  <2>1. DOMAIN texts = Licences
    OBVIOUS
  <2> HIDE DEF texts
  <2>. QED
    BY <2>1 DEF @@, :>
<1> HIDE DEF files
<1>4. MavenNames \cap ({ContractCopy} \cup Licences) = {}
  <2>1. \A n \in MavenNames : n = Manifest \/ n[2] \in {".aar", ".zip", "/"}
    BY NameParts DEF MavenNames, PackagedNames
  <2>2. /\ Manifest[2] = ".json" /\ ContractCopy[2] = ".json" /\ Manifest # ContractCopy
        /\ \A l \in Licences : l[2] = ".txt"
    BY NameParts
  <2>. QED
    BY ONLY <2>1, <2>2
<1>5. DOMAIN dist' = CopiedNames
  BY <1>1, <1>2, <1>3, PutFiles DEF CopiedNames
<1>6. \A n \in MavenNames : dist'[n] = dist[n]
  BY <1>1, <1>2, <1>3, <1>4, PutFiles
<1>. QED
  BY <1>1, <1>2, <1>3, <1>5, <1>6, PutFiles

(* The checksums are the last file, of every asset as it is now.           *)
LEMMA WriteChecksumsWrites ==
  ASSUME WriteChecksums, NamesInv
  PROVE  /\ DOMAIN dist' = AllNames
         /\ \A n \in CopiedNames : dist'[n] = dist[n]
         /\ dist'[Sums] = Restrict(dist, Assets)
         /\ DOMAIN dist = CopiedNames /\ Sums \notin CopiedNames
         /\ writers' = {runs}
<1> DEFINE sums == Restrict(dist, Assets)
<1> DEFINE files == Sums :> sums
<1>1. Put(files) /\ pc = "sums"
  BY DEF WriteChecksums, Goto
<1>2. DOMAIN dist = CopiedNames /\ writers = {runs}
  BY <1>1 DEF NamesInv, AfterPackage
<1>3. DOMAIN files = {Sums} /\ files[Sums] = sums
  BY OneEntry
<1> HIDE DEF files
<1>4. Sums \notin CopiedNames
  BY NameParts DEF CopiedNames, MavenNames, PackagedNames
<1>5. DOMAIN dist' = AllNames /\ dist'[Sums] = sums
  BY <1>1, <1>2, <1>3, PutFiles DEF AllNames
<1>6. \A n \in CopiedNames : dist'[n] = dist[n]
  BY <1>1, <1>2, <1>3, <1>4, PutFiles
<1>. QED
  BY <1>1, <1>2, <1>4, <1>5, <1>6, PutFiles

(* A step that leaves dist alone, be it the one that ends a run with an    *)
(* error.                                                                  *)
LEMMA NamesKept ==
  ASSUME NamesInv, UNCHANGED <<env, dist, writers, runs>>,
         \/ pc' = pc /\ outcome' = outcome
         \/ pc' = "idle" /\ outcome' # "ok"
         \/ {pc, pc'} \subseteq BeforePackage /\ outcome' = outcome
         \/ pc = "verify" /\ pc' = "maven" /\ outcome' = outcome
         \/ pc = "check" /\ pc' = "idle"
  PROVE  NamesInv'
<1>1. /\ PackagedNames' = PackagedNames /\ MavenNames' = MavenNames
      /\ CopiedNames' = CopiedNames /\ AllNames' = AllNames
  BY DEF PackagedNames, MavenNames, CopiedNames, AllNames
<1>. QED
  BY <1>1 DEF NamesInv, BeforePackage, AfterPackage

(* A run that starts has an empty dist directory.                          *)
LEMMA NamesGone ==
  ASSUME dist' = <<>>, writers' = {}, pc' \in {"idle", "download"}, outcome' = "none"
  PROVE  NamesInv'
<1>1. Sums \notin DOMAIN dist'
  OBVIOUS
<1>. QED
  BY <1>1 DEF NamesInv, BeforePackage, AfterPackage

(* Each step of a run adds its own names to dist, and nobody else does.    *)
LEMMA NamesRunStep ==
  ASSUME MachineType, NamesInv, RunStep
  PROVE  NamesInv'
<1> USE DEF Goto, Raise, CheckThen, counters
<1>1. outcome = "ok" => pc = "idle"
  BY DEF NamesInv
<1>2. CASE Stop \/ Curl \/ UseCached \/ CheckInput
  BY <1>1, <1>2, NamesKept DEF Stop, Curl, UseCached, CheckInput, BeforePackage
<1>3. CASE BuildJni \/ CheckNativePins \/ InstallJni \/ CompileShim
  BY <1>3, NamesKept DEF BuildJni, CheckNativePins, InstallJni, CompileShim, BeforePackage
<1>4. CASE PatchAccelerator
  BY <1>4, NamesKept DEF PatchAccelerator, BeforePackage
<1>5. CASE VerifyAar \/ CheckChecksums
  BY <1>5, NamesKept DEF VerifyAar, CheckChecksums
<1>6. ASSUME PackageAar \/ PackageMaven \/ CopyTexts \/ WriteChecksums, pc' # "idle"
      PROVE  NamesInv'
  <2>1. /\ UNCHANGED <<env, runs, outcome>> /\ pc # "idle"
    BY <1>6 DEF PackageAar, PackageMaven, CopyTexts, WriteChecksums
  <2>2. /\ PackagedNames' = PackagedNames /\ MavenNames' = MavenNames
        /\ CopiedNames' = CopiedNames /\ AllNames' = AllNames
    BY <2>1 DEF PackagedNames, MavenNames, CopiedNames, AllNames
  <2>3. runs \in 1..runs /\ outcome' # "ok"
    BY <1>1, <2>1 DEF MachineType, RunType, CountType
  <2>4. Sums \notin CopiedNames
    BY NameParts DEF CopiedNames, MavenNames, PackagedNames
  <2>5. CASE PackageAar
    <3>1. pc' = "verify"
      BY <1>6, <2>5 DEF PackageAar
    <3>2. DOMAIN dist' = PackagedNames /\ writers' = {runs}
      BY <2>5, <3>1, PackageAarWrites
    <3>3. Sums \notin DOMAIN dist'
      BY <2>4, <3>2 DEF CopiedNames, MavenNames
    <3>. QED
      BY <2>1, <2>2, <2>3, <3>1, <3>2, <3>3 DEF NamesInv, BeforePackage, AfterPackage
  <2>6. CASE PackageMaven
    <3>1. DOMAIN dist' = MavenNames /\ writers' = {runs} /\ pc' = "copies"
      BY <2>6, PackageMavenWrites DEF PackageMaven
    <3>2. Sums \notin DOMAIN dist'
      BY <2>4, <3>1 DEF CopiedNames
    <3>. QED
      BY <2>1, <2>2, <2>3, <3>1, <3>2 DEF NamesInv, BeforePackage, AfterPackage
  <2>7. CASE CopyTexts
    <3>1. DOMAIN dist' = CopiedNames /\ writers' = {runs} /\ pc' = "sums"
      BY <2>7, CopyTextsWrites DEF CopyTexts
    <3>. QED
      BY <2>1, <2>2, <2>3, <2>4, <3>1 DEF NamesInv, BeforePackage, AfterPackage
  <2>8. CASE WriteChecksums
    <3>1. DOMAIN dist' = AllNames /\ writers' = {runs} /\ pc' = "check"
      BY <2>8, WriteChecksumsWrites DEF WriteChecksums
    <3>2. Sums \in DOMAIN dist'
      BY <3>1 DEF AllNames
    <3>. QED
      BY <2>1, <2>2, <2>3, <3>1, <3>2 DEF NamesInv, BeforePackage, AfterPackage
  <2>. QED
    BY <1>6, <2>5, <2>6, <2>7, <2>8
<1>7. CASE (PackageAar \/ PackageMaven \/ CopyTexts \/ WriteChecksums) /\ pc' = "idle"
  <2>1. /\ UNCHANGED <<env, dist, writers, runs>>
        /\ pc' = "idle" /\ outcome' # "ok"
    BY <1>7 DEF PackageAar, PackageMaven, CopyTexts, WriteChecksums
  <2>. QED
    BY <2>1, NamesKept
<1>. QED
  BY <1>2, <1>3, <1>4, <1>5, <1>6, <1>7 DEF RunStep

(* Where the libraries of an AAR come from, before anything is checked: an *)
(* accelerator that is not redirected may be left under another ABI.       *)
Assembled(aar) ==
  \A n \in DOMAIN aar : IsNative(n) =>
    /\ Made(aar[n], n)
    /\ \E abi \in {Arm64, "x86"} \cup OtherAbis,
          l \in {Runtime, JniLibrary, Accelerator, ShimLibrary} : n = Jni(abi, l)
    /\ n[3] = Accelerator => n[2] \in {Arm64} \cup OtherAbis
    /\ n[3] = ShimLibrary => n[2] = Arm64

(* What the verifier has found is said of the contract inside the AAR,     *)
(* whatever contract the checkout has by now.                              *)
Passes(entries, manifest, contract) == verify_errors(entries, manifest, contract, TRUE) = {}
Verified == Passes(TheAar, dist[Manifest], TheAar[ContractEntry])

Past(stages) == pc \in stages \/ Sums \in DOMAIN dist

ContentInv ==
  /\ Past(AfterPackage) => Assembled(TheAar)
  /\ Past(AfterPackage \ {"verify"}) => Verified
  /\ pc \in {"maven", "copies"} /\ ~ moved => repo.contract = TheAar[ContractEntry]
  /\ Past({"copies", "sums", "check"}) =>
       /\ dist[Repository] = maven_repository(TheAar, env.version)
       /\ dist[Bundle(env.version)] = maven_repository(TheAar, env.version)
  /\ Past({"sums", "check"}) /\ ~ moved => dist[ContractCopy] = TheAar[ContractEntry]
  /\ Sums \in DOMAIN dist => dist[Sums] = Restrict(dist, Assets)

(* What is packaged: the library made for arm64-v8a if there is one of     *)
(* this name, else one of the two of the x86 supplement, else an official  *)
(* one.                                                                    *)
PackagedFrom(entries, inputs, built, n) ==
  \/ n \in DOMAIN Natives(built) /\ entries[n] = Natives(built)[n]
  \/ /\ n \notin DOMAIN Natives(built) /\ n \in ExpectedX86
     /\ entries[n] = Restrict(inputs.x86, ExpectedX86)[n]
  \/ /\ n \notin DOMAIN Natives(built)
     /\ n \in DOMAIN inputs.impl /\ entries[n] = inputs.impl[n]
  \/ /\ n \notin DOMAIN Natives(built)
     /\ n \in DOMAIN inputs.api /\ entries[n] = inputs.api[n]

(* A library of the merged AARs comes from one of them.                    *)
LEMMA MergedNatives ==
  ASSUME NEW implementation, NEW api,
         NEW n \in DOMAIN merge_official_aars(implementation, api), IsNative(n)
  PROVE  \/ /\ n \in DOMAIN implementation
            /\ merge_official_aars(implementation, api)[n] = implementation[n]
         \/ /\ n \in DOMAIN api
            /\ merge_official_aars(implementation, api)[n] = api[n]
<1> DEFINE classes == ClassesJar :> (api[ClassesJar] @@ implementation[ClassesJar])
<1>1. merge_official_aars(implementation, api) = (classes @@ implementation) @@ api
  BY DEF merge_official_aars
<1>2. DOMAIN classes = {ClassesJar}
  BY OneEntry
<1> HIDE DEF classes
<1>3. n \notin DOMAIN classes
  BY <1>2, NotNative
<1>. QED
  BY <1>1, <1>3 DEF @@

(* Where a library of the packaged AAR comes from.                         *)
LEMMA PackagedNatives ==
  ASSUME NEW inputs, NEW built, NEW contract,
         NEW n \in DOMAIN packaged_entries(inputs, built, contract), IsNative(n)
  PROVE  PackagedFrom(packaged_entries(inputs, built, contract), inputs, built, n)
<1> DEFINE entries == packaged_entries(inputs, built, contract)
<1> DEFINE merged == merge_official_aars(inputs.impl, inputs.api)
<1> DEFINE classes == ClassesJar :>
                        ([c \in CapabilityClasses |-> "capability"] @@ merged[ClassesJar])
<1> DEFINE x86 == Restrict(inputs.x86, ExpectedX86)
<1> DEFINE natives == Natives(built)
<1> DEFINE all == ((natives @@ x86) @@ classes) @@ merged
<1> DEFINE kept == Restrict(all, DOMAIN all \ contract.removed)
<1> DEFINE embedded == ContractEntry :> contract
<1>1. entries = embedded @@ kept
  BY DEF packaged_entries
<1>2. DOMAIN embedded = {ContractEntry} /\ DOMAIN classes = {ClassesJar}
  BY OneEntry
<1>3. DOMAIN kept = DOMAIN all \ contract.removed /\ \A m \in DOMAIN kept : kept[m] = all[m]
  BY Restricted
<1>4. DOMAIN x86 = ExpectedX86
  BY Restricted
<1>5. n \in DOMAIN merged =>
        \/ n \in DOMAIN inputs.impl /\ merged[n] = inputs.impl[n]
        \/ n \in DOMAIN inputs.api /\ merged[n] = inputs.api[n]
  BY MergedNatives
<1> HIDE DEF entries, merged, classes, x86, natives, kept, embedded
<1>6. n \notin DOMAIN embedded /\ n \notin DOMAIN classes
  BY <1>2, NotNative
<1>7. n \in DOMAIN kept /\ entries[n] = kept[n]
  <2>1. n \in DOMAIN entries
    BY DEF entries
  <2>. QED
    BY <1>1, <1>6, <2>1 DEF @@
<1>8. \/ n \in DOMAIN natives /\ all[n] = natives[n]
      \/ n \notin DOMAIN natives /\ n \in DOMAIN x86 /\ all[n] = x86[n]
      \/ /\ n \notin DOMAIN natives /\ n \notin DOMAIN x86 /\ n \in DOMAIN merged
         /\ all[n] = merged[n]
  <2>1. n \in DOMAIN all
    BY <1>3, <1>7
  <2>. QED
    BY <1>6, <2>1 DEF @@
<1> HIDE DEF all
<1>9. entries[n] = all[n]
  BY <1>3, <1>7
<1>10. \/ n \in DOMAIN natives /\ entries[n] = natives[n]
       \/ n \notin DOMAIN natives /\ n \in ExpectedX86 /\ entries[n] = x86[n]
       \/ n \notin DOMAIN natives /\ n \in DOMAIN inputs.impl /\ entries[n] = inputs.impl[n]
       \/ n \notin DOMAIN natives /\ n \in DOMAIN inputs.api /\ entries[n] = inputs.api[n]
  BY <1>4, <1>5, <1>8, <1>9
<1>. QED
  BY <1>10 DEF PackagedFrom, entries, natives, x86

(* The libraries handed to the packager are the three in the work          *)
(* directory.                                                              *)
LEMMA ArmNatives ==
  /\ DOMAIN Natives(ArmLibraries) = {ArmJni, ArmShim, ArmAccelerator}
  /\ \A n \in {ArmJni, ArmShim, ArmAccelerator} : Natives(ArmLibraries)[n] = work[n]
<1>1. ArmLibraries = Restrict(work, {ArmJni, ArmShim, ArmAccelerator})
  <2>1. {Jni(Arm64, l) : l \in {JniLibrary, ShimLibrary, Accelerator}} =
          {ArmJni, ArmShim, ArmAccelerator}
    BY DEF ArmJni, ArmShim, ArmAccelerator
  <2>. QED
    BY <2>1 DEF ArmLibraries
<1>2. /\ DOMAIN ArmLibraries = {ArmJni, ArmShim, ArmAccelerator}
      /\ \A n \in {ArmJni, ArmShim, ArmAccelerator} : ArmLibraries[n] = work[n]
  BY <1>1, Restricted
<1>3. {n \in DOMAIN ArmLibraries : IsNative(n)} = {ArmJni, ArmShim, ArmAccelerator}
  BY <1>2, ArmNames
<1>4. Natives(ArmLibraries) = Restrict(ArmLibraries, {ArmJni, ArmShim, ArmAccelerator})
  BY <1>3 DEF Natives
<1>. QED
  BY <1>2, <1>4, Restricted

OfNames(n, abis, libraries) == \E abi \in abis, l \in libraries : n = Jni(abi, l)

(* An official library is what its name says, unless it is the shim or,    *)
(* for arm64, another than the runtime.                                    *)
LEMMA OfficialIsMade ==
  ASSUME NEW upstream, NEW abi, NEW l,
         abi = Arm64 => l = Runtime, l # ShimLibrary
  PROVE  Made(OfficialLibrary(upstream, abi, l), Jni(abi, l))
<1>1. Jni(abi, l)[2] = abi /\ Jni(abi, l)[3] = l
  BY DEF Jni
<1>2. Jni(abi, l) # ArmAccelerator
  <2>1. Runtime # Accelerator
    BY DEF Runtime, Accelerator
  <2>. QED
    BY <2>1 DEF ArmAccelerator, Jni
<1>. QED
  BY <1>1, <1>2 DEF OfficialLibrary, Made, IntendedFrom

(* An AAR that is packaged holds made libraries of known names only.       *)
LEMMA PackagedIsAssembled ==
  ASSUME WorkInv, pc = "package", NEW contract,
         package_errors(InputAars, ArmLibraries, contract) = {}
  PROVE  Assembled(packaged_entries(InputAars, ArmLibraries, contract))
<1> DEFINE entries == packaged_entries(InputAars, ArmLibraries, contract)
<1> SUFFICES ASSUME NEW n \in DOMAIN entries, IsNative(n)
             PROVE  /\ Made(entries[n], n)
                    /\ OfNames(n, {Arm64, "x86"} \cup OtherAbis,
                               {Runtime, JniLibrary, Accelerator, ShimLibrary})
                    /\ n[3] = Accelerator => n[2] \in {Arm64} \cup OtherAbis
                    /\ n[3] = ShimLibrary => n[2] = Arm64
  BY DEF Assembled, OfNames
<1>1. PackagedFrom(entries, InputAars, ArmLibraries, n)
  BY PackagedNatives
<1>2. DOMAIN Natives(InputAars.x86) = ExpectedX86
  <2>1. ErrorIf(DOMAIN Natives(InputAars.x86) # ExpectedX86, "x86 supplement") = {}
    BY UnionEmpty DEF package_errors
  <2>. QED
    BY <2>1, NoErrorMeansNot
<1> HIDE DEF entries
<1>3. /\ Runtime # Accelerator /\ Runtime # ShimLibrary /\ JniLibrary # ShimLibrary
      /\ JniLibrary # Accelerator /\ Accelerator # ShimLibrary /\ Arm64 # "x86"
  BY DEF Runtime, Accelerator, ShimLibrary, JniLibrary, Arm64
<1>4. \A abi, l : Jni(abi, l)[2] = abi /\ Jni(abi, l)[3] = l
  BY DEF Jni
<1>5. CASE n \in DOMAIN Natives(ArmLibraries) /\ entries[n] = Natives(ArmLibraries)[n]
  <2>1. n \in {ArmJni, ArmShim, ArmAccelerator} /\ entries[n] = work[n]
    BY <1>5, ArmNatives
  <2>2. Made(entries[n], n)
    BY <2>1 DEF WorkInv
  <2>3. OfNames(n, {Arm64}, {JniLibrary, ShimLibrary, Accelerator})
    BY <2>1 DEF OfNames, ArmJni, ArmShim, ArmAccelerator
  <2>. QED
    BY <2>2, <2>3, <1>4 DEF OfNames
<1>6. CASE n \in ExpectedX86 /\ entries[n] = Restrict(InputAars.x86, ExpectedX86)[n]
  <2>1. PICK l \in {Runtime, JniLibrary} : n = Jni("x86", l)
    BY <1>6 DEF ExpectedX86, EachAbi
  <2>2. entries[n] = X86Supplement(env.upstream)[n]
    BY <1>6, Restricted DEF InputAars
  <2>3. n \in DOMAIN X86Supplement(env.upstream)
    <3>1. {m \in DOMAIN InputAars.x86 : IsNative(m)} = ExpectedX86
      BY <1>2, Restricted DEF Natives
    <3>. QED
      BY <1>6, <3>1 DEF InputAars
  <2>4. entries[n] = OfficialLibrary(env.upstream, "x86", l)
    BY <2>1, <2>2, <2>3, <1>4, X86Natives DEF OfficialNatives
  <2>5. Made(entries[n], n)
    BY <2>1, <2>4, <1>3, OfficialIsMade
  <2>. QED
    BY <2>1, <2>5, <1>3, <1>4 DEF OfNames
<1>7. CASE /\ n \notin DOMAIN Natives(ArmLibraries)
           /\ n \in DOMAIN InputAars.impl /\ entries[n] = InputAars.impl[n]
  <2>1. n \in DOMAIN Implementation(env.upstream) /\ entries[n] = Implementation(env.upstream)[n]
    BY <1>7 DEF InputAars
  <2>2. n \in EachAbi({Arm64} \cup OtherAbis, {Runtime, Accelerator})
    BY <2>1, ImplementationNatives DEF OfficialNatives
  <2>3. PICK abi \in {Arm64} \cup OtherAbis, l \in {Runtime, Accelerator} : n = Jni(abi, l)
    BY <2>2 DEF EachAbi
  <2>4. entries[n] = OfficialLibrary(env.upstream, abi, l)
    <3>1. Implementation(env.upstream)[n] = OfficialLibrary(env.upstream, n[2], n[3])
      BY <2>2, ImplementationNatives DEF OfficialNatives
    <3>2. n[2] = abi /\ n[3] = l
      BY <2>3, <1>4
    <3>. QED
      BY <2>1, <3>1, <3>2
  <2>5. abi = Arm64 => l = Runtime
    BY <1>7, <2>3, ArmNatives DEF ArmAccelerator
  <2>6. Made(entries[n], n)
    BY <2>3, <2>4, <2>5, <1>3, OfficialIsMade
  <2>. QED
    BY <2>3, <2>6, <1>3, <1>4 DEF OfNames
<1>8. CASE /\ n \notin DOMAIN Natives(ArmLibraries)
           /\ n \in DOMAIN InputAars.api /\ entries[n] = InputAars.api[n]
  <2>1. n \in DOMAIN Api(env.upstream) /\ entries[n] = Api(env.upstream)[n]
    BY <1>8 DEF InputAars
  <2>2. n \in EachAbi({Arm64} \cup OtherAbis, {JniLibrary})
    BY <2>1, ApiNatives DEF OfficialNatives
  <2>3. PICK abi \in {Arm64} \cup OtherAbis : n = Jni(abi, JniLibrary)
    BY <2>2 DEF EachAbi
  <2>4. entries[n] = OfficialLibrary(env.upstream, abi, JniLibrary)
    <3>1. Api(env.upstream)[n] = OfficialLibrary(env.upstream, n[2], n[3])
      BY <2>2, ApiNatives DEF OfficialNatives
    <3>2. n[2] = abi /\ n[3] = JniLibrary
      BY <2>3, <1>4
    <3>. QED
      BY <2>1, <3>1, <3>2
  <2>5. abi # Arm64
    BY <1>8, <2>3, ArmNatives DEF ArmJni
  <2>6. Made(entries[n], n)
    BY <2>3, <2>4, <2>5, <1>3, OfficialIsMade
  <2>. QED
    BY <2>3, <2>6, <1>3, <1>4 DEF OfNames
<1>. QED
  BY <1>1, <1>5, <1>6, <1>7, <1>8 DEF PackagedFrom

(* A step that leaves dist alone.                                          *)
LEMMA ContentKept ==
  ASSUME ContentInv, UNCHANGED <<env, dist>>,
         pc' \in {pc, "idle"} \cup BeforePackage,
         moved' = TRUE \/ UNCHANGED <<repo, moved>>
  PROVE  ContentInv'
<1>1. TheAar' = TheAar /\ Assets' = Assets
  BY DEF TheAar, Assets
<1>2. /\ Past(AfterPackage)' => Past(AfterPackage)
      /\ Past(AfterPackage \ {"verify"})' => Past(AfterPackage \ {"verify"})
      /\ Past({"copies", "sums", "check"})' => Past({"copies", "sums", "check"})
      /\ Past({"sums", "check"})' => Past({"sums", "check"})
      /\ pc' \in {"maven", "copies"} => pc \in {"maven", "copies"}
  BY DEF Past, AfterPackage, BeforePackage
<1>3. Verified' <=> Verified
  BY <1>1 DEF Verified
<1>. QED
  BY <1>1, <1>2, <1>3 DEF ContentInv

(* A run that starts has nothing to say of dist.                           *)
LEMMA ContentGone ==
  ASSUME dist' = <<>>, pc' \in {"idle", "download"}
  PROVE  ContentInv'
<1>1. Sums \notin DOMAIN dist'
  OBVIOUS
<1>. QED
  BY <1>1 DEF ContentInv, Past, AfterPackage

(* The packager leaves an assembled AAR.                                   *)
LEMMA ContentPackageAar ==
  ASSUME WorkInv, NamesInv, ContentInv, PackageAar
  PROVE  ContentInv'
<1>1. CASE pc' = "verify"
  <2>1. pc = "package" /\ env' = env
        /\ package_errors(InputAars, ArmLibraries, repo.contract) = {}
    BY <1>1 DEF PackageAar, CheckThen, Raise, Goto
  <2>2. /\ DOMAIN dist' = PackagedNames
        /\ TheAar' = packaged_entries(InputAars, ArmLibraries, repo.contract)
    BY <1>1, <2>1, PackageAarWrites DEF TheAar, Aar
  <2>3. Assembled(TheAar')
    BY <2>1, <2>2, PackagedIsAssembled
  <2>4. Sums \notin DOMAIN dist'
    BY <2>2, NameParts DEF PackagedNames
  <2>. QED
    BY <1>1, <2>3, <2>4 DEF ContentInv, Past, AfterPackage
<1>2. CASE pc' # "verify"
  <2>1. pc' = "idle" /\ UNCHANGED <<env, dist, repo, moved>>
    BY <1>2 DEF PackageAar, CheckThen, Raise, Goto
  <2>. QED
    BY <2>1, ContentKept
<1>. QED
  BY <1>1, <1>2

(* What it means that the verifier has found no error.                     *)
LEMMA VerifiedMeans ==
  ASSUME NEW entries, NEW manifest, NEW contract,
         Passes(entries, manifest, contract)
  PROVE  /\ entries[ContractEntry] = contract
         /\ DOMAIN Natives(entries) = expected_native_entries(contract)
         /\ \A abi \in OtherAbis \cup {"x86"} : Jni(abi, Accelerator) \notin DOMAIN entries
         /\ RequiredClasses \subseteq DOMAIN entries[ClassesJar]
         /\ entries[ArmShim].marker = MarkersOf(contract)
         /\ entries[ArmJni].marker = JniMarker
         /\ manifest.aar = entries /\ manifest.capability = contract.capability
         /\ \A n \in DOMAIN entries : IsNative(n) /\ n[2] = Arm64 => entries[n].aligned
<1>1. /\ verify_entries(entries, contract) = {}
      /\ verify_arm64(entries, contract)
         \cup verify_manifest(manifest, entries, contract)
         \cup verify_arm64_page_alignment(entries) = {}
  BY DEF Passes, verify_errors
<1>2. /\ verify_arm64(entries, contract) = {} /\ verify_manifest(manifest, entries, contract) = {}
      /\ verify_arm64_page_alignment(entries) = {}
  BY <1>1, UnionEmpty
<1>3. /\ entries[ContractEntry] = contract
      /\ DOMAIN Natives(entries) = expected_native_entries(contract)
      /\ \A abi \in OtherAbis \cup {"x86"} : Jni(abi, Accelerator) \notin DOMAIN entries
      /\ RequiredClasses \subseteq DOMAIN entries[ClassesJar]
  <2>1. /\ ErrorIf(entries[ContractEntry] # contract, "embedded contract") = {}
        /\ ErrorIf(DOMAIN Natives(entries) # expected_native_entries(contract),
                   "native matrix") = {}
        /\ ErrorIf(\E abi \in OtherAbis \cup {"x86"} : Jni(abi, Accelerator) \in DOMAIN entries,
                   "unbounded accelerator") = {}
        /\ ErrorIf(~ RequiredClasses \subseteq DOMAIN entries[ClassesJar], "classes") = {}
    BY <1>1, UnionEmpty DEF verify_entries
  <2>. QED
    BY <2>1, NoErrorMeansNot
<1>4. entries[ArmShim].marker = MarkersOf(contract) /\ entries[ArmJni].marker = JniMarker
  <2>1. /\ ErrorIf(entries[Jni(Arm64, ShimLibrary)].marker # MarkersOf(contract),
                   "shim marker") = {}
        /\ ErrorIf(entries[Jni(Arm64, JniLibrary)].marker # JniMarker, "JNI marker") = {}
    BY <1>2, UnionEmpty DEF verify_arm64
  <2>. QED
    BY <2>1, NoErrorMeansNot DEF ArmShim, ArmJni
<1>5. manifest.aar = entries /\ manifest.capability = contract.capability
  <2>1. /\ ErrorIf(manifest.aar # entries, "AAR hash") = {}
        /\ ErrorIf(manifest.capability # contract.capability, "capability") = {}
    BY <1>2, UnionEmpty DEF verify_manifest
  <2>. QED
    BY <2>1, NoErrorMeansNot
<1>6. \A n \in DOMAIN entries : IsNative(n) /\ n[2] = Arm64 => entries[n].aligned
  BY <1>2, NoErrorMeansNot DEF verify_arm64_page_alignment
<1>. QED
  BY <1>3, <1>4, <1>5, <1>6

(* The verifier lets only an AAR without errors go on, against the         *)
(* contract inside it.                                                     *)
LEMMA ContentVerifyAar ==
  ASSUME NamesInv, ContentInv, VerifyAar
  PROVE  ContentInv'
<1>1. CASE pc' = "maven"
  <2>1. /\ pc = "verify" /\ UNCHANGED <<env, dist, repo, moved>>
        /\ Passes(TheAar, dist[Manifest], repo.contract)
    BY <1>1 DEF VerifyAar, CheckThen, Raise, Goto, VerifyErrors, TheAar, Passes
  <2>2. TheAar[ContractEntry] = repo.contract
    BY <2>1, VerifiedMeans
  <2>3. Verified
    BY <2>1, <2>2 DEF Verified
  <2>4. TheAar' = TheAar
    BY <2>1 DEF TheAar
  <2>5. Verified'
    BY <2>1, <2>3, <2>4 DEF Verified
  <2>6. Assembled(TheAar')
    BY <2>1, <2>4 DEF ContentInv, Past, AfterPackage
  <2>7. Sums \notin DOMAIN dist'
    BY <2>1 DEF NamesInv
  <2>. QED
    BY <1>1, <2>1, <2>2, <2>4, <2>5, <2>6, <2>7 DEF ContentInv, Past, AfterPackage
<1>2. CASE pc' # "maven"
  <2>1. pc' = "idle" /\ UNCHANGED <<env, dist, repo, moved>>
    BY <1>2 DEF VerifyAar, CheckThen, Raise, Goto
  <2>. QED
    BY <2>1, ContentKept
<1>. QED
  BY <1>1, <1>2

(* Repository and bundle are made from the AAR that was verified.          *)
LEMMA ContentPackageMaven ==
  ASSUME NamesInv, ContentInv, PackageMaven
  PROVE  ContentInv'
<1>1. pc = "maven" /\ pc' = "copies" /\ UNCHANGED <<env, repo, moved>>
  BY DEF PackageMaven, Goto
<1>2. dist'[Aar(env.version)] = dist[Aar(env.version)] /\ dist'[Manifest] = dist[Manifest]
  BY PackageMavenWrites DEF PackagedNames
<1>3. TheAar' = TheAar
  BY <1>1, <1>2 DEF TheAar, Aar
<1>4. Verified' /\ Assembled(TheAar')
  BY <1>1, <1>2, <1>3 DEF Verified, ContentInv, Past, AfterPackage
<1>5. /\ dist'[Repository] = maven_repository(TheAar', env'.version)
      /\ dist'[Bundle(env'.version)] = maven_repository(TheAar', env'.version)
  BY <1>1, <1>3, PackageMavenWrites
<1>6. Sums \notin DOMAIN dist'
  <2>1. Sums \notin MavenNames
    BY NameParts DEF MavenNames, PackagedNames
  <2>. QED
    BY <2>1, PackageMavenWrites
<1>. QED
  BY <1>1, <1>3, <1>4, <1>5, <1>6 DEF ContentInv, Past, AfterPackage

(* The copy of the contract is that of the AAR, unless the checkout moved. *)
LEMMA ContentCopyTexts ==
  ASSUME NamesInv, ContentInv, CopyTexts
  PROVE  ContentInv'
<1>1. pc = "copies" /\ pc' = "sums" /\ UNCHANGED <<env, repo, moved>>
  BY DEF CopyTexts, Goto
<1>2. \A n \in {Aar(env.version), Manifest, Repository, Bundle(env.version)} : dist'[n] = dist[n]
  BY CopyTextsWrites DEF PackagedNames, MavenNames
<1>3. TheAar' = TheAar
  BY <1>1, <1>2 DEF TheAar, Aar
<1>4. Verified' /\ Assembled(TheAar')
  BY <1>1, <1>2, <1>3 DEF Verified, ContentInv, Past, AfterPackage
<1>5. /\ dist'[Repository] = maven_repository(TheAar', env'.version)
      /\ dist'[Bundle(env'.version)] = maven_repository(TheAar', env'.version)
  BY <1>1, <1>2, <1>3 DEF ContentInv, Past
<1>6. ~ moved' => dist'[ContractCopy] = TheAar'[ContractEntry]
  BY <1>1, <1>3, CopyTextsWrites DEF ContentInv
<1>7. Sums \notin DOMAIN dist'
  BY CopyTextsWrites, NameParts DEF CopiedNames, MavenNames, PackagedNames
<1>. QED
  BY <1>1, <1>4, <1>5, <1>6, <1>7 DEF ContentInv, Past, AfterPackage

(* Checksums are those of the files they stand beside.                     *)
LEMMA ContentWriteChecksums ==
  ASSUME NamesInv, ContentInv, WriteChecksums
  PROVE  ContentInv'
<1>1. pc = "sums" /\ pc' = "check" /\ UNCHANGED <<env, repo, moved>>
  BY DEF WriteChecksums, Goto
<1>2. \A n \in {Aar(env.version), Manifest, Repository, Bundle(env.version), ContractCopy} :
        dist'[n] = dist[n]
  BY WriteChecksumsWrites DEF PackagedNames, MavenNames, CopiedNames
<1>3. TheAar' = TheAar
  BY <1>1, <1>2 DEF TheAar, Aar
<1>4. Verified' /\ Assembled(TheAar')
  BY <1>1, <1>2, <1>3 DEF Verified, ContentInv, Past, AfterPackage
<1>5. /\ dist'[Repository] = maven_repository(TheAar', env'.version)
      /\ dist'[Bundle(env'.version)] = maven_repository(TheAar', env'.version)
  BY <1>1, <1>2, <1>3 DEF ContentInv, Past
<1>6. ~ moved' => dist'[ContractCopy] = TheAar'[ContractEntry]
  BY <1>1, <1>2, <1>3 DEF ContentInv, Past
<1>7. dist'[Sums] = Restrict(dist', Assets')
  <2>1. Assets' = Assets
    BY WriteChecksumsWrites DEF Assets, AllNames
  <2>2. \A n \in Assets : dist'[n] = dist[n]
    BY WriteChecksumsWrites DEF Assets
  <2>3. Restrict(dist', Assets) = Restrict(dist, Assets)
    BY <2>2 DEF Restrict
  <2>. QED
    BY <2>1, <2>3, WriteChecksumsWrites
<1>. QED
  BY <1>1, <1>4, <1>5, <1>6, <1>7 DEF ContentInv, Past, AfterPackage

(* Each step of a run keeps what is known of the files in dist.            *)
LEMMA ContentRunStep ==
  ASSUME WorkInv, NamesInv, ContentInv, RunStep
  PROVE  ContentInv'
<1>1. CASE Stop \/ Curl \/ UseCached \/ CheckInput \/ BuildJni \/ CheckNativePins
           \/ InstallJni \/ CompileShim \/ PatchAccelerator \/ CheckChecksums
  <2>1. UNCHANGED <<env, dist, repo, moved>>
    BY <1>1 DEF Stop, Curl, UseCached, CheckInput, BuildJni, CheckNativePins, InstallJni,
                CompileShim, PatchAccelerator, CheckChecksums
  <2>2. pc' \in {"idle"} \cup BeforePackage
    BY <1>1 DEF Stop, Curl, UseCached, CheckInput, BuildJni, CheckNativePins, InstallJni,
                CompileShim, PatchAccelerator, CheckChecksums, Goto, Raise, CheckThen,
                BeforePackage
  <2>. QED
    BY <2>1, <2>2, ContentKept
<1>. QED
  BY <1>1, ContentPackageAar, ContentVerifyAar, ContentPackageMaven, ContentCopyTexts,
     ContentWriteChecksums DEF RunStep

----------------------------------------------------------------------------
(* The build as a whole *)

BuildInv == TypeInv /\ WorkInv /\ NamesInv /\ ContentInv

LEMMA BuildInit == Init => BuildInv
<1> SUFFICES ASSUME Init PROVE WorkInv /\ NamesInv /\ ContentInv
  BY TypeInit DEF BuildInv
<1>1. pc = "idle" /\ dist = <<>> /\ work = <<>> /\ writers = {} /\ outcome = "none"
  BY DEF Init, MachineInit
<1>2. Sums \notin DOMAIN dist
  BY <1>1
<1>. QED
  BY <1>1, <1>2 DEF WorkInv, NamesInv, ContentInv, BeforePackage, AfterPackage, Past

(* A run that starts finds both directories empty.                         *)
LEMMA StartBuild ==
  ASSUME NEW checkout, Start(checkout)
  PROVE  WorkInv' /\ NamesInv' /\ ContentInv'
  BY WorkGone, NamesGone, ContentGone DEF Start, Goto

(* A step that leaves the machine alone, but for a checkout that moves.    *)
LEMMA MachineKept ==
  ASSUME BuildInv, UNCHANGED <<env, work, dist, pc, outcome, writers, runs>>,
         moved' = TRUE \/ UNCHANGED <<repo, moved>>
  PROVE  WorkInv' /\ NamesInv' /\ ContentInv'
  BY WorkKept, NamesKept, ContentKept DEF BuildInv

(* Every step keeps what is known of a run.                                *)
LEMMA BuildNext == BuildInv /\ [Next]_vars => BuildInv'
<1> SUFFICES ASSUME BuildInv, [Next]_vars
             PROVE  WorkInv' /\ NamesInv' /\ ContentInv'
  BY TypeStep DEF BuildInv
<1>1. CASE StartLocally
  BY <1>1, StartBuild DEF StartLocally
<1>2. CASE AtWorkstation
  <2>1. CASE UseSupplied
    BY <2>1, MachineKept DEF UseSupplied, Goto, counters
  <2>2. CASE MoveRepo
    BY <2>2, MachineKept DEF MoveRepo
  <2>3. CASE RemoveCached
    BY <2>3, MachineKept DEF RemoveCached, counters
  <2>. QED
    BY <1>2, <2>1, <2>2, <2>3 DEF AtWorkstation
<1>3. CASE Step
  BY <1>3, WorkRunStep, NamesRunStep, ContentRunStep DEF Step, BuildInv, TypeInv
<1>4. CASE PushTag \/ StartFlow \/ Rerun \/ Compare \/ CheckSums \/ PublishRelease \/ PublishFails
  BY <1>4, MachineKept DEF PushTag, StartFlow, Rerun, Compare, CheckSums, PublishRelease,
                           PublishFails, Publishing, machine, counters
<1>5. ASSUME NEW r \in Replicas, StartJob(r) PROVE WorkInv' /\ NamesInv' /\ ContentInv'
  BY <1>5, StartBuild, MachineKept DEF StartJob, JobBuilds, machine, counters
<1>6. ASSUME NEW r \in Replicas, FinishJob(r) PROVE WorkInv' /\ NamesInv' /\ ContentInv'
  BY <1>6, WorkGone, NamesGone, ContentGone DEF FinishJob, DiscardRunner
<1>7. CASE UNCHANGED vars
  BY <1>7, MachineKept DEF vars, machine, counters
<1>. QED
  BY <1>1, <1>2, <1>3, <1>4, <1>5, <1>6, <1>7 DEF Next

(* There is one AAR in a dist directory with checksums, and its name has   *)
(* the version of the .env file.                                           *)
LEMMA OneAar ==
  ASSUME NamesInv, Sums \in DOMAIN dist, NEW n \in DOMAIN dist, n[2] = ".aar"
  PROVE  n = Aar(env.version)
<1>1. n \in AllNames
  BY DEF NamesInv
<1>. QED
  BY <1>1, NameParts DEF AllNames, CopiedNames, MavenNames, PackagedNames

(* The checksums in dist are those of its assets.                          *)
LEMMA SumsOfDist ==
  ASSUME NamesInv, ContentInv, Sums \in DOMAIN dist
  PROVE  DOMAIN dist[Sums] = Assets /\ Matches(dist)
<1>1. dist[Sums] = Restrict(dist, Assets)
  BY DEF ContentInv
<1>2. DOMAIN dist[Sums] = Assets /\ \A n \in Assets : dist[Sums][n] = dist[n]
  BY <1>1, Restricted
<1>. QED
  BY <1>2 DEF Matches, Assets

(* What the Maven repository holds of the AAR and its version.             *)
LEMMA MavenHoldsAar ==
  ASSUME NEW entries, NEW version
  PROVE  /\ maven_repository(entries, version)[Aar(version)] = entries
         /\ maven_repository(entries, version)[<<version, ".pom">>] = [version |-> version]
<1>1. <<version, ".pom">> # <<version, ".aar">>
  OBVIOUS
<1>. QED
  BY <1>1 DEF maven_repository, Aar, @@, :>

(* The files in dist are of one run and agree with each other.             *)
LEMMA SumsVouch == BuildInv => SumsVouchForDist
<1> SUFFICES ASSUME BuildInv, Sums \in DOMAIN dist
             PROVE  /\ Cardinality(writers) = 1
                    /\ DOMAIN dist[Sums] = Assets /\ Matches(dist)
                    /\ \A n \in DOMAIN dist : n[2] = ".aar" =>
                         /\ dist[Repository][n] = dist[n] /\ dist[Bundle(n[1])][n] = dist[n]
                         /\ ~ moved => dist[ContractCopy] = dist[n][ContractEntry]
  BY DEF SumsVouchForDist
<1> USE DEF BuildInv
<1>1. Cardinality(writers) = 1
  <2>1. PICK run \in 1..runs : writers = {run}
    BY DEF NamesInv
  <2>. QED
    BY <2>1, FS_Singleton
<1>2. ASSUME NEW n \in DOMAIN dist, n[2] = ".aar"
      PROVE  /\ dist[Repository][n] = dist[n] /\ dist[Bundle(n[1])][n] = dist[n]
             /\ ~ moved => dist[ContractCopy] = dist[n][ContractEntry]
  <2>1. n = Aar(env.version) /\ n[1] = env.version /\ dist[n] = TheAar
    BY <1>2, OneAar, NameParts DEF TheAar
  <2>2. /\ dist[Repository] = maven_repository(TheAar, env.version)
        /\ dist[Bundle(env.version)] = maven_repository(TheAar, env.version)
        /\ ~ moved => dist[ContractCopy] = TheAar[ContractEntry]
    BY DEF ContentInv, Past
  <2>. QED
    <3>1. maven_repository(TheAar, env.version)[Aar(env.version)] = TheAar
      BY MavenHoldsAar
    <3>. QED
      BY <2>1, <2>2, <3>1
<1>. QED
  BY <1>1, <1>2, SumsOfDist

(* A library that is assembled and verified is what the contract intends.  *)
LEMMA VerifiedIsIntended ==
  ASSUME NEW aar, NEW manifest, Assembled(aar),
         Passes(aar, manifest, aar[ContractEntry]),
         NEW n \in DOMAIN aar, IsNative(n)
  PROVE  Intended(aar[n], n, aar[ContractEntry])
<1> DEFINE contract == aar[ContractEntry]
<1>1. /\ \A abi \in OtherAbis \cup {"x86"} : Jni(abi, Accelerator) \notin DOMAIN aar
      /\ aar[ArmShim].marker = MarkersOf(contract) /\ aar[ArmJni].marker = JniMarker
      /\ \A m \in DOMAIN aar : IsNative(m) /\ m[2] = Arm64 => aar[m].aligned
  BY VerifiedMeans
<1>2. /\ Made(aar[n], n)
      /\ n[3] = Accelerator => n[2] \in {Arm64} \cup OtherAbis
      /\ n[3] = ShimLibrary => n[2] = Arm64
  BY DEF Assembled
<1>3. PICK abi, l : n = Jni(abi, l)
  BY DEF Assembled
<1>4. n[2] = abi /\ n[3] = l
  BY <1>3 DEF Jni
<1>5. n[2] = Arm64 => aar[n].aligned
  BY <1>1
<1>6. n[3] = Accelerator => n[2] = Arm64 /\ aar[n].loads = <<ShimLibrary>>
  <2>1. SUFFICES ASSUME l = Accelerator PROVE abi = Arm64 /\ aar[n].loads = <<ShimLibrary>>
    BY <1>4
  <2>2. abi \notin OtherAbis
    BY <1>1, <1>3, <2>1
  <2>3. abi = Arm64
    BY <1>2, <1>4, <2>1, <2>2
  <2>. QED
    BY <1>2, <1>3, <2>1, <2>3 DEF Made, ArmAccelerator
<1>7. n[3] = ShimLibrary => aar[n].marker[1] = contract.capability
  <2>1. SUFFICES ASSUME l = ShimLibrary PROVE aar[n].marker[1] = contract.capability
    BY <1>4
  <2>2. n = ArmShim
    BY <1>2, <1>3, <1>4, <2>1 DEF ArmShim
  <2>. QED
    BY <1>1, <2>2 DEF MarkersOf
<1>8. aar[n].from = "built" /\ n[3] = JniLibrary => aar[n].marker = JniMarker
  <2>1. SUFFICES ASSUME l = JniLibrary, aar[n].from = "built" PROVE aar[n].marker = JniMarker
    BY <1>4
  <2>2. abi = Arm64
    BY <1>2, <1>4, <2>1 DEF Made, IntendedFrom
  <2>3. n = ArmJni
    BY <1>3, <2>1, <2>2 DEF ArmJni
  <2>. QED
    BY <1>1, <2>3
<1>. QED
  BY <1>2, <1>5, <1>6, <1>7, <1>8 DEF Intended, Made

(* Of the libraries that can have been assembled the verifier passes only  *)
(* the intended ones.                                                      *)
LEMMA VerifiedAar == BuildInv => VerifiedAarIsContract
<1> SUFFICES ASSUME BuildInv, NEW n \in DOMAIN dist, Sums \in DOMAIN dist, n[2] = ".aar"
             PROVE  LET aar == dist[n]
                        contract == aar[ContractEntry]
                    IN /\ DOMAIN Natives(aar) = expected_native_entries(contract)
                       /\ \A name \in DOMAIN Natives(aar) : Intended(aar[name], name, contract)
                       /\ RequiredClasses \subseteq DOMAIN aar[ClassesJar]
                       /\ dist[Manifest].aar = aar
                       /\ dist[Manifest].capability = contract.capability
  BY DEF VerifiedAarIsContract
<1>1. dist[n] = TheAar
  BY OneAar DEF BuildInv, TheAar
<1>2. PICK aar, manifest : aar = dist[n] /\ manifest = dist[Manifest]
  OBVIOUS
<1>3. Assembled(aar) /\ Passes(aar, manifest, aar[ContractEntry])
  BY <1>1, <1>2 DEF BuildInv, ContentInv, Past, Verified
<1>4. /\ DOMAIN Natives(aar) = expected_native_entries(aar[ContractEntry])
      /\ RequiredClasses \subseteq DOMAIN aar[ClassesJar]
      /\ manifest.aar = aar /\ manifest.capability = aar[ContractEntry].capability
  BY <1>3, VerifiedMeans
<1>5. \A name \in DOMAIN Natives(aar) : name \in DOMAIN aar /\ IsNative(name)
  BY Restricted DEF Natives
<1>6. \A name \in DOMAIN Natives(aar) : Intended(aar[name], name, aar[ContractEntry])
  BY <1>3, <1>5, VerifiedIsIntended
<1>. QED
  BY <1>2, <1>4, <1>6

----------------------------------------------------------------------------
(* The workflow.  A runner holds the checkout of its workflow from the     *)
(* start of its job to the end, and is thrown away then.                   *)

UploadedNames(version) ==
  {Aar(version), Manifest, Bundle(version), ContractCopy, Sums} \cup Licences

ArtifactOf(files, checkout) ==
  /\ DOMAIN files = UploadedNames(checkout.version)
  /\ DOMAIN files[Sums] = UploadedNames(checkout.version) \ {Sums}
  /\ Matches(files)
  /\ files[Manifest].repositoryCommit = checkout.commit
  /\ files[Bundle(checkout.version)][<<checkout.version, ".pom">>].version = checkout.version

RunnerInv ==
  /\ site = "workstation" => flow = <<>>
  /\ \A r \in Replicas : jobs[r] = "running" => env = flow.checkout /\ TagIsVersion
  /\ \A r, q \in Replicas : jobs[r] = "running" /\ jobs[q] = "running" => r = q
  /\ \A r \in Replicas : jobs[r] = "done" => artifact[r] # <<>>
  /\ \A r \in Replicas : artifact[r] # <<>> =>
       flow # <<>> /\ ArtifactOf(artifact[r], flow.checkout) /\ TagIsVersion

LEMMA RunnerInit == Init => RunnerInv
  BY DEF Init, RunnerInv, Replicas, Jobs

(* The globs of the upload take what the checksums list.                   *)
LEMMA UploadIsArtifact ==
  ASSUME BuildInv, Sums \in DOMAIN dist, NEW checkout, env = checkout,
         dist[Manifest].repositoryCommit = checkout.commit
  PROVE  ArtifactOf(Uploaded(dist), checkout) /\ Uploaded(dist) # <<>>
<1> DEFINE names == UploadedNames(checkout.version)
<1> DEFINE files == Uploaded(dist)
<1>1. DOMAIN dist = {Aar(checkout.version), Manifest, Repository, Bundle(checkout.version),
                     ContractCopy, Sums} \cup Licences
  BY DEF BuildInv, NamesInv, AllNames, CopiedNames, MavenNames, PackagedNames
<1>2. {n \in DOMAIN dist : n[2] \in UploadedSuffixes \/ n = Sums} = names
  <2>1. \A n : n \in DOMAIN dist <=> n \in names \/ n = Repository
    BY ONLY <1>1, Zenon DEF UploadedNames
  <2>2. \A n \in names : n[2] \in UploadedSuffixes \/ n = Sums
    <3>1. ASSUME NEW n \in names
          PROVE  \/ n = Aar(checkout.version) \/ n = Manifest \/ n = Bundle(checkout.version)
                 \/ n = ContractCopy \/ n = Sums \/ n \in Licences
      BY <3>1, Zenon DEF UploadedNames
    <3>2. ASSUME NEW n \in names PROVE n[2] \in {".aar", ".json", ".txt", ".zip"} \/ n = Sums
      <4>1. \A l \in Licences : l[2] = ".txt"
        BY ONLY NameParts
      <4>2. /\ Aar(checkout.version)[2] = ".aar" /\ Bundle(checkout.version)[2] = ".zip"
            /\ Manifest[2] = ".json" /\ ContractCopy[2] = ".json"
        BY ONLY NameParts
      <4>3. QED
        BY ONLY <3>1, <3>2, <4>1, <4>2
    <3>3. QED
      BY ONLY <3>2 DEF UploadedSuffixes
  <2>3. Repository[2] \notin UploadedSuffixes /\ Repository # Sums
    BY NameParts DEF UploadedSuffixes
  <2>. QED
    BY ONLY <2>1, <2>2, <2>3
<1>3. Assets = names \ {Sums}
  BY <1>1, NameParts DEF Assets, IsFile, UploadedNames
<1>4. DOMAIN files = names /\ \A n \in names : files[n] = dist[n]
  BY <1>2, Restricted DEF Uploaded
<1>5. Sums \in names /\ Manifest \in names /\ Bundle(checkout.version) \in names
  BY DEF UploadedNames
<1>6. DOMAIN dist[Sums] = Assets /\ \A n \in Assets : dist[Sums][n] = dist[n]
  BY SumsOfDist DEF BuildInv, Matches
<1>7. dist[Bundle(checkout.version)] = maven_repository(TheAar, checkout.version)
  BY DEF BuildInv, ContentInv, Past
<1> HIDE DEF names, files
<1>8. DOMAIN files[Sums] = names \ {Sums}
  BY <1>3, <1>4, <1>5, <1>6
<1>9. Matches(files)
  BY <1>3, <1>4, <1>5, <1>6 DEF Matches
<1>10. files[Manifest].repositoryCommit = checkout.commit
  BY <1>4, <1>5
<1>11. files[Bundle(checkout.version)][<<checkout.version, ".pom">>].version = checkout.version
  <2>1. files[Bundle(checkout.version)][<<checkout.version, ".pom">>] =
          [version |-> checkout.version]
    BY <1>4, <1>5, <1>7, MavenHoldsAar
  <2>. QED
    BY <2>1
<1>12. files # <<>>
  BY <1>4, <1>5
<1>. QED
  BY <1>4, <1>8, <1>9, <1>10, <1>11, <1>12 DEF ArtifactOf, files, names

(* An artifact is what a build job uploaded from its own dist directory.   *)
LEMMA RunnerStep ==
  ASSUME BuildInv, RunnerInv, [Next]_vars
  PROVE  RunnerInv'
<1>1. \A j \in Jobs : jobs = [k \in Jobs |-> jobs[k]]
  BY DEF BuildInv, TypeInv, FlowInv, IsJobs
<1>2. Replicas \subseteq Jobs /\ "publish" \in Jobs /\ "publish" \notin Replicas
  BY DEF Jobs, Replicas
<1>3. site = "workstation" => \A r \in Replicas : jobs[r] = "waiting"
  BY <1>2 DEF BuildInv, TypeInv, FlowInv, RunnerInv
<1>4. CASE StartLocally \/ AtWorkstation
  <2>1. UNCHANGED <<site, workflow>> /\ site = "workstation"
    BY <1>4 DEF StartLocally, AtWorkstation
  <2>. QED
    BY <2>1, <1>3 DEF RunnerInv, workflow, TagIsVersion
<1>5. CASE Step \/ PushTag \/ UNCHANGED vars
  <2>1. UNCHANGED <<site, flow, jobs, artifact, env>>
    BY <1>5 DEF Step, PushTag, vars, workflow, machine, RunStep, Stop, Curl, UseCached,
                CheckInput, BuildJni, CheckNativePins, InstallJni, CompileShim,
                PatchAccelerator, PackageAar, VerifyAar, PackageMaven, CopyTexts,
                WriteChecksums, CheckChecksums
  <2>. QED
    BY <2>1 DEF RunnerInv, TagIsVersion
<1>6. CASE StartFlow
  BY <1>6, <1>2 DEF StartFlow, RunnerInv
<1>7. CASE Rerun
  BY <1>7, <1>2 DEF Rerun, RunnerInv, machine, TagIsVersion
<1>8. CASE Compare \/ CheckSums \/ PublishRelease \/ PublishFails
  <2>1. UNCHANGED <<machine, site, flow, artifact>>
    BY <1>8 DEF Compare, CheckSums, PublishRelease, PublishFails, Publishing
  <2>2. \E state : jobs' = [jobs EXCEPT !["publish"] = state]
    BY <1>8 DEF Compare, CheckSums, PublishRelease, PublishFails, Publishing, SetJob
  <2>3. \A r \in Replicas : jobs'[r] = jobs[r]
    BY <2>2, <1>1, <1>2
  <2>. QED
    BY <2>1, <2>3 DEF RunnerInv, machine, TagIsVersion
<1>9. ASSUME NEW r \in Replicas, StartJob(r) PROVE RunnerInv'
  <2>1. UNCHANGED <<site, flow, artifact>> /\ NoneRuns
    BY <1>9 DEF StartJob, JobBuilds, MayStart
  <2>2. PICK state \in {"running", "failed"} : jobs' = [jobs EXCEPT ![r] = state]
    BY <1>9 DEF StartJob, JobBuilds, SetJob
  <2>3. \A q \in Replicas : jobs'[q] = IF q = r THEN state ELSE jobs[q]
    BY <2>2, <1>1, <1>2, <1>9
  <2>4. \A q \in Replicas : jobs[q] # "running"
    BY <2>1, <1>2 DEF NoneRuns
  <2>5. state = "running" => env' = flow.checkout /\ TagIsVersion
    <3>1. CASE TagIsVersion /\ TestsPass
      BY <3>1, <1>9 DEF StartJob, JobBuilds, Start
    <3>2. CASE ~ (TagIsVersion /\ TestsPass)
      <4>1. jobs' = [jobs EXCEPT ![r] = "failed"]
        BY <3>2, <1>9 DEF StartJob, JobBuilds, SetJob
      <4>. QED
        BY <4>1, <2>2, <2>3, <1>1, <1>2, <1>9
    <3>. QED
      BY <3>1, <3>2
  <2>. QED
    BY <2>1, <2>3, <2>4, <2>5 DEF RunnerInv, TagIsVersion
<1>10. ASSUME NEW r \in Replicas, FinishJob(r) PROVE RunnerInv'
  <2>1. /\ UNCHANGED <<site, flow>> /\ jobs[r] = "running"
        /\ env = flow.checkout /\ TagIsVersion
    BY <1>10 DEF FinishJob, RunnerInv
  <2>2. \A q \in Replicas \ {r} : jobs[q] # "running"
    BY <2>1, <1>10 DEF RunnerInv
  <2>3. CASE outcome = "ok" /\ dist[Manifest].repositoryCommit = flow.checkout.commit
    <3>1. /\ artifact' = [artifact EXCEPT ![r] = Uploaded(dist)]
          /\ jobs' = [jobs EXCEPT ![r] = "done"]
      BY <2>3, <1>10 DEF FinishJob, SetJob
    <3>2. \A q \in Replicas : /\ jobs'[q] = IF q = r THEN "done" ELSE jobs[q]
                              /\ artifact'[q] = IF q = r THEN Uploaded(dist) ELSE artifact[q]
      BY <3>1, <1>1, <1>2, <1>10 DEF BuildInv, TypeInv, FlowInv, IsJobs
    <3>3. ArtifactOf(Uploaded(dist), flow.checkout) /\ Uploaded(dist) # <<>>
      BY <2>1, <2>3, UploadIsArtifact DEF BuildInv, NamesInv
    <3>4. flow # <<>>
      BY <2>1, <1>2, <1>10 DEF BuildInv, TypeInv, FlowInv
    <3>. QED
      BY <2>1, <2>2, <3>2, <3>3, <3>4 DEF RunnerInv, TagIsVersion
  <2>4. CASE ~ (outcome = "ok" /\ dist[Manifest].repositoryCommit = flow.checkout.commit)
    <3>1. artifact' = artifact /\ jobs' = [jobs EXCEPT ![r] = "failed"]
      BY <2>4, <1>10 DEF FinishJob, SetJob
    <3>2. \A q \in Replicas : jobs'[q] = IF q = r THEN "failed" ELSE jobs[q]
      BY <3>1, <1>1, <1>2, <1>10
    <3>. QED
      BY <2>1, <2>2, <3>1, <3>2 DEF RunnerInv, TagIsVersion
  <2>. QED
    BY <2>3, <2>4
<1>. QED
  BY <1>4, <1>5, <1>6, <1>7, <1>8, <1>9, <1>10 DEF Next

(* What the tag, the workflow and the release have to do with each other   *)
(* as long as the tag was pushed once.                                     *)
ReleaseInv ==
  /\ pushes = 0 => tag = <<>> /\ released = <<>>
  /\ pushes = 0 /\ flow # <<>> => ~ flow.tagged
  /\ pushes = 1 /\ flow # <<>> /\ flow.tagged => flow.checkout = tag
  /\ ReleaseIsOfItsTag

LEMMA ReleaseInit == Init => ReleaseInv
  BY DEF Init, ReleaseInv, ReleaseIsOfItsTag

LEMMA ReleaseStep ==
  ASSUME BuildInv, RunnerInv, ReleaseInv, [Next]_vars
  PROVE  ReleaseInv'
<1>1. CASE UNCHANGED <<tag, pushes, flow, released>>
  BY <1>1 DEF ReleaseInv, ReleaseIsOfItsTag
<1>2. CASE PushTag
  <2>1. pushes \in Nat /\ pushes' = pushes + 1 /\ UNCHANGED <<flow, released>>
    BY <1>2, LocalAssumption DEF PushTag, BuildInv, TypeInv, PushType
  <2>. QED
    BY <2>1 DEF ReleaseInv, ReleaseIsOfItsTag
<1>3. CASE StartFlow
  <2>1. PICK c, tagged : /\ flow' = [checkout |-> c, tagged |-> tagged]
                         /\ tagged => tag # <<>> /\ c = tag
    <3>1. CASE tag # <<>> /\ flow' = [checkout |-> tag, tagged |-> TRUE]
      BY <3>1
    <3>2. CASE \E c \in Pushed : flow' = [checkout |-> c, tagged |-> FALSE]
      BY <3>2
    <3>. QED
      BY <1>3, <3>1, <3>2 DEF StartFlow
  <2>2. flow'.checkout = c /\ flow'.tagged = tagged
    BY <2>1
  <2>3. UNCHANGED <<tag, pushes, released>>
    BY <1>3 DEF StartFlow
  <2>. QED
    BY <2>1, <2>2, <2>3 DEF ReleaseInv, ReleaseIsOfItsTag
<1>4. CASE PublishRelease /\ released' # released
  <2>1. /\ flow.tagged /\ released = <<>> /\ released' = artifact["a"]
        /\ UNCHANGED <<tag, pushes, flow>> /\ jobs["publish"] = "release"
    BY <1>4 DEF PublishRelease, Publishing
  <2>2. artifact["a"] # <<>>
    BY <2>1 DEF BuildInv, TypeInv, FlowInv, BothBuilt, RunnerInv, Replicas
  <2>3. flow # <<>> /\ ArtifactOf(artifact["a"], flow.checkout) /\ TagIsVersion
    BY <2>2 DEF RunnerInv, Replicas
  <2>4. flow.checkout.version = TagVersion
    BY <2>1, <2>3 DEF TagIsVersion
  <2>5. /\ {Aar(TagVersion), Bundle(TagVersion)} \subseteq DOMAIN released'
        /\ released'[Bundle(TagVersion)][<<TagVersion, ".pom">>].version = TagVersion
        /\ released'[Manifest].repositoryCommit = flow.checkout.commit
    BY <2>1, <2>3, <2>4 DEF ArtifactOf, UploadedNames
  <2>6. pushes # 0 /\ (pushes = 1 => flow.checkout = tag)
    BY <2>1, <2>3 DEF ReleaseInv
  <2>. QED
    BY <2>1, <2>5, <2>6 DEF ReleaseInv, ReleaseIsOfItsTag
<1>5. CASE StartLocally \/ AtWorkstation \/ Step \/ UNCHANGED vars
  BY <1>5, <1>1 DEF StartLocally, AtWorkstation, Step, vars, workflow
<1>6. CASE Rerun \/ Compare \/ CheckSums \/ PublishFails
  BY <1>6, <1>1 DEF Rerun, Compare, CheckSums, PublishFails, Publishing
<1>7. CASE PublishRelease /\ released' = released
  <2>1. UNCHANGED <<tag, pushes, flow>>
    BY <1>7 DEF PublishRelease, Publishing
  <2>. QED
    BY <2>1, <1>1, <1>7
<1>8. ASSUME NEW r \in Replicas, StartJob(r) \/ FinishJob(r) PROVE ReleaseInv'
  BY <1>8, <1>1 DEF StartJob, JobBuilds, FinishJob
<1>. QED
  BY <1>2, <1>3, <1>4, <1>5, <1>6, <1>7, <1>8 DEF Next

----------------------------------------------------------------------------
(* The theorems *)

ReleaseBuildInv == BuildInv /\ RunnerInv /\ ReleaseInv

(* All of it holds in every state.                                         *)
LEMMA ReleaseBuild == Spec => []ReleaseBuildInv
<1>1. Init => ReleaseBuildInv
  BY BuildInit, RunnerInit, ReleaseInit DEF ReleaseBuildInv
<1>2. ReleaseBuildInv /\ [Next]_vars => ReleaseBuildInv'
  BY BuildNext, RunnerStep, ReleaseStep DEF ReleaseBuildInv
<1>. QED
  BY <1>1, <1>2, PTL DEF Spec

(* Every variable has its type, and a build job that is done has uploaded  *)
(* something (build-bounded-gpu-runtime.sh, bounded-gpu-runtime.yml).      *)
THEOREM TypeCorrect == Spec => []TypeOK
<1>1. ReleaseBuildInv => TypeOK
  BY FiveInputs DEF ReleaseBuildInv, BuildInv, TypeInv, InputInv, MachineType, CheckoutType,
     CacheType, RunType, CountType, Stages, PushType, JobType, RunnerInv, TypeOK
<1>. QED
  BY <1>1, ReleaseBuild, PTL

(* A dist directory with checksums is the work of one run and agrees with  *)
(* its checksums, whatever stopped the runs before it and however the      *)
(* checkout moved (build-bounded-gpu-runtime.sh:26-34, 189-224).                   *)
THEOREM SumsVouchForOneRun == Spec => []SumsVouchForDist
<1>1. ReleaseBuildInv => SumsVouchForDist
  BY SumsVouch DEF ReleaseBuildInv
<1>. QED
  BY <1>1, ReleaseBuild, PTL

(* An AAR that has checksums holds, for every library of the contract      *)
(* embedded in it, the one the contract wants, whatever an official AAR of *)
(* another version brings and whatever a compilation gave                  *)
(* (package_bounded_gpu_aar.py, verify_bounded_gpu_aar.py).                *)
THEOREM VerifiedAarIsIntended == Spec => []VerifiedAarIsContract
<1>1. ReleaseBuildInv => VerifiedAarIsContract
  BY VerifiedAar DEF ReleaseBuildInv
<1>. QED
  BY <1>1, ReleaseBuild, PTL

(* The upload globs and the list of checksums name the same files          *)
(* (bounded-gpu-runtime.yml:68-83, write_checksums.py).                    *)
THEOREM UploadMatchesSums == Spec => []UploadIsWhatSumsList
<1>1. ReleaseBuildInv => UploadIsWhatSumsList
  BY DEF ReleaseBuildInv, RunnerInv, ArtifactOf, UploadedNames, UploadIsWhatSumsList
<1>. QED
  BY <1>1, ReleaseBuild, PTL

(* A release has the version of its tag and, if the tag was pushed once,   *)
(* its commit (bounded-gpu-runtime.yml:31-48, 126-137).                    *)
THEOREM ReleaseIsTagged == Spec => []ReleaseIsOfItsTag
<1>1. ReleaseBuildInv => ReleaseIsOfItsTag
  BY DEF ReleaseBuildInv, ReleaseInv
<1>. QED
  BY <1>1, ReleaseBuild, PTL

=============================================================================
