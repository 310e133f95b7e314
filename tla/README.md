# A TLA+ model of bss-litert-android

This directory specifies the parts of the repository whose correctness depends on order: the
OpenCL queue bounds (a C library, its prototype, and a patch to LiteRT's delegate), driven by
several threads and a GPU; the programs that build, package and stage a release, which are
interrupted and run again over what earlier runs left; and the workflow that builds twice, compares
and publishes. Small instances are checked with TLC; the safety properties and refinements are
proved with TLAPS for every value of the constants.

## 1. Inventory

| Component | Sources | State | Operations | What makes it correct |
|---|---|---|---|---|
| Bounded OpenCL shim | `runtime/bounded-gpu/opencl_queue_shim.c` | vendor symbols behind `pthread_once`, the switch `g_inference_enabled`, four relaxed atomic counters | the interposed `clEnqueueNDRangeKernel`; reset and set-enabled; getters | success means the kernel has finished; no event leaks or is released for its owner; the counters agree; calls return |
| Java runtime API | `runtime/bounded-gpu/java/.../BssLiteRtRuntime.java` | `NATIVE_LOADED`, final | `beginInference`, `endInference`, `resetInferenceCounters`, queries | the switch is on while an inference runs |
| Queue window prototype | `experiments/opencl-queue-window/opencl_queue_shim.c` | a table of 32 queue counters under a mutex, the window property, switch and counters | the interposed enqueue, `nativeReset`, set-enabled | the work ahead on a queue is bounded |
| Bounded dispatch patch | `patches/complete-runtime/0003-bounded-opencl-queue.patch` | `batches_since_wait`, `boundary_event`, an in-order queue | `Dispatch` | a window bounds the unfinished batches, also across dispatches and failed waits; every wait ends |
| Downloadable bundles | `scripts/build_downloadable_runtime_bundles.py`, `verify_downloadable_runtime_bundles.py`, `deterministic_archive.py` | cached AAR, `.part` file, release directory, `SHA256SUMS` | build, verify | only the pinned AAR is packaged; a rerun recovers; what is accepted is one whole release |
| Complete runtime build | `scripts/build-complete-runtime.sh` and the ten scripts it calls | checkout, cached Bazel, source tree, Bazel output, dist directory with manifest and provenance | guards, patch series, builds per ABI, checks, package, audit | only pinned tools; only an exactly patched tree is compiled; what is handed on is what was checked and recorded |
| Maven staging and comparison | `scripts/stage-maven-publication.sh`, `prepare_maven_publication.py`, `verify_maven_staging.py`, `compare_release_builds.py`, `assemble_maven_bundle.py`, `write_maven_checksums.py`, `remove_maven_repository_metadata.py`, `publication/build.gradle.kts` | two staging repositories with sidecars and signatures, the bundle | prepare, publish, normalise, verify, consume, compare, assemble | two trees are equal up to signatures; the bundle is signed by a key of the keyring and describes itself |
| Bounded GPU AAR build | `scripts/build-bounded-gpu-runtime.sh`, `package_bounded_gpu_aar.py`, `verify_bounded_gpu_aar.py`, `package_bounded_gpu_maven.py`, `patch_bounded_gpu_accelerator.py`, `write_checksums.py` | download cache, work and dist directories | verified downloads, builds, merge, package, verify, checksums | only hash-pinned inputs; every class and library exactly once; the checksums vouch for one run |
| Release workflow | `.github/workflows/bounded-gpu-runtime.yml` | tag, jobs, artifacts, release | build twice, compare, checksums, publish; jobs run again | nothing is published that two clean runners did not agree on, under a tag it does not belong to, or twice |
| Other workflows | `downloadable-runtime.yml`, `release.yml`, `ci.yml`, `complete-runtime.yml` (the last with Maven staging) | as above | as above | as above |
| x86 release | `scripts/build-release.sh`, `package_release.py`, `verify-elf.sh` | build cache, dist | build, package, checksum | as for the complete build |

Hard behaviours: threads that meet in relaxed atomics, the driver finishing kernels on its own
clock and failing any call, one global switch used by independent callers, a bound that is counted
before the driver has accepted the work; programs killed between two writes and started again,
inputs read several times in one run while the checkout moves, outputs written by hand-removed
halves of two runs; jobs that are run again one by one while the tag moves. The hazards, each at its
line, are listed in `PROJECT.json`.

Interactions: `BssLiteRtRuntime` calls the JNI functions of the shim, which share the switch and the
counters with the interposed enqueue called from LiteRT's GPU accelerator; the accelerator is
rewritten to load the shim by the AAR build; the AAR of a release is the pinned input of the bundle
builder; the complete build's component directory is what Maven staging reads; the workflows run the
builders twice and compare.

## 2. Modules

| Module | Models | Extends or composes |
|---|---|---|
| `BoundedQueue` | the abstract promise: a caller never has more than `Window` items of its own unfinished unless told of an error | |
| `BoundedShim` | the shim, the Java API that drives it, and the driver | implements `BoundedQueue` with a window of one |
| `MCBoundedShim` | driver tables and the thread symmetry for TLC | `BoundedShim` |
| `BoundedShimProofs` | types, `SuccessMeansFinished`, the statistics, the refinement | `BoundedShim` |
| `BoundedShimEventProofs` | ownership of events, initialisation | `BoundedShimProofs` |
| `BatchDispatch` | the dispatch loop of patch 0003, its caller and the in-order queue | implements `BoundedQueue` |
| `BatchDispatchProofs` | types, the two bounds, the refinement | `BatchDispatch` |
| `QueueWindowShim` | the prototype with its table of counters | |
| `MCQueueWindowShim` | the symmetry of threads and queues for TLC | `QueueWindowShim` |
| `QueueWindowShimProofs` | types of the table, the bound | `QueueWindowShim` |
| `DownloadableBundles` | builder, verifier, kills, reruns and contract changes | |
| `DownloadableBundlesProofs` | types and the four safety properties of the builder | `DownloadableBundles` |
| `Entries` | putting directories and archives together: `@@` and `:>` defined in TLA+ alone | |
| `RuntimeContract` | the complete runtime contract and the checks made against it, as operators on files and archives | `Entries` |
| `CompleteBuild` | `build-complete-runtime.sh` run again and again on one checkout | `RuntimeContract` |
| `MCCompleteBuild` | eight checkouts and the fit of their patches | `CompleteBuild` |
| `CompleteBuildProofs` | types, all safety properties of the build | `CompleteBuild` |
| `ReproducibleRelease` | the abstract promise: what is released is one candidate on which all replicas agree, once | |
| `MavenRelease` | two builds, their staging, comparison and bundle | `Entries`; implements `ReproducibleRelease` |
| `MavenReleaseProofs` | types, all safety properties, the refinement | `MavenRelease` |
| `BoundedAar` | the accelerator patch, the packager and the verifier of the bounded AAR, as operators | `Entries` |
| `BoundedGpuBuild` | `build-bounded-gpu-runtime.sh` on one machine | `BoundedAar` |
| `BoundedGpuRelease` | a workstation, or the workflow with its runners, tag and release | composes `BoundedGpuBuild`; implements `ReproducibleRelease` |
| `MCBoundedGpuRelease` | ten checkouts, right or wrong in one respect | `BoundedGpuRelease` |
| `BoundedGpuReleaseProofs` | types, all safety properties of the build and the workflow, the refinement | `BoundedGpuRelease` |

### BoundedShim

One step is one access to shared memory or one call into the driver. `pc[t]` walks through
`clEnqueueNDRangeKernel` in the order of the C code: `OnceBegin`/`InitializeShim`/`OncePass`
(`pthread_once`), `Gate` (the one read of the switch), `Count`, `Enqueue`/`EnqueueFails`, `Wait`,
`RecordCount`, `RecordTotal`, `LoadMax`, `SwapMax`/`SwapMaxFails` (`record_wait` with its
compare-and-exchange loop), `Release`. A controller is a Java thread: `StartControl`, then the
exchange of `SetInferenceEnabled` or the five stores of `ResetStore`. The driver is external: it
queues or refuses a kernel, finishes kernels in any order (`FinishKernel`), may fail a wait or a
release, with any status of `Errors` (the one the shim uses itself, `CL_INVALID_OPERATION`,
included, for `Release` and `EnqueueFails` pass it through), and may lack a symbol
(`VendorTables`). A kernel and its event are named by thread and call number. `returned`,
`refused`, `accepted`, `erred`, `active`, `torn`, `unrecorded`, `recorded` and the field `unseen` of
a call are history: no guard reads them but the bound on calls and the naming of kernels.
`accepted` is every kernel the driver took, `erred` the calls it answered with an error itself, and
`unseen` the inferences that were active when a call found the flag clear.

Left out: `log_summary`, the getters and the capability queries, which only read;
`NATIVE_LOADED = false`, which makes every Java operation throw and is the behaviour without control
steps. A spurious failure of the weak compare-and-exchange finds the value it expected and repeats
the test: a stuttering step. Relaxed ordering is modelled per location, which is all that
`SuccessMeansFinished`, the events and `MaxWaitIsExact` depend on; for `CountsAgree`, which compares
two locations, a reader is taken to be ordered after the calls it counts (the Java caller reads the
counters after its inference has returned). Time is a value: `Durations` are the differences of
two clock readings, and the fault `clock` is a second reading that fails.

### BatchDispatch

The queue is in order, so it is the counters `added`, `flushed`, `finished`. `AddToQueue` adds a
batch and says whether the graph is at its end (`offset = -1`), `EnqueueEvent` marks the boundary,
`ClFlush` flushes, `Wait` returns when the boundary has finished. `RETURN_IF_ERROR` and
`ASSIGN_OR_RETURN` leave the loop with work unflushed. The status of `boundary_event.Wait()` is not
looked at by the code: `WaitFails` returns at any time, starts the count over and goes on above
batches that may still be running. Nothing in the code keeps the work on the queue small after
that, so the properties pay for each such error: `unheeded` counts the failed waits of this
dispatch since one succeeded, `missed` the failed waits and error returns of all dispatches, `mark`
is what had been added at the last wait, and `errors` counts everything OpenCL reported, returned or
not; they are history. `drains` says whether the
caller reads the outputs, and so waits for the queue, before the next run. `Window` is
`command_queue_window_size_`; zero, upstream's behaviour, is allowed by the model and excluded by
the properties that speak of a bound. `AddToQueue`, the flush and the GPU are external.

### QueueWindowShim

`Count` is the mutex-protected search for a slot: the queue's own, the first empty one, or the
first, whose owner loses its count. Statistics, `pthread_once` and the release of events are those
of `BoundedShim` and are not modelled again. `lost[q]` counts the boundaries of the current session
that nobody waited for.

### DownloadableBundles

A version stands for a contract and the one AAR it freezes. Two contracts may use the same cached
name, which is the worse case. The contract may change at any moment, and a run reads it twice:
`wanted` is what `main` read and takes the AAR by, `frozen` what `build_release` read and packages
by. `require_blob` and the hash of `classes.jar` (`EntriesAreFrozen`) compare the AAR's entries with
the second; `Shared` are the archives whose frozen entries two AARs have in common, so a mixed-up
run may get past some of them. `SharedAssumption` says that two AARs differ in some frozen entry. It
is needed: if they agreed in all of them, the licence texts and the manifest of the other AAR
would be packaged, and the verifier, which looks only at frozen entries, would not notice.

`Kill` ends a run between any two steps, without its `finally` clauses; `Cleanup` and `WriteFails`
are runs that end by an exception, with them. Assets are written in the order of `build_release`:
archives through a temporary name, the other files in place. `SHA256SUMS` is written last and is
either complete or as good as missing, because the verifier requires it to list the directory
exactly.

### RuntimeContract and CompleteBuild

A file is a record of the facts that some check can read from it (ELF or not, ABI, API level,
SONAME, NEEDED, symbols, and where it was compiled from), an archive or directory a function from
names to files. So equal records are files with equal hashes, and a script that compares hashes
compares records. Every check is an operator that returns its errors
(`verify_native_artifacts`, `verify_runtime_contract`, `package_complete_aar`, `audit_repository`,
`audit_candidate`, ...), named for the script or function it models; the values of the contract
that distinguish cases (SONAMEs, required symbols, JNI exports, API members, forbidden classes) are
constants of the module.

`CompleteBuild` has one action per stage of the shell script, which stops at the first error (`set
-e`). `Stop` ends a run between any two of them. What was written stays: `bazel` (the cached
binary), `tree`, `externals` (what the kept Bazel output has fetched), `dist`. `RemoveByHand`
removes one of them. A `FetchSource` that fails leaves the empty tree of `git init`, at which the
next run stops. `MoveRepo` moves the checkout while a run is going on: the shell read the `.env`
file at its start, but the lock and the patches are read again by five of its steps
(`VerifySourceLock`, `ResolvePatches`, `CheckPatches`, `ApplyPatches`, `WriteManifest`).
`ApplyPatches` changes the tree and only then looks for an offset. `EditComponent` changes the bytes
of a component in dist, or of an entry of the packaged AAR; `RestoreComponent` puts them back, so a
component may be edited, packaged, and be as recorded again when it is audited. `edited` remembers
whether any of this came before or after the manifest was written. Of the lock a manifest holds the
commit and the series (`Sources`), and only these are compared. `early`, `edited` and `writers` are
history variables.

Left out: the search for commands, SDK and NDK before anything is written, the wording of reports,
the contents of the dependency graph, and the order in which the libraries are built.

### MavenRelease

A payload is a record of what the verifier reads from it: hashes are the contents themselves, a
signature is the content it was made over with its key. `Prepare` writes the publication inputs,
`PublishPayload` publishes one payload with sidecar and (in the second replica) signature,
faithfully or wrong in one respect, `PublishMetadata` and `RemoveMetadata` are Gradle's metadata
files and their removal, then `WriteChecksums`, `VerifyStaging`, `Consume`, `Compare`, `Assemble`.
`Stop` ends a staging anywhere; `EmptyOutput` is the operator's removal, without which the next
`StartStage` is refused. An AAR may be replaced at any time after its build, the lock may move, a
compilation may give another class file. `apiOnly` is the mode for a release without native
libraries. `compared` is what `Compare` read of each replica when it accepted them.

`verify_maven_staging.py:68-81` runs `gpg --verify` without a fingerprint, and
`stage-maven-publication.sh:97-110` names no home, so any key of the user's keyring passes: that is
the constant `Keyring`, of which nothing is assumed. The workflow makes a fresh home with one key
for the staging (`complete-runtime.yml:88-99`); for it `Keyring` is the release key alone. Nothing
writes into a staged repository in the model: between the comparison and the bundle nothing is
verified again, and a payload replaced there would be bundled.

### BoundedAar, BoundedGpuBuild and BoundedGpuRelease

`BoundedAar` is the data side: how the official AARs are merged (every class and library once), the
accelerator redirected (`patched`: exactly one loader string, the pinned hash), the AAR packaged and
verified. An `upstream` says where a version of LiteRT may surprise these scripts. `BoundedGpuBuild`
is the shell script: five inputs in order (`Cache`, `Curl`, `UseCached`, `CheckInput`), where `curl`
writes to the final name, so an interrupted one leaves a partial file there; two compilations;
accelerator patch; package; verify; Maven bundle; copies; checksums; `sha256sum -c`.
`BoundedGpuRelease` puts it at a workstation, whose cache and checkout stay, or on the runners of
the workflow: a job starts from an empty machine at the workflow's commit, uploads by the globs of
the workflow (`Uploaded`), and fails or is run again; `Compare`, `CheckSums` and `PublishRelease`
are the publishing job. `PushTag` may move the tag while a workflow is going on, and workflows of
one ref wait for each other. The two build jobs share nothing, so their steps are taken one job
after the other.

## 3. Runs

| Run | Instance | What it shows |
|---|---|---|
| `shim_safety` | 2 threads with 1 call, 3 controller operations (begin, end or reset), every fault, both error statuses, drivers that lack a symbol, both kinds of event | success, ownership of events and initialisation are right in every interleaving |
| `shim_counters` | 3 threads with 1 call, 2 durations, 3 control operations (begin or reset), refused kernels, a clock that fails | the counters agree and no maximum is lost, unless a reset overlaps a call |
| `shim_live` | 2 threads with 2 calls, 2 control operations (begin or end), failing waits, fairness | the shim implements the bounded queue; calls and operations end |
| `shim_active` (violation) | 1 thread, 2 controllers, 3 control operations | the driver accepts a kernel that is not waited for while an inference goes on, because another controller's end or reset has cleared the flag |
| `batch_window` | window 2, up to 5 batches, 3 dispatches, every call may fail, fairness | the window holds within a dispatch and two windows across them, but for failed waits and errors; dispatches return; refinement |
| `batch_across` (violation) | window 2, up to 3 batches, 2 dispatches, callers that do not drain | a dispatch of three batches leaves one behind and the next adds two, because the count restarts |
| `window_bound` | 2 threads, 2 queues, 1 slot, window 2 or unusable, refused kernels, failed waits, reset | the bound the prototype really gives |
| `window_refused` (violation) | 1 thread, 1 queue, refused kernels | a refused boundary kernel lets the work exceed the documented window |
| `bundles` | 2 contracts that share two archives, 3 runs, kills and contract changes anywhere | pinned source, recovery by rerun, verified means one whole release, a run that ends leaves one |
| `complete_build` | 2 ABIs (one with an accelerator), 8 checkouts, 4 kinds of defective library, 2 runs, 1 move, 1 fault | pinned Bazel, exact patches, one run per directory, the contract, the seal of the manifest, the label |
| `maven_release` | 2 locks, 2 kinds of compilation, 3 stagings, 2 faults | the bundle is signed and describes itself, holds nothing of a staging that stopped, and is what both replicas agree on |
| `bounded_release` | 10 checkouts, 2 variants of a compilation, 3 runs (2 at a workstation), 2 pushes, 1 move, 1 fault | pinned inputs, checksums of one run, a contracted AAR, upload and checksums name the same files, the release belongs to its tag, is what both builds agree on and stays |

Bounds. Two threads are what races need here: every shared step involves one thread's value and what
one other did meanwhile. In `shim_safety` three control operations let the flag rise, fall and rise
again, or be reset, while two calls are anywhere; a second call per thread, which makes what a first
call left behind matter, is in `shim_live`, and the theorems cover any number of calls. In
`shim_counters` three operations are a begin, a reset and another begin, or a reset that meets calls
and one that meets none; with three threads a call before the reset leaves two that race after it,
and ending inference is left to the reset, which clears the same flag. Two durations let a smaller
maximum meet a larger one. In `shim_active` one controller begins and another's begin and end, or
reset, clear the flag. In `window_bound`, six calls are the fewest that reach the bound exactly:
with the term for stragglers (`Cardinality(Threads) - 1`) removed TLC finds a counterexample. A
window of two with five batches passes two boundaries and ends between them. Three runs of the
builder are an interrupted one, one for the other contract and one that recovers.

For the builds: what a run can find is what one earlier run left, so `complete_build` needs two
runs; one move of the checkout and one fault let every check meet its one reason to fail, and the
checkouts differ from a sound one in one respect each (a series that fits only with an offset, a
commit it does not fit, a binary patch, patches that are not the lock's, an uncommitted edit, a
missing GPU source). An edit is a fault, its undoing is free, so a component that is edited,
packaged and put back is among the states. With one move the condition `moves <= 2` of
`LabelIsWhatWasBuilt` always holds in this run; the theorem covers any number of moves. The bound is
exact: the same model with one run, no fault and three moves violates the clause if its `moves <= 2`
is removed, and two moves do not. The four defects are one per place that finds it: the ELF
inspection, its comparison with the contract, the JNI exports, the action graph. `maven_release`
needs a staging that stops and two that end, and two faults for a fault that hides another; its
keyring has the release key and another one, and a third key is in nobody's keyring.
`bounded_release` needs both builds of a workflow and one run again, and a tag that is pushed, then
moved.

`MaxCalls`, `MaxControls`, `MaxDispatches`, `MaxRuns`, `MaxMoves`, `MaxFaults`, `MaxStages`,
`MaxLocal` and `MaxPushes` are only bounds for TLC; deadlock checking is off where these bounds,
or a program that has ended, stop the system.

Symmetry is used only with invariants: threads (and queues) are interchangeable in every action.

Fairness. `CallStep` and `ControlStep` are weakly fair per process: a thread inside native code
keeps running, and each step but the two waits is always enabled. `pthread_once` lets a waiting
process on when the initialiser is done. The GPU finishes each kernel it accepted (`FinishKernel`).
Nobody has to begin a call. In `BatchDispatch` the driver has to finish only what has been flushed,
which is what makes the order of flush and wait matter. The build and release modules are stated
without fairness: their programs may be killed at any step and nobody has to start them again, so
they promise nothing about progress.

## 4. Disagreements and observations

Shown by the runs that expect a violation:

* The release notes promise an event wait after every kernel "while inference is active". The
  switch is one global flag: when one controller has begun inference and another ends one, or
  resets the counters, the driver accepts a kernel that is not waited for although the first
  inference has not ended.
* The patch describes the window as the limit of "unfinished kernel batches before an event wait".
  The count is local to one `Dispatch`: with a window of two, a dispatch of three batches leaves its
  last one behind, and the next one adds two more before it waits. `QueueWithinTwoWindows` says what
  does hold.
* The prototype's README speaks of "every configured number of successful kernel enqueues"; the
  code counts a dispatch before the driver has accepted it, so a refused boundary kernel passes
  without a wait.

Met while modelling the builds; the properties are stated so that they say what does hold:

* `write_component_manifest.py` reads the lock again. If the checkout moves to another series on the
  same commit between the patches and the manifest, the manifest names a series that was not
  applied and nothing fails; a move to another commit is caught by the provenance
  (`LabelIsWhatWasBuilt`).
* A component that is edited before the manifest is written is recorded as it is
  (`AcceptedIsContract` excludes it).
* The last audit compares the component directory with its manifest, and of the packaged AAR only
  the native libraries with the components (`audit_release_inputs.py:230-233`). An API or licence
  that is edited after the manifest, packaged and put back, or that is edited in the AAR, is not
  seen; a library is, and so is a component that stays edited (`SealedByManifest`).
* `verify_maven_staging.py` accepts a good signature of any key in the keyring (`BundleIsSigned`).
* `boundary_event.Wait()` may fail and the loop goes on (`0003-bounded-opencl-queue.patch:48`):
  every failed wait lets a dispatch run one window further ahead (`DispatchWithinWindow`).
* `collect_licenses.py` takes the licences of everything in the kept Bazel output, those of an
  earlier commit's dependencies included: the property says that those of this tree are there, not
  that no others are.
* `build-bounded-gpu-runtime.sh` copies the contract after the AAR was compared with it; a checkout
  that moves between leaves a copy that is not the AAR's (`SumsVouchForDist` excludes it).
* `compare_release_builds.py` says that signatures "and their checksum sidecars are verified
  separately"; `verify_maven_staging.py` verifies the signatures, while the sidecars of the `.asc`
  files are read by nobody.
* `verify_maven_staging.py` requires the nine payloads and looks at no other file of the version
  directory; `assemble_maven_bundle.py` takes whatever is there, if it is signed.
* A tool supplied by `BAZEL` or `ANDROID_NDK_HOME` is not compared with the pinned hash
  (`OnlyPinnedInputsAreRead` names them).
* The version stands in the `.env` file and in the contract; nothing compares the two
  (`ReleaseIsOfItsTag` speaks of file names and POM only).
* The scripts take no lock: two runs at once on one cache or checkout are not modelled.

## 5. Proofs

* `BoundedShimProofs`. `TypeCorrect`: types are inductive. `SuccessWaitsOut`: `SuccessMeansFinished`
  speaks of calls that returned; what makes it inductive is `WaitedOut`, the same fact for a call
  between its wait and its return. Kernels are named by call number, so a new submission is never
  one that was already waited for. `CountsStayInStep` and `NoMaximumLost`: a thread's step is put in
  one of a few classes by what it does to the statistics (`Uncounted`, `Admitted`, `Unrecorded`,
  `Awaits`, `Leaves` and the steps that touch a counter), and each class keeps `CountersInv`: a call
  is counted from the gate on or not at all, the exchange loop holds a recorded duration that is
  larger than the one it read, and a reset that nobody overlapped meets calls at most before their
  first addition, so that what it has cleared stays clear. The set whose size `CountsAgree` speaks
  of gains or loses one thread at a time. `ShimImplementsBoundedQueue`: of a thread's kernels only
  the one it is waiting for is under the bound (`PendingIsOwn`), because those that returned success
  have finished and no other unfinished kernel is numbered beyond the calls that returned
  (`QueueInv`); so a step is `Submit`, `Complete`, `Fail` or a stutter of `BoundedQueue` with a
  window of one. Assumptions: threads and controllers are different, durations are natural numbers,
  errors are not success.
* `BoundedShimEventProofs`. `OwnEventsReleased` and `CallersKeepEvents` need that an event without a
  returned call belongs to the call that is waiting (`EventsAreNumbered`), that a call past its
  submission still has the caller's event (`CallerEventHeld`) and that an error a call holds is one
  the driver answered (`AnswersAreRecorded`). `InvalidIsUnresolved` rests on the once: one
  initialiser at a time, and before it is done no thread is past it (`OneInitializer`,
  `NobodyIsEarly`).
* `BatchDispatchProofs`. Neither bound is inductive, for neither speaks of the loop's counter.
  `LoopInv` ties `batches_since_wait` to the device (it is what was added since `mark`, and short of
  the window whenever the loop goes round without a boundary); `DrainInv` says how far back of
  `mark` the last successful wait lies, a window for each wait that failed since; `QueueInv` what
  the queue holds when the loop begins, in terms of `missed`. From them follow `TypeCorrect`,
  `DispatchBounded`, `QueueBoundedAcross`, and, for a positive window,
  `DispatchImplementsBoundedQueue`: initial states map to initial states, and every step to a step
  of `BoundedQueue` or a stutter, a failed wait to an error.
* `QueueWindowShimProofs`. `TypeCorrect` includes that no queue has two slots: the slot chosen for
  a queue is its own if it has one, which holds of the first slot of a nonempty set by the
  well-foundedness of the naturals (`FirstSlot`). `BoundHolds`: the bound is not inductive, for it
  does not say what the boundaries that are being waited for will clear. `OwedInv` says it for every
  set of them: whichever boundaries are waited for next, the counted kernels that follow none of
  them, with the dispatches that were counted and have not reached the driver, are paid for by the
  boundaries that are left and those that were lost, a window each, by the distance to the
  next boundary, and by one straggler for every thread but one; and while a queue is on its way to a
  boundary some thread is not in a boundary call. With the empty set of boundaries this is
  `QueueBounded`. Assumptions: there are finitely many threads and at least one, a window is at
  most 1024.
* `DownloadableBundlesProofs`. The invariant says at each step what the disk holds: the first
  `todo - 1` assets of the release that is being written, perhaps with one more under construction,
  that a complete `SHA256SUMS` lists one whole release, and, for the two readings of the contract,
  that a run whose AAR is not the one of the second reading has only got past archives in `Shared`
  (`EntriesInv`). It gives `PinnedSource`, `RecoveryByRerun`, `AcceptedIsWhole`, `BuiltIsAccepted`
  and `TypeCorrect` for any number of contracts and runs. Assumptions: the two on `Shared` and on
  the names of versions.
* `CompleteBuildProofs`. `PinnedBazel` is inductive by itself. `ExactTree` and `OneWriter` come from
  `DirectoryInv`: in each stage who has written what, and that the tree's commit is the run's.
  `Sealed`: from the manifest on, the components and what is packaged from them are the recorded
  ones as long as nothing has been edited since (`Unedited`, `PackagedFromRecord`, in `SealInv`);
  where something was, only the comparisons of the last audit count, of the components with the
  manifest and of the AAR's libraries with the components, and they give the rest. `TypeCorrect` is
  proved on top of `DirectoryInv`. `LabelIsRight` counts moves: `LabelInv` says at each stage how
  often the checkout must have moved for the manifest to name another commit than the tree's
  (`MovesToMislabel`). `AcceptedIsSound`: each component is good from the step that checks it until
  the manifest records it (`GoodSoFar`), what the manifest records stays good (`GoodManifest`), and
  the last audit compares with the manifest; it goes through the checks of `RuntimeContract` one by
  one, from what a library may have wrong with it (`DefectAssumption`) to the check that sees it.
* `MavenReleaseProofs`. One invariant: the second replica after the first, what the current staging
  has written it has written alone, and every staged directory is as the verifier left it. From it
  `TypeCorrect`, `OneStaging`, `Signed` (for every keyring), `SelfDescribing` and, with `Agreed`,
  the refinement `ReleaseIsReproducible`: since the comparison the version directory is the one that
  was compared, whatever became of the builds (`Accepted`).
* `BoundedGpuReleaseProofs`. `PinnedInputs`: inputs are checked in order and no step of a run takes
  away a file that was checked (`InputInv`). `ReleaseIsReproducible`: while the publishing job is
  going on no build job can start, so the artifacts stay as they were compared (`FlowInv`), and a
  release that exists is not replaced. `TypeCorrect`, `SumsVouchForOneRun` and
  `VerifiedAarIsIntended` come from `BuildInv`, which follows a run: what the work directory holds
  (`WorkInv`), which names are in dist and who wrote them (`NamesInv`), and what the files of these
  names are (`ContentInv`). The packager can put only a few kinds of library into an AAR
  (`Assembled`), and of these the verifier passes exactly the intended ones; the lemmas on the way
  say what merging, redirecting and packaging leave under each name. `UploadMatchesSums` rests on
  `RunnerInv`, what a job uploads and what an artifact is, and `ReleaseIsTagged` on `ReleaseInv`,
  how tag, workflow and release hang together as long as the tag was pushed once.

Directories and archives are built with `@@` and `:>`. The module `TLC` overrides these two by Java
code and the provers know nothing of them, so `Entries` defines them; both TLC and the proofs use
these definitions.

All invariants the passing runs check, and all refinements, are theorems. Only model-checked are
the liveness properties `CallsReturn` and `DispatchReturns`: they need fairness, whose `ENABLED` is
out of the prover's reach. The three runs that expect a violation are counterexamples, for which an
instance is enough.

## 6. State of the plan and what is not modelled

Done: the three queue bounds and the abstract queue; the bundle builder; the complete build; Maven
staging with the comparison; the bounded GPU build and its release workflow; the abstract release;
the proofs of their safety properties and refinements. Worth doing next: the remaining workflows, if
their jobs ever differ in order from those that are modelled.

Not modelled:

* `downloadable-runtime.yml` has the jobs of the bounded GPU workflow with another build script;
  `release.yml` and the x86 scripts are one sequential job whose steps are those of the complete
  build on one library; `ci.yml` runs the tests. They hold no order of steps that is not
  already in a module.
* The option plumbing of patches 0001, 0002, 0004 and 0005 and the binary rewriting and packaging of
  the experiment: no state of their own.
* The smoke applications and their emulator tests, the consumer application (one step that may fail,
  `Consume`), the parsing of ELF files and of Bazel's action graph (their verdicts are), Gradle
  files and wrappers, and the contents of contracts and configuration files beyond what a check
  tells apart.
* Publishing is one step: what GitHub does when `gh release create` is cut off half way is not
  visible in the repository.

One hazard has no property: the version of the tag and the one in the contract
(`bounded-gpu-runtime.yml:37`) are related by no step, so there is nothing to check but their
equality in one commit.
