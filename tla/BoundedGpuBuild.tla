-------------------------- MODULE BoundedGpuBuild --------------------------
(***************************************************************************)
(* scripts/build-bounded-gpu-runtime.sh on one machine.  The download      *)
(* cache outlives a run; the work and dist directories are removed by the  *)
(* next one.  A run may stop at any step, a download may break off or      *)
(* bring another file, a build may come out defective or with other bytes  *)
(* than last time, and the checkout may move while the run is going on,    *)
(* though the script reads its .env file only at the start.                *)
(*                                                                         *)
(* Runs that share a cache or a checkout are taken to come one after       *)
(* another: the script holds no lock, and two at once would write to the   *)
(* same names.                                                             *)
(***************************************************************************)
EXTENDS BoundedAar

CONSTANTS
  Checkouts,  (* contents of the repository: its commit, the version and   *)
              (* pins of the .env file, the contract, the capability in    *)
              (* the shim's source, the pin of the accelerator patch       *)
  Variants,   (* what a compilation of the JNI library may give            *)
  MaxRuns,    (* bound: runs of the script                                 *)
  MaxMoves,   (* bound: moves of the checkout during or between runs       *)
  MaxFaults   (* bound: downloads and builds that go wrong                 *)

ASSUME BoundAssumption == {MaxRuns, MaxMoves, MaxFaults} \subseteq Nat

VARIABLES
  repo,       (* the checkout                                              *)
  env,        (* the checkout whose .env file the run has read             *)
  cache,      (* file name |-> "pinned", "partial" or "wrong"              *)
  supplied,   (* the tools given by BAZEL and ANDROID_NDK_HOME             *)
  work,       (* what the run has built for arm64-v8a                      *)
  dist,       (* the dist directory                                        *)
  pc,
  next,       (* position in Inputs                                        *)
  outcome,    (* how the last run ended                                    *)
  runs, moves, faults,
  moved,      (* the checkout has moved during this run                    *)
  writers     (* the runs that wrote into dist                             *)

machine == <<repo, env, cache, supplied, work, dist, pc, next, outcome, moved, writers>>
counters == <<runs, moves, faults>>

Inputs == <<"impl", "api", "x86", "bazel", "ndk">>
Tools == {"bazel", "ndk"}

(* The name of a cached file carries the version of what it is.            *)
CachedName(i) == IF i \in Tools THEN <<i, "tool">> ELSE <<i, env.upstream.name>>
CachedNames == {<<i, "tool">> : i \in Tools}
               \cup {<<i, c.upstream.name>> : i \in {"impl", "api", "x86"}, c \in Checkouts}

(* The files of the dist directory, and what the archives in it hold.      *)
Manifest == <<"build-manifest", ".json">>
ContractCopy == <<"bounded-gpu-runtime-contract", ".json">>
Licences == {<<"LICENSE-BSS", ".txt">>, <<"LICENSE-LiteRT", ".txt">>,
             <<"THIRD_PARTY_NOTICE-LiteRT", ".txt">>}
Repository == <<"m2", "/">>
Sums == <<"SHA256SUMS", "">>
Aar(version) == <<version, ".aar">>
Bundle(version) == <<version, ".zip">>

MachineInit ==
  /\ repo \in Checkouts
  /\ env = repo
  /\ cache = <<>>
  /\ supplied = {}
  /\ work = <<>>
  /\ dist = <<>>
  /\ pc = "idle"
  /\ next = 1
  /\ outcome = "none"
  /\ runs = 0 /\ moves = 0 /\ faults = 0
  /\ moved = FALSE
  /\ writers = {}

Goto(from, to) == pc = from /\ pc' = to
Raise(from) == Goto(from, "idle") /\ outcome' = "failed"
CheckThen(from, to, errors) ==
  /\ pc = from
  /\ IF errors = {} THEN pc' = to /\ UNCHANGED outcome ELSE Raise(from)

Fault == faults < MaxFaults /\ faults' = faults + 1
Put(files) == dist' = files @@ dist /\ writers' = writers \cup {runs}
Install(name, content) == work' = name :> content @@ work

----------------------------------------------------------------------------
(* A run begins, stops, or finds the checkout changed *)

(* Mutant: the dist directory is not removed. *)
StartOverDist(checkout) ==
  /\ runs < MaxRuns
  /\ Goto("idle", "download")
  /\ repo' = checkout /\ env' = checkout
  /\ supplied' = {}
  /\ work' = <<>>
  /\ next' = 1
  /\ outcome' = "none" /\ moved' = FALSE
  /\ runs' = runs + 1
  /\ UNCHANGED <<dist, writers, moves, faults>>

(* The .env file is read, then both directories are removed.               *)
Start(checkout) ==
  /\ runs < MaxRuns
  /\ Goto("idle", "download")
  /\ repo' = checkout /\ env' = checkout
  /\ supplied' = {}
  /\ work' = <<>> /\ dist' = <<>> /\ writers' = {}
  /\ next' = 1
  /\ outcome' = "none" /\ moved' = FALSE
  /\ runs' = runs + 1
  /\ UNCHANGED <<moves, faults>>

Stop ==
  /\ pc # "idle"
  /\ pc' = "idle"
  /\ outcome' = "failed"
  /\ UNCHANGED <<repo, env, cache, supplied, work, dist, next, moved, writers, counters>>

MoveRepo ==
  /\ moves < MaxMoves
  /\ moves' = moves + 1
  /\ repo' \in Checkouts \ {repo}
  /\ moved' = TRUE
  /\ UNCHANGED <<env, cache, supplied, work, dist, pc, next, outcome, writers, runs, faults>>

(* A file that stops every run has to be removed by hand.                  *)
RemoveCached ==
  /\ pc = "idle"
  /\ \E name \in DOMAIN cache :
       /\ cache[name] # "pinned"
       /\ cache' = Restrict(cache, DOMAIN cache \ {name})
  /\ UNCHANGED <<repo, env, supplied, work, dist, pc, next, outcome, moved, writers, counters>>

----------------------------------------------------------------------------
(* download_verified, one input after another *)

Cache(name, file) ==
  cache' = [n \in DOMAIN cache \cup {name} |-> IF n = name THEN file ELSE cache[n]]

(* curl writes to the final name; a transfer that breaks off leaves there  *)
(* what has arrived.                                                       *)
Curl ==
  /\ next <= Len(Inputs)
  /\ LET name == CachedName(Inputs[next])
     IN /\ name \notin DOMAIN cache
        /\ \/ /\ Goto("download", "sha256")
              /\ Cache(name, "pinned")
              /\ UNCHANGED <<faults, outcome>>
           \/ /\ Goto("download", "sha256")
              /\ Cache(name, "wrong")
              /\ Fault /\ UNCHANGED outcome
           \/ /\ Raise("download")
              /\ Cache(name, "partial")
              /\ Fault
  /\ UNCHANGED <<repo, env, supplied, work, dist, next, moved, writers, runs, moves>>

UseCached ==
  /\ next <= Len(Inputs)
  /\ CachedName(Inputs[next]) \in DOMAIN cache
  /\ Goto("download", "sha256")
  /\ UNCHANGED <<repo, env, cache, supplied, work, dist, next, outcome, moved, writers, counters>>

(* Mutant: only what this run has downloaded is looked at, and a transfer  *)
(* that ended is taken for a good one.                                     *)
TakeInput ==
  /\ Goto("sha256", "download")
  /\ next' = next + 1
  /\ UNCHANGED <<repo, env, cache, supplied, work, dist, outcome, moved, writers, counters>>

CheckInput ==
  /\ CheckThen("sha256", "download",
       ErrorIf(cache[CachedName(Inputs[next])] # "pinned", "sha256sum"))
  /\ next' = IF pc' = "download" THEN next + 1 ELSE next
  /\ UNCHANGED <<repo, env, cache, supplied, work, dist, moved, writers, counters>>

(* Mutant: the AARs are taken from the environment unchecked, too. *)
UseSuppliedAnything ==
  /\ next <= Len(Inputs)
  /\ Goto("download", "download")
  /\ supplied' = supplied \cup {Inputs[next]}
  /\ next' = next + 1
  /\ UNCHANGED <<repo, env, cache, work, dist, outcome, moved, writers, counters>>

(* A tool the environment names is only asked for its version.             *)
UseSupplied ==
  /\ next <= Len(Inputs) /\ Inputs[next] \in Tools
  /\ Goto("download", "download")
  /\ supplied' = supplied \cup {Inputs[next]}
  /\ next' = next + 1
  /\ UNCHANGED <<repo, env, cache, work, dist, outcome, moved, writers, counters>>

----------------------------------------------------------------------------
(* The libraries for arm64-v8a *)

Built(library, marker) ==
  [from |-> "built", upstream |-> env.upstream.name, abi |-> Arm64, library |-> library,
   loads |-> <<>>, aligned |-> TRUE, marker |-> marker]

(* The pinned commit is fetched and patched, and Bazel builds the library. *)
BuildJni ==
  /\ next > Len(Inputs)
  /\ Goto("download", "pins")
  /\ LET sound(v) == Built(JniLibrary, JniMarker) @@ [variant |-> v]
     IN \E v \in Variants :
          \/ Install(<<"bazel-bin">>, sound(v)) /\ UNCHANGED faults
          \/ Install(<<"bazel-bin">>, [sound(v) EXCEPT !.marker = "none"]) /\ Fault
          \/ Install(<<"bazel-bin">>, [sound(v) EXCEPT !.aligned = FALSE]) /\ Fault
  /\ UNCHANGED <<repo, env, cache, supplied, dist, next, outcome, moved, writers, runs, moves>>

(* The libraries inside the official AARs have hashes of their own.        *)
CheckNativePins ==
  /\ CheckThen("pins", "jni", ErrorIf(env.nativePins # env.upstream.name, "sha256sum"))
  /\ UNCHANGED <<repo, env, cache, supplied, work, dist, next, moved, writers, counters>>

InstallJni ==
  /\ CheckThen("jni", "shim", ErrorIf(work[<<"bazel-bin">>].marker # JniMarker, "grep"))
  /\ Install(Jni(Arm64, JniLibrary), work[<<"bazel-bin">>])
  /\ UNCHANGED <<repo, env, cache, supplied, dist, next, moved, writers, counters>>

(* The shim carries the capability its source names.                       *)
CompileShim ==
  /\ Goto("shim", "accelerator")
  /\ LET shim == Built(ShimLibrary, <<repo.shim, "nativeGetCapabilitySchemaVersion">>)
     IN \/ Install(Jni(Arm64, ShimLibrary), shim) /\ UNCHANGED faults
        \/ Install(Jni(Arm64, ShimLibrary), [shim EXCEPT !.aligned = FALSE]) /\ Fault
  /\ UNCHANGED <<repo, env, cache, supplied, dist, next, outcome, moved, writers, runs, moves>>

PatchAccelerator ==
  /\ LET official == Implementation(env.upstream)[Jni(Arm64, Accelerator)]
     IN /\ CheckThen("accelerator", "package", patch_errors(official, repo.acceleratorPin))
        /\ IF pc' = "package"
           THEN Install(Jni(Arm64, Accelerator), patched(official))
           ELSE UNCHANGED work
  /\ UNCHANGED <<repo, env, cache, supplied, dist, next, moved, writers, counters>>

----------------------------------------------------------------------------
(* The dist directory *)

InputAars == [impl |-> Implementation(env.upstream), api |-> Api(env.upstream),
              x86 |-> X86Supplement(env.upstream)]
ArmLibraries ==
  Restrict(work, {Jni(Arm64, l) : l \in {JniLibrary, ShimLibrary, Accelerator}})

PackageAar ==
  /\ CheckThen("package", "verify", package_errors(InputAars, ArmLibraries, repo.contract))
  /\ IF pc' = "verify"
     THEN LET entries == packaged_entries(InputAars, ArmLibraries, repo.contract)
          IN Put(Aar(env.version) :> entries
                 @@ Manifest :> build_manifest(repo.commit, InputAars, ArmLibraries,
                                               repo.contract, entries))
     ELSE UNCHANGED <<dist, writers>>
  /\ UNCHANGED <<repo, env, cache, supplied, work, next, moved, counters>>

VerifyErrors(readelf) ==
  verify_errors(dist[Aar(env.version)], dist[Manifest], repo.contract, readelf)

(* Mutant: the verifier is called without --readelf. *)
VerifyAarWithoutReadelf ==
  /\ CheckThen("verify", "maven", VerifyErrors(FALSE))
  /\ UNCHANGED <<repo, env, cache, supplied, work, dist, next, moved, writers, counters>>

VerifyAar ==
  /\ CheckThen("verify", "maven", VerifyErrors(TRUE))
  /\ UNCHANGED <<repo, env, cache, supplied, work, dist, next, moved, writers, counters>>

PackageMaven ==
  /\ Goto("maven", "copies")
  /\ LET m2 == maven_repository(dist[Aar(env.version)], env.version)
     IN Put(Repository :> m2 @@ Bundle(env.version) :> m2)
  /\ UNCHANGED <<repo, env, cache, supplied, work, next, outcome, moved, counters>>

(* The contract is copied after the AAR was compared with it.              *)
CopyTexts ==
  /\ Goto("copies", "sums")
  /\ Put(ContractCopy :> repo.contract @@ [l \in Licences |-> "text"])
  /\ UNCHANGED <<repo, env, cache, supplied, work, next, outcome, moved, counters>>

IsFile(name) == name[2] # "/"
Assets == {n \in DOMAIN dist : IsFile(n) /\ n # Sums}

(* write_checksums.py.                                                     *)
WriteChecksums ==
  /\ Goto("sums", "check")
  /\ Put(Sums :> Restrict(dist, Assets))
  /\ UNCHANGED <<repo, env, cache, supplied, work, next, outcome, moved, counters>>

Matches(files) == \A n \in DOMAIN files[Sums] : n \in DOMAIN files /\ files[n] = files[Sums][n]

CheckChecksums ==
  /\ pc = "check" /\ pc' = "idle"
  /\ outcome' = IF Matches(dist) THEN "ok" ELSE "failed"
  /\ UNCHANGED <<repo, env, cache, supplied, work, dist, next, moved, writers, counters>>

RunStep ==
  \/ Stop \/ Curl \/ UseCached \/ CheckInput \/ BuildJni \/ CheckNativePins \/ InstallJni
  \/ CompileShim \/ PatchAccelerator \/ PackageAar \/ VerifyAar \/ PackageMaven \/ CopyTexts
  \/ WriteChecksums \/ CheckChecksums
=============================================================================
