----------------------------- MODULE BoundedAar -----------------------------
(***************************************************************************)
(* How the bounded GPU AAR is put together and checked, as operators       *)
(* without state: patch_bounded_gpu_accelerator.py,                        *)
(* package_bounded_gpu_aar.py, verify_bounded_gpu_aar.py and               *)
(* package_bounded_gpu_maven.py.                                           *)
(*                                                                         *)
(* An archive is a function from names to contents; a content is a record  *)
(* of what a check can read from it, so equal records have the same hash.  *)
(* A check returns the set of its errors.                                  *)
(***************************************************************************)
EXTENDS Naturals, Sequences, Functions, Entries

CONSTANT OtherAbis  (* the ABIs of the official AARs besides arm64-v8a     *)

Arm64 == "arm64-v8a"
Accelerator == "libLiteRtClGlAccelerator.so"
Runtime == "libLiteRt.so"
JniLibrary == "liblitert_jni.so"
ShimLibrary == "libBssOcl.so"

ClassesJar == <<"classes.jar">>
ContractEntry == <<"META-INF", "bounded-gpu-runtime-contract.json">>
Jni(abi, library) == <<"jni", abi, library>>
IsNative(name) == name[1] = "jni"
Natives(entries) == Restrict(entries, {n \in DOMAIN entries : IsNative(n)})

ErrorIf(wrong, error) == IF wrong THEN {error} ELSE {}

----------------------------------------------------------------------------
(* The inputs.  An upstream says where a version of LiteRT may surprise:   *)
(* how often its accelerator names the OpenCL library, which classes its   *)
(* API holds, which libraries the x86 supplement brings.                   *)

OfficialLibrary(upstream, abi, library) ==
  [from |-> "official", upstream |-> upstream.name, abi |-> abi, library |-> library,
   loads |-> IF library = Accelerator
             THEN [n \in 1..upstream.loaders |-> "libOpenCL.so"] ELSE <<>>,
   aligned |-> TRUE, marker |-> "none"]

LibrariesOf(upstream, names) ==
  [n \in names |-> OfficialLibrary(upstream, n[2], n[3])]
EachAbi(abis, libraries) == {Jni(abi, l) : abi \in abis, l \in libraries}

Classes(names, from) == ClassesJar :> [n \in names |-> from]
Shared == <<"AndroidManifest.xml">> :> "manifest"

Implementation(upstream) ==
  LibrariesOf(upstream, EachAbi({Arm64} \cup OtherAbis, {Runtime, Accelerator}))
  @@ Classes({"Interpreter"}, "implementation")
  @@ <<"LICENSE">> :> "LiteRT" @@ Shared

Api(upstream) ==
  LibrariesOf(upstream, EachAbi({Arm64} \cup OtherAbis, {JniLibrary}))
  @@ Classes(upstream.apiClasses, "api")
  @@ Shared

X86Supplement(upstream) ==
  LibrariesOf(upstream, EachAbi({"x86"}, upstream.x86Libraries)) @@ Shared

----------------------------------------------------------------------------
(* patch_bounded_gpu_accelerator.py.  pin is the upstream whose hash the   *)
(* script itself holds.                                                    *)

patch_errors(accelerator, pin) ==
  ErrorIf(accelerator.upstream # pin, "hash mismatch")
  \cup ErrorIf(Len(accelerator.loads) # 1, "loader strings")

patched(accelerator) ==
  [accelerator EXCEPT !.from = "patched", !.loads = <<ShimLibrary>>]

----------------------------------------------------------------------------
(* package_bounded_gpu_aar.py; built is what was made for arm64-v8a.       *)

merge_errors(implementation, api) ==
  LET both == DOMAIN implementation \cap DOMAIN api
  IN ErrorIf(DOMAIN implementation[ClassesJar] \cap DOMAIN api[ClassesJar] # {},
             "classes overlap")
     \cup ErrorIf(\E n \in both : IsNative(n), "native overlap")
     \cup ErrorIf(\E n \in both \ {ClassesJar} :
                    ~ IsNative(n) /\ implementation[n] # api[n], "shared entry differs")

merge_official_aars(implementation, api) ==
  ClassesJar :> (api[ClassesJar] @@ implementation[ClassesJar]) @@ implementation @@ api

CapabilityClasses == {"BssLiteRtRuntime", "BssLiteRtRuntime$Capability"}
ExpectedX86 == EachAbi({"x86"}, {Runtime, JniLibrary})

expected_native_entries(contract) ==
  UNION {EachAbi({abi}, contract.nativeMatrix[abi]) : abi \in DOMAIN contract.nativeMatrix}

packaged_entries(inputs, built, contract) ==
  LET merged == merge_official_aars(inputs.impl, inputs.api)
      classes == [n \in CapabilityClasses |-> "capability"] @@ merged[ClassesJar]
      x86 == Restrict(inputs.x86, ExpectedX86)
      all == Natives(built) @@ x86 @@ ClassesJar :> classes @@ merged
  IN ContractEntry :> contract @@ Restrict(all, DOMAIN all \ contract.removed)

(* The errors come in the order of the script; a later check assumes that  *)
(* the earlier ones passed.                                                *)
package_errors(inputs, built, contract) ==
  LET early == merge_errors(inputs.impl, inputs.api)
               \cup ErrorIf(DOMAIN Natives(inputs.x86) # ExpectedX86, "x86 supplement")
  IN IF early # {} THEN early
     ELSE ErrorIf(DOMAIN Natives(packaged_entries(inputs, built, contract))
                    # expected_native_entries(contract), "native matrix")

build_manifest(commit, inputs, built, contract, entries) ==
  [repositoryCommit |-> commit,
   coordinate |-> contract.coordinate,
   capability |-> contract.capability,
   contract |-> contract,
   outputSha256 |-> built[Jni(Arm64, JniLibrary)],
   nativeComponents |-> Natives(entries),
   aar |-> entries]

----------------------------------------------------------------------------
(* verify_bounded_gpu_aar.py; readelf is whether --readelf was given.      *)

NotBounded(accelerator) == accelerator.loads # <<ShimLibrary>>
RequiredClasses == CapabilityClasses \cup {"CompiledModel", "Environment", "Interpreter"}
MarkersOf(contract) == <<contract.capability, "nativeGetCapabilitySchemaVersion">>
JniMarker == "kernelBatchSize"

verify_arm64_page_alignment(entries) ==
  ErrorIf(\E n \in DOMAIN entries : IsNative(n) /\ n[2] = Arm64 /\ ~ entries[n].aligned,
          "alignment")

verify_entries(entries, contract) ==
  ErrorIf(entries[ContractEntry] # contract, "embedded contract")
  \cup ErrorIf(DOMAIN Natives(entries) # expected_native_entries(contract), "native matrix")
  \cup ErrorIf(\E abi \in OtherAbis \cup {"x86"} : Jni(abi, Accelerator) \in DOMAIN entries,
               "unbounded accelerator")
  \cup ErrorIf(~ RequiredClasses \subseteq DOMAIN entries[ClassesJar], "classes")

verify_arm64(entries, contract) ==
  ErrorIf(NotBounded(entries[Jni(Arm64, Accelerator)]), "accelerator")
  \cup ErrorIf(entries[Jni(Arm64, ShimLibrary)].marker # MarkersOf(contract), "shim marker")
  \cup ErrorIf(entries[Jni(Arm64, JniLibrary)].marker # JniMarker, "JNI marker")

verify_manifest(manifest, entries, contract) ==
  ErrorIf(manifest.coordinate # contract.coordinate, "coordinate")
  \cup ErrorIf(manifest.contract # contract, "contract hash")
  \cup ErrorIf(manifest.aar # entries, "AAR hash")
  \cup ErrorIf(manifest.capability # contract.capability, "capability")
  \cup ErrorIf(manifest.outputSha256 # entries[Jni(Arm64, JniLibrary)], "JNI hash")
  \cup ErrorIf(\E n \in expected_native_entries(contract) :
                 n \notin DOMAIN manifest.nativeComponents
                   \/ manifest.nativeComponents[n] # entries[n], "component hash")

verify_errors(entries, manifest, contract, readelf) ==
  LET early == verify_entries(entries, contract)
  IN IF early # {} THEN early
     ELSE verify_arm64(entries, contract)
          \cup verify_manifest(manifest, entries, contract)
          \cup IF readelf THEN verify_arm64_page_alignment(entries) ELSE {}

----------------------------------------------------------------------------
(* package_bounded_gpu_maven.py: the repository and the bundle of it.      *)

maven_repository(entries, version) ==
  <<version, ".aar">> :> entries @@ <<version, ".pom">> :> [version |-> version]
=============================================================================
