-------------------------- MODULE RuntimeContract --------------------------
(***************************************************************************)
(* contracts/complete-runtime-contract.json and the checks the scripts of  *)
(* the complete build make against it, as operators without state: what a  *)
(* file may be (verify_native_artifacts.py, verify-runtime-contract.py),   *)
(* what an archive is assembled from (package_api_aar.py,                  *)
(* package_complete_aar.py) and what the last audit accepts                *)
(* (audit_release_inputs.py).                                              *)
(*                                                                         *)
(* A directory or an archive is a function from names to contents.  A file *)
(* is a record of the facts a check can read from it, so equal records     *)
(* are files with the same hash.  A check returns the set of its errors.   *)
(***************************************************************************)
EXTENDS Naturals, Sequences, Functions, Entries

CONSTANTS
  Abis,      (* the ABIs of liblitert_jni.so and libLiteRt.so              *)
  GpuAbis    (* the ABIs of the accelerator                                *)

ASSUME AbiAssumption == GpuAbis \subseteq Abis

Modes == {"available-components", "complete"}
Libraries == {"liblitert_jni.so", "libLiteRt.so", "libLiteRtClGlAccelerator.so"}
Accelerator == "libLiteRtClGlAccelerator.so"

AbisOf(library) == IF library = Accelerator THEN GpuAbis ELSE Abis
AndroidApi == 23
JvmTarget == 17
Sonames(library) ==
  {library} \cup CASE library = "liblitert_jni.so" -> {"litert_jni"}
                   [] library = "libLiteRt.so" -> {"LiteRt"}
                   [] OTHER -> {}
Needed(library) ==
  {"libc.so"} \cup IF library = "liblitert_jni.so" THEN {"libLiteRt.so"} ELSE {}
RequiredSymbols(library) == {<<"required by", library>>}
JniExports == {<<"required by", "liblitert_jni.so">>, <<"Java_", "run">>}
ExportsJni(library) == library = "liblitert_jni.so"

RequiredMembers == {"CompiledModel.run"}
BssExtensionMembers == {"GpuOptions.getKernelBatchSize"}
ForbiddenClasses == {"ModelProvider"}

ErrorIf(wrong, error) == IF wrong THEN {error} ELSE {}

----------------------------------------------------------------------------
(* verify_native_artifacts.py *)

expected_native_paths(mode) ==
  {p \in Abis \X Libraries :
     /\ p[1] \in AbisOf(p[2])
     /\ ~(mode = "available-components" /\ p[2] = Accelerator)}

(* inspect_elf raises for what is no ELF shared object: no report then.    *)
Inspectable(file) == file.elf

validate_inspection(file, abi, library) ==
  LET required == RequiredSymbols(library)
      jni == {s \in file.symbols : s[1] = "Java_"}
  IN ErrorIf(file.abi # abi, "class or machine")
     \cup ErrorIf(file.androidApi # AndroidApi, "Android API")
     \cup ErrorIf(file.soname \notin Sonames(library), "SONAME")
     \cup ErrorIf(file.needed # Needed(library), "DT_NEEDED")
     \cup ErrorIf(~ required \subseteq file.symbols, "missing symbols")
     \cup ErrorIf(ExportsJni(library) /\ jni # {s \in JniExports : s[1] = "Java_"},
                  "JNI export drift")

(* main, over native = [<<abi, library>> |-> file]. *)
verify_native_artifacts(native, mode) ==
  LET expected == expected_native_paths(mode)
      actual == DOMAIN native
  IN ErrorIf(~ expected \subseteq actual, "missing native libraries")
     \cup ErrorIf(~ actual \subseteq expected, "unexpected native libraries")
     \cup UNION {validate_inspection(native[p], p[1], p[2]) : p \in expected \cap actual}

----------------------------------------------------------------------------
(* package_api_aar.py and verify-runtime-contract.py --mode api *)

(* read_classes_jar: a JAR without classes is an error.                    *)
package_api_aar(jar) ==
  (<<"AndroidManifest.xml">> :> [tree |-> jar.tree] @@ <<"classes.jar">> :> jar)

inspect_api(jar, required) == {<<"member", m>> : m \in required \ jar.members}
inspect_bytecode_target(jar) == ErrorIf(jar.target # JvmTarget, <<"bytecode target", "">>)
ForbiddenIn(jar) == {<<"forbidden", c>> : c \in jar.classes \cap ForbiddenClasses}

verify_runtime_contract(aar) ==
  IF <<"classes.jar">> \notin DOMAIN aar THEN {<<"no classes.jar", "">>}
  ELSE LET jar == aar[<<"classes.jar">>]
       IN inspect_api(jar, RequiredMembers \cup BssExtensionMembers)
          \cup inspect_bytecode_target(jar)
          \cup ForbiddenIn(jar)

----------------------------------------------------------------------------
(* package_complete_aar.py: api is the API AAR, native as above, texts the *)
(* four files of text under the names they get in the archive.             *)

IsComponent(name) == name = <<"classes.jar">> \/ name[1] = "jni"
IsNative(name) == name[1] = "jni"
Jni(path) == <<"jni", path[1], path[2]>>

read_api_entries(api) ==
  Restrict(api, {n \in DOMAIN api : n \notin {<<"consumer-rules.pro">>, <<"proguard.txt">>}})

ReadableApi(api) ==
  /\ \A n \in DOMAIN api : ~ IsNative(n)
  /\ {<<"AndroidManifest.xml">>, <<"classes.jar">>} \subseteq DOMAIN read_api_entries(api)

(* read_native_entries accepts the expected names and nothing else.        *)
ReadableNative(native) == DOMAIN native = expected_native_paths("complete")

(* What a manifest takes from the lock: its liteRt and its patchSeries.    *)
Sources(lock) == [commit |-> lock.commit, series |-> lock.series]

build_manifest(lock, entries) ==
  [lock |-> Sources(lock),
   components |-> Restrict(entries, {n \in DOMAIN entries : IsComponent(n)})]

BuildManifestName == <<"META-INF", "bss-litert-build.json">>

package_complete_aar(api, native, texts, lock) ==
  LET entries == [n \in DOMAIN read_api_entries(api) \cup {Jni(p) : p \in DOMAIN native}
                         \cup DOMAIN texts |->
                    IF n \in DOMAIN texts THEN texts[n]
                    ELSE IF IsNative(n) THEN native[<<n[2], n[3]>>] ELSE api[n]]
  IN [n \in DOMAIN entries \cup {BuildManifestName} |->
        IF n = BuildManifestName THEN build_manifest(lock, entries) ELSE entries[n]]

----------------------------------------------------------------------------
(* audit_release_inputs.py *)

audit_repository(repository) ==
  ErrorIf(repository.binaries, "repository tracks binaries")
  \cup ErrorIf(~ repository.textual, "binary patch")

audit_source_placeholders(tree) == ErrorIf(tree.binaries # "pointers", "materialized binary")

expected_component_paths(mode) ==
  {<<"api">>, <<"LICENSE-LiteRT.txt">>, <<"THIRD_PARTY_LICENSES.txt">>,
   <<"THIRD_PARTY_NOTICES.md">>}
  \cup {<<"native", p[1], p[2]>> : p \in expected_native_paths(mode)}

audit_component_dir(components, manifest, lock, mode) ==
  ErrorIf(DOMAIN components # expected_component_paths(mode), "component file drift")
  \cup ErrorIf(manifest.components # components, "manifest hashes")
  \cup ErrorIf(manifest.mode # mode, "manifest mode")
  \cup ErrorIf(manifest.lock # Sources(lock), "manifest source")
  \cup ErrorIf(\E n \in DOMAIN components : n[1] = "native" /\ ~ components[n].elf, "not ELF")

audit_api_classes(aar) ==
  IF <<"classes.jar">> \notin DOMAIN aar THEN {<<"no classes.jar", "">>}
  ELSE ForbiddenIn(aar[<<"classes.jar">>])

Misplaced(name) ==
  ~ IsNative(name) /\ name[Len(name)] \in Libraries \cup {"libOCLQ.so", "nested.aar"}

audit_candidate(aar, components, mode) ==
  LET expected == IF mode = "complete" THEN {Jni(p) : p \in expected_native_paths(mode)} ELSE {}
      actual == {n \in DOMAIN aar : IsNative(n)}
      same(n) == /\ <<"native", n[2], n[3]>> \in DOMAIN components
                 /\ components[<<"native", n[2], n[3]>>] = aar[n]
  IN ErrorIf(audit_api_classes(aar) # {}, "forbidden class")
     \cup ErrorIf(\E n \in DOMAIN aar : Misplaced(n), "nested or misplaced binary")
     \cup ErrorIf(actual # expected, "native matrix drift")
     \cup ErrorIf(\E n \in expected \cap actual : ~ same(n), "candidate native bytes")
=============================================================================
