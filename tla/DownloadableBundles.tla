------------------------ MODULE DownloadableBundles ------------------------
(***************************************************************************)
(* scripts/build_downloadable_runtime_bundles.py and its verifier, run     *)
(* again and again on one checkout: a run may be killed between any two    *)
(* steps, the server may send anything, and the checkout may move to       *)
(* another contract at any time, also between the two moments at which a   *)
(* run reads the contract.  What survives a run is on disk: the cached     *)
(* source AAR, the .part file of a download, the release directory.        *)
(*                                                                         *)
(* A version stands for a contract and for the one AAR whose size and hash *)
(* that contract freezes.  Archives are deterministic, so what is built    *)
(* from an AAR is named by that AAR's version too.                         *)
(***************************************************************************)
EXTENDS Naturals, Sequences, Functions

CONSTANTS
  Versions,   (* contracts, and the source AARs they freeze                *)
  Shared,     (* the archives whose frozen entries the AARs have in common *)
  MaxRuns     (* bound: runs of the builder                                *)

(* The assets in the order build_release writes them.  The names of the    *)
(* archives come from the contract, the other names are fixed.             *)
Archives == {"api", "cpu", "gpu"}
Assets == <<"api", "cpu", "gpu", "license", "contract", "index">>
NameOf(kind, v) == IF kind \in Archives THEN <<kind, v>> ELSE <<kind, "fixed">>
Temporary(kind) == <<kind, "tmp">>

ASSUME RunAssumption == MaxRuns \in Nat

ASSUME VersionAssumption == Versions \cap {"none", "absent", "partial", "mixed"} = {}

(* The AARs of two contracts differ in an entry that the contracts freeze. *)
ASSUME SharedAssumption == Shared \subseteq Archives /\ Shared # Archives

VARIABLES
  contract,   (* the contract of the checkout                              *)
  cache,      (* the AAR under the cached name                             *)
  part,       (* the .part file                                            *)
  dist,       (* the release directory: name |-> content                   *)
  sums,       (* SHA256SUMS, if complete: the names and contents it lists  *)
  pc,
  wanted,     (* the contract main read, of which it takes the AAR         *)
  frozen,     (* the contract build_release read, which it writes by       *)
  source,     (* the AAR that was supplied, or whose entries were read     *)
  todo,       (* position in Assets                                        *)
  outcome,    (* how the last run of builder or verifier ended             *)
  fault,      (* this run was given a wrong or incomplete AAR, or its      *)
              (* disk was full                                             *)
  moved,      (* the contract changed during this run                      *)
  runs        (* runs started, for MaxRuns                                 *)

disk == <<cache, part, dist, sums>>
reads == <<wanted, frozen>>
vars == <<contract, disk, pc, reads, source, todo, outcome, fault, moved, runs>>

NoSums == [complete |-> FALSE, lists |-> <<>>]

Init ==
  /\ contract \in Versions
  /\ cache = "absent"
  /\ part = "absent"
  /\ dist = <<>>
  /\ sums = NoSums
  /\ pc = "idle"
  /\ wanted = "none"
  /\ frozen = "none"
  /\ source = "none"
  /\ todo = 1
  /\ outcome = "none"
  /\ fault = FALSE
  /\ moved = FALSE
  /\ runs = 0

Goto(from, to) == pc = from /\ pc' = to

Put(name, content) ==
  dist' = [n \in DOMAIN dist \cup {name} |-> IF n = name THEN content ELSE dist[n]]

Raise(from) ==
  /\ Goto(from, "idle")
  /\ outcome' = "failed"

----------------------------------------------------------------------------
(* The checkout, and the runs *)

(* The checkout moves.  A verdict spoke of the contract that was there.    *)
ChangeContract ==
  /\ contract' \in Versions \ {contract}
  /\ outcome' = "none"
  /\ moved' = (moved \/ pc # "idle")
  /\ UNCHANGED <<disk, pc, reads, source, todo, fault, runs>>

Start ==
  /\ runs < MaxRuns
  /\ Goto("idle", "source")
  /\ runs' = runs + 1
  /\ wanted' = contract
  /\ frozen' = "none"
  /\ outcome' = "none"
  /\ fault' = FALSE
  /\ moved' = FALSE
  /\ UNCHANGED <<contract, disk, source, todo>>

(* The run is killed: no finally clause is executed.                       *)
Kill ==
  /\ pc # "idle"
  /\ pc' = "idle"
  /\ source' = "none"
  /\ UNCHANGED <<contract, disk, reads, todo, outcome, fault, moved, runs>>

----------------------------------------------------------------------------
(* materialize_source_aar *)

(* --source-aar was given: it has to be the AAR of the contract, and stays *)
(* what it is, for nobody else writes to it.                               *)
UseSupplied ==
  /\ \E v \in Versions :
       IF v = wanted
       THEN /\ Goto("source", "read")
            /\ source' = v
            /\ UNCHANGED <<outcome, fault>>
       ELSE /\ Raise("source")
            /\ fault' = TRUE
            /\ UNCHANGED source
  /\ UNCHANGED <<contract, disk, reads, todo, moved, runs>>

(* Mutant: any cached file will do. *)
UseCacheUnchecked ==
  /\ cache # "absent"
  /\ Goto("source", "read")
  /\ UNCHANGED <<contract, reads, disk, source, todo, outcome, fault, moved, runs>>

UseCache ==
  /\ cache = wanted
  /\ Goto("source", "read")
  /\ UNCHANGED <<contract, reads, disk, source, todo, outcome, fault, moved, runs>>

(* Mutant: a cached file that is not the one wanted is an error. *)
UnlinkPartOrReject ==
  /\ cache # wanted
  /\ IF cache = "absent" THEN Goto("source", "open") /\ UNCHANGED outcome ELSE Raise("source")
  /\ part' = "absent"
  /\ UNCHANGED <<contract, reads, cache, dist, sums, source, todo, fault, moved, runs>>

UnlinkPart ==
  /\ cache # wanted
  /\ Goto("source", "open")
  /\ part' = "absent"
  /\ UNCHANGED <<contract, reads, cache, dist, sums, source, todo, outcome, fault, moved, runs>>

(* urlopen, then the .part file is created; or the server does not answer. *)
OpenUrl ==
  /\ \/ /\ Goto("open", "copy")
        /\ part' = "partial"
        /\ UNCHANGED fault
     \/ /\ Goto("open", "cleanup")
        /\ fault' = TRUE
        /\ UNCHANGED part
  /\ UNCHANGED <<contract, reads, cache, dist, sums, source, todo, outcome, moved, runs>>

(* The body arrives; a connection that breaks leaves it partial.           *)
CopyBody ==
  /\ Goto("copy", "validate")
  /\ part' \in Versions \cup {"partial"}
  /\ fault' = (part' # wanted)
  /\ UNCHANGED <<contract, reads, cache, dist, sums, source, todo, outcome, moved, runs>>

(* Mutant: the download is moved into place as it came. *)
ReplaceCacheUnchecked ==
  /\ Goto("validate", "read")
  /\ cache' = part
  /\ part' = "absent"
  /\ UNCHANGED <<contract, reads, dist, sums, source, todo, outcome, fault, moved, runs>>

(* temporary.replace(source) once the download is valid.                   *)
ReplaceCache ==
  /\ part = wanted
  /\ Goto("validate", "read")
  /\ cache' = part
  /\ part' = "absent"
  /\ UNCHANGED <<contract, reads, dist, sums, source, todo, outcome, fault, moved, runs>>

RejectDownload ==
  /\ part # wanted
  /\ Goto("validate", "cleanup")
  /\ UNCHANGED <<contract, reads, disk, source, todo, outcome, fault, moved, runs>>

(* The finally clause of a download that failed. *)
Cleanup ==
  /\ Raise("cleanup")
  /\ part' = "absent"
  /\ UNCHANGED <<contract, reads, cache, dist, sums, source, todo, fault, moved, runs>>

----------------------------------------------------------------------------
(* build_release *)

(* The contract is read again, then the AAR.                               *)
ReadArchive ==
  /\ Goto("read", "clear")
  /\ frozen' = contract
  /\ source' = IF source = "none" THEN cache ELSE source
  /\ UNCHANGED <<contract, disk, wanted, todo, outcome, fault, moved, runs>>

(* rmtree deletes in some order of its own. *)
RemoveEntry ==
  /\ pc = "clear"
  /\ \/ \E n \in DOMAIN dist :
          /\ dist' = Restrict(dist, DOMAIN dist \ {n})
          /\ UNCHANGED sums
     \/ /\ sums # NoSums
        /\ sums' = NoSums
        /\ UNCHANGED dist
  /\ UNCHANGED <<contract, reads, cache, part, pc, source, todo, outcome, fault, moved, runs>>

(* Mutant: the directory is reused as it is. *)
MakeDirReused ==
  /\ Goto("clear", "write")
  /\ todo' = 1
  /\ UNCHANGED <<contract, reads, disk, source, outcome, fault, moved, runs>>

MakeDir ==
  /\ DOMAIN dist = {} /\ sums = NoSums
  /\ Goto("clear", "write")
  /\ todo' = 1
  /\ UNCHANGED <<contract, reads, disk, source, outcome, fault, moved, runs>>

(* Mutant: the entries are packaged without another look at their hashes.  *)
CreateAssetUnchecked ==
  /\ todo <= Len(Assets)
  /\ Goto("write", "finish")
  /\ LET kind == Assets[todo]
     IN Put(IF kind \in Archives THEN Temporary(kind) ELSE NameOf(kind, frozen), "partial")
  /\ UNCHANGED <<contract, reads, cache, part, sums, source, todo, outcome, fault, moved, runs>>

(* The entries of an archive have the hashes that the contract freezes.    *)
EntriesAreFrozen(kind) == kind \in Archives => source = frozen \/ kind \in Shared

(* Every asset is first created under some name with a part of its bytes:  *)
(* write_archive uses a temporary name, write_bytes the final one.         *)
CreateAsset ==
  /\ todo <= Len(Assets)
  /\ EntriesAreFrozen(Assets[todo])
  /\ Goto("write", "finish")
  /\ LET kind == Assets[todo]
     IN Put(IF kind \in Archives THEN Temporary(kind) ELSE NameOf(kind, frozen), "partial")
  /\ UNCHANGED <<contract, reads, cache, part, sums, source, todo, outcome, fault, moved, runs>>

(* classes.jar or a library is not the one the contract freezes.           *)
RejectEntries ==
  /\ todo <= Len(Assets)
  /\ ~EntriesAreFrozen(Assets[todo])
  /\ Raise("write")
  /\ source' = "none"
  /\ UNCHANGED <<contract, reads, disk, todo, fault, moved, runs>>

(* Contract and index come from the contract, the licence from the AAR, an *)
(* archive from both: manifests and names, and the entries.                *)
Bytes(kind) ==
  IF kind \in {"contract", "index"} THEN frozen
  ELSE IF kind = "license" \/ source = frozen THEN source ELSE "mixed"

(* temporary.replace(path), or the last byte of write_bytes.               *)
FinishAsset ==
  /\ Goto("finish", "write")
  /\ LET kind == Assets[todo]
         name == NameOf(kind, frozen)
         kept == DOMAIN dist \ {Temporary(kind)}
     IN dist' = [n \in kept \cup {name} |-> IF n = name THEN Bytes(kind) ELSE dist[n]]
  /\ todo' = todo + 1
  /\ UNCHANGED <<contract, reads, cache, part, sums, source, outcome, fault, moved, runs>>

(* The disk is full: the finally clause of write_archive removes the       *)
(* temporary file; what write_bytes has written stays.                     *)
WriteFails ==
  /\ Raise("finish")
  /\ dist' = Restrict(dist, DOMAIN dist \ {Temporary(Assets[todo])})
  /\ fault' = TRUE
  /\ source' = "none"
  /\ UNCHANGED <<contract, reads, cache, part, sums, todo, moved, runs>>

(* write_checksums lists what is in the directory.  A SHA256SUMS that is   *)
(* cut short does not match the directory, which is as good as none.       *)
WriteChecksums ==
  /\ todo = Len(Assets) + 1
  /\ Goto("write", "idle")
  /\ sums' = [complete |-> TRUE, lists |-> dist]
  /\ outcome' = "built"
  /\ source' = "none"
  /\ UNCHANGED <<contract, reads, cache, part, dist, todo, fault, moved, runs>>

----------------------------------------------------------------------------
(* verify_downloadable_runtime_bundles.py *)

Holds(name, content) == name \in DOMAIN dist /\ dist[name] = content

(* The index names the archives of the contract with their hashes, the     *)
(* archives hold the frozen entries (of the others nothing is asked), the  *)
(* contract is the checkout's, and the checksums cover exactly what is     *)
(* there.                                                                  *)
Verifies ==
  /\ Holds(NameOf("index", contract), contract)
  /\ \A kind \in Archives : \E bytes \in {contract, "mixed"} : Holds(NameOf(kind, contract), bytes)
  /\ Holds(NameOf("contract", contract), contract)
  /\ sums.complete
  /\ sums.lists = dist

Verify ==
  /\ pc = "idle"
  /\ outcome' = IF Verifies THEN "verified" ELSE "rejected"
  /\ UNCHANGED <<contract, disk, pc, reads, source, todo, fault, moved, runs>>

----------------------------------------------------------------------------
Next ==
  \/ ChangeContract \/ Start \/ Kill
  \/ UseSupplied \/ UseCache
  \/ UnlinkPart \/ OpenUrl \/ CopyBody \/ ReplaceCache \/ RejectDownload \/ Cleanup
  \/ ReadArchive \/ RemoveEntry \/ MakeDir
  \/ CreateAsset \/ RejectEntries \/ FinishAsset \/ WriteFails \/ WriteChecksums
  \/ Verify

Spec == Init /\ [][Next]_vars

----------------------------------------------------------------------------
(* Properties *)

(* What a file of the release can hold. *)
AarStates == Versions \cup {"partial", "mixed"}
Names == {NameOf(Assets[i], v) : i \in 1..Len(Assets), v \in Versions}
           \cup {Temporary(kind) : kind \in Archives}

(* Every variable has its type, and the cached name never holds a partial  *)
(* file: only a whole AAR is ever moved there.                             *)
TypeOK ==
  /\ contract \in Versions
  /\ cache \in Versions \cup {"absent"}
  /\ part \in Versions \cup {"partial", "absent"}
  /\ DOMAIN dist \subseteq Names /\ Range(dist) \subseteq AarStates
  /\ DOMAIN sums.lists \subseteq Names
  /\ pc \in {"idle", "source", "open", "copy", "validate", "cleanup", "read", "clear",
             "write", "finish"}
  /\ wanted \in Versions \cup {"none"} /\ frozen \in Versions \cup {"none"}
  /\ source \in Versions \cup {"none"}
  /\ todo \in 1..(Len(Assets) + 1)
  /\ outcome \in {"none", "failed", "built", "verified", "rejected"}
  /\ fault \in BOOLEAN /\ moved \in BOOLEAN /\ runs \in 0..MaxRuns

(* What a release of version v consists of. *)
Release(v) == [n \in {NameOf(Assets[i], v) : i \in 1..Len(Assets)} |-> v]

(* The entries a build packages are those of the AAR that the contract of  *)
(* main freezes, whatever an earlier run, an earlier contract or the       *)
(* server left behind; and once the archives are written that contract is  *)
(* the one they were written by, though it was read twice.                 *)
SourceIsPinned ==
  pc \in {"clear", "write", "finish"} =>
    /\ source = wanted
    /\ pc # "clear" /\ todo > 3 => source = frozen

(* What an interrupted run leaves behind never makes a later run fail: a   *)
(* run fails only when it was itself given a wrong or incomplete AAR,      *)
(* could not write, or the contract changed under it.                      *)
RerunRecovers == outcome = "failed" => fault \/ moved

(* A directory the verifier accepts holds one whole release of the current *)
(* contract and nothing else: no asset of an older contract, no temporary  *)
(* file, nothing from a build that was cut off, and no archive whose       *)
(* entries are of another AAR than its manifest, although the verifier     *)
(* does not look at all entries.                                           *)
VerifiedMeansRelease == outcome = "verified" => dist = Release(contract)

(* A build that ends leaves one whole release, of the contract it read     *)
(* last, and the verifier accepts it unless the contract has changed.      *)
BuiltMeansVerifiable ==
  outcome = "built" => dist = Release(frozen) /\ (frozen = contract => Verifies)
=============================================================================
