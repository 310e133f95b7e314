--------------------- MODULE DownloadableBundlesProofs ---------------------
(***************************************************************************)
(* What the bundle builder promises for any number of contracts and runs.  *)
(* The invariant says, for every step of a run, what the disk holds: which *)
(* AAR the cache has been checked to be, which assets are complete, and    *)
(* that a complete SHA256SUMS lists one whole release.  An AAR that is not *)
(* of the contract the release is written by may come as far as the last   *)
(* archive, never further.                                                 *)
(***************************************************************************)
EXTENDS DownloadableBundles, TLAPS

(* The names of the first k - 1 assets of a release. *)
Done(k, v) == {NameOf(Assets[i], v) : i \in 1..(k - 1)}

(* The name under which asset k is created. *)
Created(k, v) ==
  IF Assets[k] \in Archives THEN Temporary(Assets[k]) ELSE NameOf(Assets[k], v)

(* What the archives written so far hold. *)
Good == IF source = frozen THEN frozen ELSE "mixed"

(* What has been checked about the AAR. *)
SourceInv ==
  /\ pc \notin {"read", "clear", "write", "finish"} => source = "none"
  /\ pc = "read" => source = wanted \/ (source = "none" /\ cache = wanted)
  /\ pc \in {"clear", "write", "finish"} => source = wanted

(* The contracts a run has read; one that stays gives one contract.        *)
ReadInv ==
  /\ pc # "idle" => wanted \in Versions
  /\ pc \in {"clear", "write", "finish"} => frozen \in Versions
  /\ pc # "idle" /\ ~moved => wanted = contract
  /\ pc \in {"clear", "write", "finish"} /\ ~moved => frozen = contract

(* An AAR that is not the contract's comes as far as the archives allow.   *)
EntriesInv ==
  /\ pc = "write" /\ source # frozen =>
       \A i \in 1..6 : i < todo /\ Assets[i] \in Archives => Assets[i] \in Shared
  /\ pc = "finish" /\ source # frozen =>
       \A i \in 1..6 : i <= todo /\ Assets[i] \in Archives => Assets[i] \in Shared

(* A run that is on its way to fail was given a reason to. *)
FaultInv ==
  /\ pc # "idle" => outcome = "none"
  /\ pc = "cleanup" => fault
  /\ pc = "validate" => fault = (part # wanted)
  /\ outcome = "failed" => fault \/ moved

(* What a run has written so far. *)
DistInv ==
  /\ dist = [n \in DOMAIN dist |-> dist[n]]
  /\ pc = "write" =>
       /\ todo \in 1..7
       /\ dist = [n \in Done(todo, frozen) |-> Good]
  /\ pc = "finish" =>
       /\ todo \in 1..6
       /\ dist = [n \in Done(todo, frozen) \cup {Created(todo, frozen)} |->
                    IF n = Created(todo, frozen) THEN "partial" ELSE Good]

(* Checksums are only ever written for one whole release. *)
SumsInv ==
  /\ sums.complete \in BOOLEAN
  /\ sums.complete => \E v \in Versions : sums.lists = Release(v)

(* A verdict still describes the disk when it is read. *)
VerdictInv ==
  /\ outcome = "verified" => Verifies
  /\ outcome = "built" => dist = Release(frozen) /\ sums = [complete |-> TRUE, lists |-> dist]

IInv ==
  /\ contract \in Versions
  /\ SourceInv /\ ReadInv /\ EntriesInv
  /\ FaultInv
  /\ DistInv
  /\ SumsInv
  /\ VerdictInv

LEMMA LengthOfAssets == Len(Assets) = 6
  BY DEF Assets

LEMMA AssetsDiffer == \A i, k \in 1..6 : i < k => Assets[i] # Assets[k]
  BY DEF Assets

LEMMA DoneGrows ==
  ASSUME NEW k \in 1..6, NEW v
  PROVE  Done(k + 1, v) = Done(k, v) \cup {NameOf(Assets[k], v)}
<1>1. 1..((k + 1) - 1) = (1..(k - 1)) \cup {k}
  OBVIOUS
<1>2. QED
  BY <1>1 DEF Done

LEMMA ReleaseIsDone == \A v : Release(v) = [n \in Done(7, v) |-> v]
  BY LengthOfAssets DEF Release, Done

LEMMA NothingDone == \A v : Done(1, v) = {}
  BY DEF Done

LEMMA TemporaryIsFresh ==
  ASSUME NEW k \in 1..6, NEW v
  PROVE  Temporary(Assets[k]) \notin Done(k, v)
<1>1. \A kind, w : NameOf(kind, w)[1] = kind /\ Temporary(kind)[1] = kind
  BY DEF NameOf, Temporary
<1>2. QED
  BY <1>1, AssetsDiffer DEF Done

(* Archives come first, and once they are written the AAR is the one that  *)
(* the contract build_release has read freezes.                            *)
LEMMA SourceSettled ==
  ASSUME IInv, (pc = "write" /\ todo > 3) \/ (pc = "finish" /\ todo >= 3), todo \in Nat
  PROVE  source = frozen
<1>1. Assets[1] = "api" /\ Assets[2] = "cpu" /\ Assets[3] = "gpu"
  BY DEF Assets
<1>2. SUFFICES ASSUME source # frozen PROVE FALSE
  OBVIOUS
<1>3. \A i \in 1..3 : Assets[i] \in Archives => Assets[i] \in Shared
  BY <1>2 DEF IInv, EntriesInv
<1>4. Archives \subseteq Shared
  BY <1>1, <1>3 DEF Archives
<1>5. QED
  BY <1>4, SharedAssumption

(* A directory that the verifier accepts is a whole release. *)
LEMMA VerifiesIsRelease ==
  ASSUME contract \in Versions, SumsInv, Verifies
  PROVE  dist = Release(contract)
<1>1. PICK v \in Versions : dist = Release(v)
  BY DEF SumsInv, Verifies
<1>2. NameOf("index", contract) \in DOMAIN dist /\ dist[NameOf("index", contract)] = contract
  BY DEF Verifies, Holds
<1>3. v = contract
  BY <1>1, <1>2 DEF Release
<1>4. QED
  BY <1>1, <1>3

(* And a whole release is accepted once its checksums are written.         *)
LEMMA ReleaseVerifies ==
  ASSUME dist = Release(contract), sums = [complete |-> TRUE, lists |-> dist]
  PROVE  Verifies
<1>1. \A i \in 1..6 : Holds(NameOf(Assets[i], contract), contract)
  BY LengthOfAssets DEF Release, Holds, NameOf, Assets
<1>2. /\ Assets[1] = "api" /\ Assets[2] = "cpu" /\ Assets[3] = "gpu"
      /\ Assets[5] = "contract" /\ Assets[6] = "index"
  BY DEF Assets
<1>3. QED
  BY <1>1, <1>2 DEF Verifies, Archives

LEMMA InitIInv == Init => IInv
  BY DEF Init, IInv, SourceInv, ReadInv, EntriesInv, FaultInv, DistInv, SumsInv, VerdictInv,
         NoSums

(* The steps that leave the release directory and its verdict alone. *)
LEMMA StepOutsideDist ==
  ASSUME IInv, contract' \in Versions, UNCHANGED <<dist, sums>>,
         outcome' \notin {"verified", "built"}, pc' \notin {"write", "finish"}
  PROVE  DistInv' /\ SumsInv' /\ VerdictInv' /\ EntriesInv'
  BY DEF IInv, DistInv, SumsInv, VerdictInv, EntriesInv

(* Asset todo is created next to the finished ones.                        *)
LEMMA CreateKeepsDist == ASSUME IInv, CreateAsset PROVE DistInv' /\ EntriesInv'
<1>1. /\ todo \in 1..6 /\ todo' = todo /\ pc = "write" /\ pc' = "finish"
      /\ UNCHANGED <<frozen, source>>
  BY LengthOfAssets DEF CreateAsset, Goto, IInv, DistInv, reads
<1>2. dist = [n \in Done(todo, frozen) |-> Good]
  BY <1>1 DEF IInv, DistInv
<1>3. Put(Created(todo, frozen), "partial")
  BY DEF CreateAsset, Created
<1>4. dist' = [n \in Done(todo, frozen) \cup {Created(todo, frozen)} |->
                 IF n = Created(todo, frozen) THEN "partial" ELSE Good]
  BY <1>2, <1>3 DEF Put
<1>5. /\ Done(todo, frozen)' = Done(todo, frozen)
      /\ Created(todo, frozen)' = Created(todo, frozen) /\ Good' = Good
  BY <1>1 DEF Done, Created, Good
<1>6. DistInv'
  BY <1>1, <1>4, <1>5 DEF DistInv
<1>7. EntriesInv'
  <2>1. \A i \in 1..6 : i <= todo => i < todo \/ i = todo
    BY <1>1
  <2>2. source # frozen /\ Assets[todo] \in Archives => Assets[todo] \in Shared
    BY DEF CreateAsset, EntriesAreFrozen
  <2>3. QED
    BY <1>1, <2>1, <2>2 DEF IInv, EntriesInv
<1>8. QED
  BY <1>6, <1>7

(* And takes its place among them.                                         *)
LEMMA FinishKeepsDist == ASSUME IInv, FinishAsset PROVE DistInv' /\ EntriesInv'
<1> DEFINE kind == Assets[todo]
           name == NameOf(kind, frozen)
           done == Done(todo, frozen)
<1>1. /\ pc = "finish" /\ pc' = "write" /\ UNCHANGED <<frozen, source>> /\ todo' = todo + 1
  BY DEF FinishAsset, Goto, reads
<1>2. /\ todo \in 1..6
      /\ dist = [n \in done \cup {Created(todo, frozen)} |->
                   IF n = Created(todo, frozen) THEN "partial" ELSE Good]
  BY <1>1 DEF IInv, DistInv
<1>3. Bytes(kind) = Good
  <2>1. CASE todo >= 3
    <3>1. source = frozen
      BY <1>1, <1>2, <2>1, SourceSettled
    <3>2. QED
      BY <3>1 DEF Bytes, Good
  <2>2. CASE todo \in 1..2
    <3>1. kind \in {"api", "cpu"}
      BY <2>2 DEF Assets
    <3>2. QED
      BY <3>1 DEF Bytes, Good
  <2>3. QED
    BY <1>2, <2>1, <2>2
<1>4. dist' = [n \in (DOMAIN dist \ {Temporary(kind)}) \cup {name} |->
                 IF n = name THEN Good ELSE dist[n]]
  BY <1>1, <1>3 DEF FinishAsset
<1>5. Temporary(kind) \notin done
  BY <1>2, TemporaryIsFresh
<1>6. (DOMAIN dist \ {Temporary(kind)}) \cup {name} = done \cup {name}
  BY <1>2, <1>5 DEF Created
<1>7. \A n \in done \ {name} : dist[n] = Good
  BY <1>2, <1>5 DEF Created
<1>8. dist' = [n \in done \cup {name} |-> Good]
  BY <1>4, <1>6, <1>7
<1>9. Done(todo', frozen') = done \cup {name} /\ Good' = Good
  BY <1>1, <1>2, DoneGrows DEF Good
<1>10. DistInv'
  BY <1>1, <1>2, <1>8, <1>9 DEF DistInv
<1>11. EntriesInv'
  BY <1>1, <1>2 DEF IInv, EntriesInv
<1>12. QED
  BY <1>10, <1>11

LEMMA StepIInv == IInv /\ [Next]_vars => IInv'
<1> SUFFICES ASSUME IInv, [Next]_vars PROVE IInv'
  OBVIOUS
<1> USE DEF disk, reads
<1>1. ASSUME contract' \in Versions, UNCHANGED <<dist, sums>>,
             outcome' \notin {"verified", "built"},
             pc' \notin {"write", "finish"}, SourceInv', ReadInv', FaultInv'
      PROVE  IInv'
  BY <1>1, StepOutsideDist DEF IInv
<1>2. contract \in Versions
  BY DEF IInv
<1> USE DEF SourceInv, ReadInv, FaultInv
<1>3. CASE ChangeContract
  <2>1. /\ contract' \in Versions /\ outcome' = "none" /\ moved' = (moved \/ pc # "idle")
        /\ UNCHANGED <<disk, pc, reads, source, todo, fault>>
    BY <1>3 DEF ChangeContract
  <2>2. DistInv' /\ EntriesInv' /\ SumsInv' /\ VerdictInv'
    BY <2>1 DEF IInv, DistInv, EntriesInv, SumsInv, VerdictInv, Done, Created, Good
  <2>3. SourceInv' /\ ReadInv' /\ FaultInv'
    BY <2>1 DEF IInv
  <2>4. QED
    BY <2>1, <2>2, <2>3 DEF IInv
<1>4. CASE Start
  BY <1>1, <1>2, <1>4 DEF Start, Goto, IInv
<1>5. CASE Kill
  BY <1>1, <1>2, <1>5 DEF Kill, IInv
<1>6. CASE UseSupplied
  BY <1>1, <1>2, <1>6 DEF UseSupplied, Goto, Raise, IInv
<1>7. CASE UseCache
  BY <1>1, <1>2, <1>7 DEF UseCache, Goto, IInv
<1>8. CASE UnlinkPart
  BY <1>1, <1>2, <1>8 DEF UnlinkPart, Goto, IInv
<1>9. CASE OpenUrl
  BY <1>1, <1>2, <1>9 DEF OpenUrl, Goto, IInv
<1>10. CASE CopyBody
  BY <1>1, <1>2, <1>10 DEF CopyBody, Goto, IInv
<1>11. CASE ReplaceCache
  BY <1>1, <1>2, <1>11 DEF ReplaceCache, Goto, IInv
<1>12. CASE RejectDownload
  BY <1>1, <1>2, <1>12 DEF RejectDownload, Goto, IInv
<1>13. CASE Cleanup
  BY <1>1, <1>2, <1>13 DEF Cleanup, Raise, Goto, IInv
<1>14. CASE ReadArchive
  <2>1. /\ pc = "read" /\ pc' = "clear" /\ frozen' = contract /\ outcome = "none"
        /\ source' = IF source = "none" THEN cache ELSE source
        /\ UNCHANGED <<contract, disk, wanted, todo, outcome, fault, moved>>
    BY <1>14 DEF ReadArchive, Goto, IInv
  <2>2. wanted \in Versions /\ wanted # "none"
    BY <2>1, VersionAssumption DEF IInv
  <2>3. source' = wanted
    BY <2>1, <2>2 DEF IInv
  <2>4. QED
    BY <1>1, <1>2, <2>1, <2>3 DEF IInv
<1>15. CASE RemoveEntry
  <2>1. /\ pc = "clear" /\ outcome = "none"
        /\ UNCHANGED <<contract, reads, cache, part, pc, source, outcome, fault, moved>>
    BY <1>15 DEF RemoveEntry, IInv
  <2>2. sums' = NoSums \/ sums' = sums
    BY <1>15 DEF RemoveEntry
  <2>3. SumsInv'
    <3>1. CASE sums' = NoSums
      BY <3>1 DEF SumsInv, NoSums
    <3>2. CASE sums' = sums
      BY <3>2 DEF IInv, SumsInv
    <3>3. QED
      BY <2>2, <3>1, <3>2
  <2>4. dist' = [n \in DOMAIN dist' |-> dist'[n]]
    <3>1. dist' = dist \/ \E n \in DOMAIN dist : dist' = Restrict(dist, DOMAIN dist \ {n})
      BY <1>15 DEF RemoveEntry
    <3>2. \A S : Restrict(dist, S) = [n \in S |-> dist[n]]
      BY DEF Restrict
    <3>3. dist = [n \in DOMAIN dist |-> dist[n]]
      BY DEF IInv, DistInv
    <3>4. CASE dist' = dist
      BY <3>3, <3>4
    <3>5. CASE \E n \in DOMAIN dist : dist' = Restrict(dist, DOMAIN dist \ {n})
      <4>1. PICK S : dist' = [n \in S |-> dist[n]]
        BY <3>2, <3>5
      <4>2. QED
        BY <4>1
    <3>6. QED
      BY <3>1, <3>4, <3>5
  <2>5. QED
    BY <2>1, <2>3, <2>4 DEF IInv, DistInv, EntriesInv, VerdictInv
<1>16. CASE MakeDir
  <2>1. /\ pc' = "write" /\ pc = "clear" /\ todo' = 1 /\ outcome = "none"
        /\ UNCHANGED <<contract, reads, cache, part, dist, sums, source, outcome, fault, moved>>
    BY <1>16 DEF MakeDir, Goto, IInv
  <2>2. dist = [n \in {} |-> Good]
    BY <1>16 DEF MakeDir, IInv, DistInv
  <2>3. DistInv'
    BY <2>1, <2>2, NothingDone DEF DistInv
  <2>4. EntriesInv'
    BY <2>1 DEF EntriesInv
  <2>5. QED
    BY <2>1, <2>3, <2>4 DEF IInv, SumsInv, VerdictInv
<1>17. CASE CreateAsset
  <2>1. /\ pc' = "finish" /\ pc = "write" /\ outcome = "none"
        /\ UNCHANGED <<contract, reads, cache, part, sums, source, outcome, fault, moved>>
    BY <1>17 DEF CreateAsset, Goto, IInv
  <2>2. QED
    BY <1>17, <2>1, CreateKeepsDist DEF IInv, SumsInv, VerdictInv
<1>18. CASE RejectEntries
  <2>1. /\ pc = "write" /\ pc' = "idle" /\ outcome' = "failed" /\ source' = "none"
        /\ UNCHANGED <<contract, disk, reads, fault, moved>>
    BY <1>18 DEF RejectEntries, Raise, Goto
  <2>2. source # frozen
    BY <1>18 DEF RejectEntries, EntriesAreFrozen
  <2>3. moved
    BY <2>1, <2>2 DEF IInv
  <2>4. QED
    BY <1>1, <1>2, <2>1, <2>3
<1>19. CASE FinishAsset
  <2>1. /\ pc' = "write" /\ pc = "finish" /\ outcome = "none"
        /\ UNCHANGED <<contract, reads, cache, part, sums, source, outcome, fault, moved>>
    BY <1>19 DEF FinishAsset, Goto, IInv
  <2>2. QED
    BY <1>19, <2>1, FinishKeepsDist DEF IInv, SumsInv, VerdictInv
<1>20. CASE WriteFails
  <2>1. /\ pc' = "idle" /\ outcome' = "failed" /\ fault' /\ source' = "none"
        /\ UNCHANGED <<contract, sums>>
    BY <1>20 DEF WriteFails, Raise, Goto
  <2>2. dist' = [n \in DOMAIN dist' |-> dist'[n]]
    BY <1>20 DEF WriteFails, Restrict
  <2>3. QED
    BY <2>1, <2>2 DEF IInv, DistInv, EntriesInv, SumsInv, VerdictInv
<1>21. CASE WriteChecksums
  <2>1. /\ pc = "write" /\ pc' = "idle" /\ outcome' = "built" /\ todo = 7 /\ source' = "none"
        /\ UNCHANGED <<contract, dist, frozen>>
        /\ sums' = [complete |-> TRUE, lists |-> dist]
    BY <1>21, LengthOfAssets DEF WriteChecksums, Goto
  <2>2. source = frozen /\ frozen \in Versions
    BY <2>1, SourceSettled DEF IInv
  <2>3. dist = Release(frozen)
    BY <2>1, <2>2, ReleaseIsDone DEF IInv, DistInv, Good
  <2>4. SumsInv'
    BY <2>1, <2>2, <2>3 DEF IInv, SumsInv
  <2>5. dist' = Release(frozen')
    BY <2>1, <2>3
  <2>6. QED
    BY <2>1, <2>4, <2>5 DEF IInv, DistInv, EntriesInv, VerdictInv
<1>22. CASE Verify
  <2>1. /\ pc = "idle" /\ UNCHANGED <<contract, disk, pc, reads, source, fault, moved>>
        /\ outcome' = IF Verifies THEN "verified" ELSE "rejected"
    BY <1>22 DEF Verify
  <2>2. Verifies' = Verifies
    BY <2>1 DEF Verifies, Holds
  <2>3. VerdictInv'
    BY <2>1, <2>2 DEF VerdictInv
  <2>4. QED
    BY <2>1, <2>3 DEF IInv, DistInv, EntriesInv, SumsInv
<1>23. CASE UNCHANGED vars
  BY <1>23 DEF vars, IInv, DistInv, EntriesInv, SumsInv, VerdictInv, Verifies, Holds, Done,
               Created, Good
<1>24. QED
  BY <1>3, <1>4, <1>5, <1>6, <1>7, <1>8, <1>9, <1>10, <1>11, <1>12, <1>13, <1>14, <1>15,
     <1>16, <1>17, <1>18, <1>19, <1>20, <1>21, <1>22, <1>23 DEF Next

(* What a build packages is what its contract froze, whatever interrupted  *)
(* runs, other contracts and the server have left in the cache; if the     *)
(* contract moves between its two readings, the build does not get past    *)
(* the archives.                                                           *)
THEOREM PinnedSource == Spec => []SourceIsPinned
<1>1. IInv => SourceIsPinned
  <2> SUFFICES ASSUME IInv, pc \in {"clear", "write", "finish"}
               PROVE  source = wanted /\ (pc # "clear" /\ todo > 3 => source = frozen)
    BY DEF SourceIsPinned
  <2>1. pc # "clear" => todo \in Nat
    BY DEF IInv, DistInv
  <2>2. QED
    BY <2>1, SourceSettled DEF IInv, SourceInv
<1>2. QED
  BY <1>1, InitIInv, StepIInv, PTL DEF Spec

(* A run that is given the right AAR, a working disk and a contract that   *)
(* stays never fails.                                                      *)
THEOREM RecoveryByRerun == Spec => []RerunRecovers
<1>1. IInv => RerunRecovers
  BY DEF IInv, FaultInv, RerunRecovers
<1>2. QED
  BY <1>1, InitIInv, StepIInv, PTL DEF Spec

(* The verifier accepts whole releases of the current contract only.       *)
THEOREM AcceptedIsWhole == Spec => []VerifiedMeansRelease
<1>1. IInv => VerifiedMeansRelease
  BY VerifiesIsRelease DEF IInv, VerdictInv, VerifiedMeansRelease
<1>2. QED
  BY <1>1, InitIInv, StepIInv, PTL DEF Spec

(* A completed build leaves one whole release, which the verifier accepts  *)
(* unless the contract has changed, whenever it did.                       *)
THEOREM BuiltIsAccepted == Spec => []BuiltMeansVerifiable
<1>1. IInv => BuiltMeansVerifiable
  BY ReleaseVerifies DEF IInv, VerdictInv, BuiltMeansVerifiable
<1>2. QED
  BY <1>1, InitIInv, StepIInv, PTL DEF Spec
----------------------------------------------------------------------------
(* Types: what a step puts on the disk is a whole AAR or a partial one,    *)
(* under one of the names of a release.                                    *)

LEMMA AssetNames ==
  ASSUME NEW k \in 1..6, NEW v \in Versions
  PROVE  NameOf(Assets[k], v) \in Names /\ Created(k, v) \in Names
  BY LengthOfAssets DEF Names, Created

LEMMA NoSumsListNothing == DOMAIN NoSums.lists = {}
  BY DEF NoSums

LEMMA InitTypeOK == Init => TypeOK
<1> SUFFICES ASSUME Init PROVE TypeOK
  OBVIOUS
<1>1. DOMAIN dist = {} /\ DOMAIN sums.lists = {}
  BY NoSumsListNothing DEF Init
<1>2. Range(dist) = {}
  BY <1>1 DEF Range
<1>3. 1 \in 1..(Len(Assets) + 1) /\ 0 \in 0..MaxRuns
  BY LengthOfAssets, RunAssumption
<1>4. QED
  BY <1>1, <1>2, <1>3 DEF Init, TypeOK

(* The entries of dist that a step leaves there were there before.         *)
LEMMA EntryTypes ==
  ASSUME TypeOK, NEW S, NEW name \in Names, NEW content \in AarStates,
         S \subseteq DOMAIN dist,
         \/ dist' = [n \in S |-> dist[n]]
         \/ dist' = [n \in S \cup {name} |-> IF n = name THEN content ELSE dist[n]]
  PROVE  DOMAIN dist' \subseteq Names /\ Range(dist') \subseteq AarStates
  BY DEF TypeOK, Range

LEMMA StepTypeOK == IInv /\ TypeOK /\ [Next]_vars => TypeOK'
<1> SUFFICES ASSUME IInv, TypeOK, [Next]_vars PROVE TypeOK'
  OBVIOUS
<1> USE DEF disk, reads
<1>1. ASSUME UNCHANGED <<dist, sums>>,
             contract' \in Versions /\ cache' \in Versions \cup {"absent"},
             part' \in Versions \cup {"partial", "absent"},
             pc' \in {"idle", "source", "open", "copy", "validate", "cleanup", "read", "clear",
                      "write", "finish"},
             wanted' \in Versions \cup {"none"} /\ frozen' \in Versions \cup {"none"},
             source' \in Versions \cup {"none"},
             todo' \in 1..(Len(Assets) + 1),
             outcome' \in {"none", "failed", "built", "verified", "rejected"},
             fault' \in BOOLEAN /\ moved' \in BOOLEAN /\ runs' \in 0..MaxRuns
      PROVE  TypeOK'
  BY <1>1 DEF TypeOK
<1>2. CASE ChangeContract \/ Start \/ Kill \/ Verify
  <2>1. runs' \in 0..MaxRuns
    BY <1>2, RunAssumption DEF ChangeContract, Start, Kill, Verify, TypeOK
  <2>2. moved' \in BOOLEAN
    BY <1>2 DEF ChangeContract, Start, Kill, Verify, TypeOK
  <2>3. QED
    BY <1>1, <1>2, <2>1, <2>2 DEF ChangeContract, Start, Kill, Verify, Goto, TypeOK
<1>3. CASE UseSupplied \/ UseCache \/ UnlinkPart \/ OpenUrl
  BY <1>1, <1>3 DEF UseSupplied, UseCache, UnlinkPart, OpenUrl, Goto, Raise, TypeOK
<1>4. CASE CopyBody \/ ReplaceCache \/ RejectDownload \/ Cleanup
  <2>1. wanted \in Versions
    BY <1>4 DEF CopyBody, ReplaceCache, RejectDownload, Cleanup, Goto, Raise, IInv, ReadInv
  <2>2. QED
    BY <1>1, <1>4, <2>1 DEF CopyBody, ReplaceCache, RejectDownload, Cleanup, Goto, Raise, TypeOK
<1>5. CASE ReadArchive \/ MakeDir \/ RejectEntries
  <2>1. source' \in Versions \cup {"none"}
    <3>1. CASE ReadArchive
      <4>1. (source = wanted \/ (source = "none" /\ cache = wanted)) /\ wanted \in Versions
        BY <3>1 DEF ReadArchive, Goto, IInv, SourceInv, ReadInv
      <4>2. source' = IF source = "none" THEN cache ELSE source
        BY <3>1 DEF ReadArchive
      <4>3. QED
        BY <4>1, <4>2, VersionAssumption
    <3>2. CASE MakeDir \/ RejectEntries
      BY <3>2 DEF MakeDir, RejectEntries, TypeOK
    <3>3. QED
      BY <1>5, <3>1, <3>2
  <2>2. todo' \in 1..(Len(Assets) + 1)
    BY <1>5, LengthOfAssets DEF ReadArchive, MakeDir, RejectEntries, TypeOK
  <2>3. QED
    BY <1>1, <1>5, <2>1, <2>2 DEF ReadArchive, MakeDir, RejectEntries, Goto, Raise, TypeOK
<1>6. ASSUME DOMAIN dist' \subseteq Names /\ Range(dist') \subseteq AarStates,
             DOMAIN sums'.lists \subseteq Names,
             UNCHANGED <<contract, reads, cache, part, moved, runs>>,
             pc' \in {"clear", "write", "finish", "idle"},
             source' \in {source, "none"}, todo' \in 1..(Len(Assets) + 1),
             outcome' \in {outcome, "failed", "built"}, fault' \in BOOLEAN
      PROVE  TypeOK'
  BY <1>6 DEF TypeOK
<1>7. "partial" \in AarStates
  BY DEF AarStates
<1>8. CASE RemoveEntry
  <2>1. DOMAIN sums'.lists \subseteq Names
    BY <1>8, NoSumsListNothing DEF RemoveEntry, TypeOK
  <2>2. DOMAIN dist' \subseteq Names /\ Range(dist') \subseteq AarStates
    <3>1. CASE dist' = dist
      BY <3>1 DEF TypeOK
    <3>2. CASE \E n \in DOMAIN dist : dist' = Restrict(dist, DOMAIN dist \ {n})
      <4>1. PICK S : S \subseteq DOMAIN dist /\ dist' = [n \in S |-> dist[n]]
        BY <3>2 DEF Restrict
      <4>2. QED
        BY <4>1 DEF TypeOK, Range
    <3>3. QED
      BY <1>8, <3>1, <3>2 DEF RemoveEntry
  <2>3. QED
    BY <1>6, <1>8, <2>1, <2>2 DEF RemoveEntry, TypeOK
<1>9. CASE CreateAsset
  <2>1. todo \in 1..6 /\ pc' = "finish" /\ frozen \in Versions
    BY <1>9, LengthOfAssets DEF CreateAsset, Goto, TypeOK, IInv, ReadInv
  <2>2. Put(Created(todo, frozen), "partial")
    BY <1>9 DEF CreateAsset, Created
  <2>3. DOMAIN dist' \subseteq Names /\ Range(dist') \subseteq AarStates
    BY <1>7, <2>1, <2>2, AssetNames, EntryTypes DEF Put
  <2>4. QED
    BY <1>6, <1>9, <2>1, <2>3 DEF CreateAsset, TypeOK
<1>10. CASE FinishAsset
  <2> DEFINE name == NameOf(Assets[todo], frozen)
             kept == DOMAIN dist \ {Temporary(Assets[todo])}
             bytes == Bytes(Assets[todo])
  <2>1. todo \in 1..6 /\ todo' \in 1..7 /\ frozen \in Versions /\ pc' = "write"
    BY <1>10 DEF FinishAsset, Goto, IInv, DistInv, ReadInv
  <2>2. dist' = [n \in kept \cup {name} |-> IF n = name THEN bytes ELSE dist[n]]
    BY <1>10 DEF FinishAsset
  <2>3. name \in Names /\ kept \subseteq DOMAIN dist
    BY <2>1, AssetNames
  <2>4. bytes \in AarStates
    <3>1. source \in Versions
      BY <1>10 DEF FinishAsset, Goto, IInv, SourceInv, ReadInv
    <3>2. QED
      BY <2>1, <3>1 DEF Bytes, AarStates
  <2>5. DOMAIN dist' \subseteq Names /\ Range(dist') \subseteq AarStates
    <3> HIDE DEF name, kept, bytes
    <3> QED
      BY <2>2, <2>3, <2>4, EntryTypes
  <2>6. QED
    BY <1>6, <1>10, <2>1, <2>5, LengthOfAssets DEF FinishAsset, TypeOK
<1>11. CASE WriteFails
  <2>1. PICK S : S \subseteq DOMAIN dist /\ dist' = [n \in S |-> dist[n]]
    BY <1>11 DEF WriteFails, Restrict
  <2>2. DOMAIN dist' \subseteq Names /\ Range(dist') \subseteq AarStates
    BY <2>1 DEF TypeOK, Range
  <2>3. QED
    BY <1>6, <1>11, <2>2 DEF WriteFails, Raise, Goto, TypeOK
<1>12. CASE WriteChecksums
  <2>1. sums'.lists = dist
    BY <1>12 DEF WriteChecksums
  <2>2. QED
    BY <1>6, <1>12, <2>1 DEF WriteChecksums, Goto, TypeOK
<1>13. CASE UNCHANGED vars
  BY <1>13 DEF vars, TypeOK
<1>14. QED
  BY <1>2, <1>3, <1>4, <1>5, <1>8, <1>9, <1>10, <1>11, <1>12, <1>13 DEF Next

(* Every variable keeps its type; the cached name never holds a partial    *)
(* file, whenever a run is killed.                                         *)
THEOREM TypeCorrect == Spec => []TypeOK
<1>1. Init => IInv /\ TypeOK
  BY InitIInv, InitTypeOK
<1>2. IInv /\ TypeOK /\ [Next]_vars => (IInv /\ TypeOK)'
  BY StepIInv, StepTypeOK
<1>3. QED
  BY <1>1, <1>2, PTL DEF Spec
=============================================================================
