\* Two ABIs, one of them with an accelerator, two runs.
SPECIFICATION Spec
CONSTANTS
  Abis = {"arm64-v8a", "x86"}
  GpuAbis = {"arm64-v8a"}
  Repositories <- MCRepositories
  Fits <- MCFits
  TextSeries = {"s1", "s2", "offset"}
  RequireClean = TRUE
  Defects = {"elf", "machine", "jni", "prebuilt"}
  MaxRuns = 2
  MaxMoves = 1
  MaxFaults = 1
INVARIANTS
  TypeOK
  OnlyPinnedBazelRuns
  NoInexactTreeIsBuilt
  OneRunPerDirectory
  AcceptedIsContract
  SealedByManifest
  LabelIsWhatWasBuilt
CHECK_DEADLOCK FALSE
