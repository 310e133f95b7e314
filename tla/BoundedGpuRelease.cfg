\* One official ABI besides arm64, two builds of a workflow and one more run.
SPECIFICATION Spec
CONSTANTS
  OtherAbis = {"x86_64"}
  Checkouts <- MCCheckouts
  Pushed <- MCPushed
  Variants = {"v0", "v1"}
  TagVersion = "bss.1"
  MaxRuns = 3
  MaxLocal = 2
  MaxMoves = 1
  MaxPushes = 2
  MaxFaults = 1
INVARIANTS
  TypeOK
  OnlyPinnedInputsAreRead
  SumsVouchForDist
  VerifiedAarIsContract
  UploadIsWhatSumsList
  ReleaseIsOfItsTag
PROPERTIES
  ImplementsReproducibleRelease
CHECK_DEADLOCK FALSE
