\* Two contracts that share the cached name and whose AARs differ in the GPU
\* libraries only, three runs.
SPECIFICATION Spec
CONSTANTS
  Versions = {v1, v2}
  Shared = {"api", "cpu"}
  MaxRuns = 3
INVARIANTS
  TypeOK
  SourceIsPinned
  RerunRecovers
  VerifiedMeansRelease
  BuiltMeansVerifiable
CHECK_DEADLOCK FALSE
