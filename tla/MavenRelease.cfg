\* Two replicas, three stagings, two things that go wrong.
SPECIFICATION Spec
CONSTANTS
  Locks = {"l1", "l2"}
  Classes = {"c0"}
  Others = {"o0", "o1"}
  Matrix = {"jni"}
  Keyring = {"release key", "another key"}
  MaxStages = 3
  MaxFaults = 2
INVARIANTS
  TypeOK
  BundleDescribesItself
  BundleIsSigned
  NothingStagedOverLeftovers
PROPERTIES
  ImplementsReproducibleRelease
CHECK_DEADLOCK FALSE
