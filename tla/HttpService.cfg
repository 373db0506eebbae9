SPECIFICATION Spec
CONSTANTS
  Threads = {t1, t2}
  MaxHandles = 3
  MaxSets = 5
INVARIANTS
  ResultIsTheAnswer
PROPERTIES
  ImplementsSnapshotWalk
