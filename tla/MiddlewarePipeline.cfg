SPECIFICATION Spec
CONSTANTS
  Threads = {t1, t2}
  Terminals = {app}
  NoTerminal = NoTerminal
  MaxHandles = 3
  MaxChains = 5
PROPERTIES
  ImplementsSnapshotWalk
