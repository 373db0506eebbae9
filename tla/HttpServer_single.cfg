SPECIFICATION Spec
CONSTANTS
  Threads = {t1}
  NoThread = NoThread
  Requests = {r1, r2}
  Handlers = {h1}
  NoHandler = NoHandler
  Configurations <- MCConfigurations
  DefaultConfiguration <- Unconfigured
  Capabilities <- MCCapabilities
  Lengths <- MCLengths
  NoLength = NoLength
  Draining = TRUE
INVARIANTS
  RunningIsServed
  ObserversAreInformed
  DestroyedIsQuiet
