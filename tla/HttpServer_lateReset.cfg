SPECIFICATION Spec
CONSTANTS
  Threads = {t1, t2}
  NoThread = NoThread
  Requests = {r1}
  Handlers = {h1}
  NoHandler = NoHandler
  Configurations <- TwoConfigurations
  DefaultConfiguration <- Unconfigured
  Capabilities <- MCCapabilities
  Lengths <- MCLengths
  NoLength = NoLength
  Draining = TRUE
INVARIANTS
  RunningIsServed
