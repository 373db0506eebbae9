SPECIFICATION FairSpec
CONSTANTS
  Threads = {t1, t2}
  NoThread = NoThread
  Requests = {r1}
  Handlers = {h1}
  NoHandler = NoHandler
  Configurations <- MCConfigurations
  DefaultConfiguration <- Unconfigured
  Capabilities <- MCCapabilities
  Lengths <- MCLengths
  NoLength = NoLength
  Draining = TRUE
INVARIANTS
  OneOperationAtATime
  RequestsAreCurrent
  ConfigurationIsInstalled
PROPERTIES
  ImplementsLifecycle
  ImplementsFairLifecycle
  DestructionCompletes
