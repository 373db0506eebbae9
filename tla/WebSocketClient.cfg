SPECIFICATION FairSpec
CONSTANTS
  Threads = {app}
  Native = native
  Configurations <- MCConfigurations
  NoConfiguration = NoConfiguration
  MaxEvents = 2
  MaximumSize = 15
  MaximumHandshakeHeaderCount = 2
  FramingBytes = 4
INVARIANTS
  StateTracksPlatform
  DetachedIsQuiet
  PlatformGetsValidConfigurations
PROPERTIES
  TransientStatesEnd
