SPECIFICATION Spec
CONSTANTS
  Platforms = {p1, p2}
  NoPlatform = NoPlatform
  MaxDepth = 4
INVARIANTS
  NullOnlyIfUndercut
  StateTracksPlatform
  NothingIsLeftBehind
CHECK_DEADLOCK FALSE
