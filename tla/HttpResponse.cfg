SPECIFICATION Spec
CONSTANTS
  Statuses = {"Created", "NotFound"}
  DefaultStatus = "Ok"
  MaxBytes = 3
  MaxSent = 5
  NoLength = NoLength
INVARIANTS
  StateIsWire
PROPERTIES
  ImplementsWire
  SendIsWhole
