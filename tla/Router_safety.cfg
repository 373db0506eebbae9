SPECIFICATION FairSpec
CONSTANTS
  Length <- MCLength
  MaximumParameters = 2
  Threads = {t1, t2}
  Registrations <- MCRegistrations
  Requests <- MCRequests
  NoRoute = NoRoute
  Undecided = Undecided
  MaxHandles = 3
INVARIANTS
  HandlesAreUnique
  SelectionIsBest
PROPERTIES
  ImplementsRouteTable
  MutationsReturn
