\* Two requests at the device and one that is held back.
CONSTANTS
  Requests = {r1, r2, r3}
  Ctx = {p1, p2, kblockd}
  Kblockd = kblockd
  NoReq = NoReq
  REQUEST_DEPTH = 1
  MaxTag = 3
  MaxStale = 1
SPECIFICATION MCSpec
SYMMETRY Symm
\* An oops stops the machine.
CHECK_DEADLOCK FALSE
INVARIANTS
  DepthExact
  NoStranded
PROPERTIES
  DispatchesLeast
  GoesBackOnlyInRaces
