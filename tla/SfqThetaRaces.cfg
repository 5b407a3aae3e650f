\* Registrations race with each other and with dispatches; fairness.
CONSTANTS
  Requests = {r1, r2}
  Ctx = {p1, p2, kblockd}
  Kblockd = kblockd
  NoReq = NoReq
  NoSfqq = NoSfqq
  REQUEST_DEPTH = 0
  MaxSfqq = 2
  MaxStale = 0
SPECIFICATION RacedSpec
\* An oops stops the machine.
CHECK_DEADLOCK FALSE
INVARIANTS
  CountsExact
  NoStranded
PROPERTIES
  CalmBacklogDrains
