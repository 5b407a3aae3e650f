\* One CPU and kblockd, three requests, one leaked count, with fairness.
CONSTANTS
  Requests = {r1, r2, r3}
  Ctx = {cpu1, kblockd}
  Kblockd = kblockd
  NoReq = NoReq
  MaxLeak = 1
SPECIFICATION Spec
\* An oops stops the machine.
CHECK_DEADLOCK FALSE
INVARIANTS
  NoStranded
  NeverUndercounts
  ExitFindsQueueEmpty
PROPERTIES
  EverythingServed
  ServesInOrder
