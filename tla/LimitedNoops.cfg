\* One CPU and kblockd; a third request waits at either program's limit.
CONSTANTS
  Requests = {r1, r2, r3}
  Ctx = {cpu1, kblockd}
  Kblockd = kblockd
  NoReq = NoReq
  MaxStale = 1
  REQUEST_DEPTH = 0
SPECIFICATION Spec
\* An oops stops the machine.
CHECK_DEADLOCK FALSE
INVARIANTS
  DepthExact
  CountsSuffice
  NoStranded
  WorkStopsAtFree
PROPERTIES
  EverythingServed
