\* A read batch that goes on, a read that follows, a write that waits.
CONSTANTS
  Requests = {r1, r2, r3}
  Ctx = {p1, kblockd}
  Kblockd = kblockd
  NoReq = NoReq
  Sectors = {1, 2, 3}
  fifo_batch = 2
  writes_starved = 1
  MaxStale = 1
SPECIFICATION Spec
SYMMETRY Symm
\* An oops stops the machine.
CHECK_DEADLOCK FALSE
INVARIANTS
  ListsAgree
  NextLinked
  WritesGetTheirTurn
PROPERTIES
  SortedUntilFrontMerge
