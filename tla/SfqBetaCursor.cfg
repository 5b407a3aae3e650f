\* A dispatch between the count of a queue and its link.
CONSTANTS
  Requests = {r1, r2}
  Procs = {p1, p2}
  Ctx = {p1, p2, kblockd}
  Kblockd = kblockd
  NoReq = NoReq
  NoSfqq = NoSfqq
  REQUEST_DEPTH = 0
  MaxSfqq = 2
  MaxStale = 0
SPECIFICATION RacedSpec
SYMMETRY Symm
\* An oops stops the machine.
CHECK_DEADLOCK FALSE
INVARIANTS
  CursorOnQueue
