\* Three processes register, the third after the head was remembered.
CONSTANTS
  Requests = {r1, r2}
  Ctx = {p1, p2, p3, kblockd}
  Kblockd = kblockd
  NoReq = NoReq
  NoSfqq = NoSfqq
  REQUEST_DEPTH = 0
  MaxSfqq = 3
  MaxStale = 0
SPECIFICATION SingleSpec
SYMMETRY Symm
\* An oops stops the machine.
CHECK_DEADLOCK FALSE
INVARIANTS
  HeadPassedOver
